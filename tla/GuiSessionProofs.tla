-------------------------- MODULE GuiSessionProofs --------------------------
(*****************************************************************************)
(* Proofs about GuiSession, for any sets of programs and connections, any    *)
(* owner of each and any size of the view. The inductive invariant has       *)
(* three layers. Types: shapes, the eviction order and the switches, which   *)
(* the reducer keeps. Sessions: what the program counter of the client       *)
(* says of the wires, at most one event of a change under way in the         *)
(* daemon, and rules that keep their name. Views: for the switch, for each   *)
(* connection and for each rule, the last event on its way to the view       *)
(* tells what the daemon holds, and when none is on its way the view         *)
(* agrees already.                                                           *)
(*****************************************************************************)
EXTENDS GuiSession, CollectionProofs

-----------------------------------------------------------------------------
(* The eviction order *)

\* s is an order of the keys in D, each of them once.
Orders(s, D) == s \in Seq(Keys) /\ IsInjective(s) /\ ToSet(s) = D

\* An order names every key once.
LEMMA OrderHasAll ==
  ASSUME NEW o, NEW D, Orders(o, D)
  PROVE  IsFiniteSet(D) /\ D \subseteq Keys /\ Len(o) = Cardinality(D)
<1>1. /\ Len(o) \in Nat /\ DOMAIN o = 1..Len(o) /\ D \subseteq Keys
      /\ \A i \in 1..Len(o) : o[i] \in D
      /\ \A d \in D : \E i \in 1..Len(o) : o[i] = d
  BY DEF Orders, ToSet
<1>2. o \in [1..Len(o) -> D] /\ \A i, j \in 1..Len(o) : o[i] = o[j] => i = j
  BY <1>1 DEF Orders, IsInjective
<1>3. o \in Bijection(1..Len(o), D)
  <2>1. o \in Injection(1..Len(o), D)
    BY <1>1, <1>2 DEF Injection, IsInjective
  <2>2. o \in Surjection(1..Len(o), D)
    BY <1>1, <1>2 DEF Surjection
  <2>3. QED
    BY <2>1, <2>2 DEF Bijection
<1>4. ExistsBijection(1..Len(o), D)
  BY <1>3 DEF ExistsBijection
<1>5. QED
  BY <1>1, <1>4, FS_NatBijection, FS_CountingElements

\* A key that is new goes to the end.
LEMMA OrderGrows ==
  ASSUME NEW s, NEW D, Orders(s, D), NEW k \in Keys \ D
  PROVE  Orders(Append(s, k), D \cup {k})
<1> DEFINE r == Append(s, k)
<1>1. /\ Len(s) \in Nat /\ DOMAIN s = 1..Len(s) /\ r \in Seq(Keys) /\ DOMAIN r = 1..Len(s) + 1
      /\ \A i \in 1..Len(s) : r[i] = s[i] /\ s[i] \in D
      /\ r[Len(s) + 1] = k
      /\ \A d \in D : \E i \in 1..Len(s) : s[i] = d
  BY DEF Orders, ToSet
<1> HIDE DEF r
<1>2. IsInjective(r)
  <2>1. ASSUME NEW i \in 1..Len(s) + 1, NEW j \in 1..Len(s) + 1, r[i] = r[j] PROVE i = j
    <3>1. CASE i \in 1..Len(s) /\ j \in 1..Len(s)
      BY <1>1, <2>1, <3>1 DEF Orders, IsInjective
    <3>2. CASE i = Len(s) + 1 \/ j = Len(s) + 1
      BY <1>1, <2>1, <3>2
    <3>3. QED
      BY <1>1, <3>1, <3>2
  <2>2. QED
    BY <1>1, <2>1 DEF IsInjective
<1>3. ToSet(r) = D \cup {k}
  <2>1. ASSUME NEW x \in ToSet(r) PROVE x \in D \cup {k}
    BY <1>1 DEF ToSet
  <2>2. ASSUME NEW d \in D PROVE d \in ToSet(r)
    <3>1. PICK i \in 1..Len(s) : s[i] = d
      BY <1>1
    <3>2. i \in 1..Len(s) + 1 /\ r[i] = d
      BY <1>1, <3>1
    <3>3. QED
      BY <1>1, <3>2 DEF ToSet
  <2>3. k \in ToSet(r)
    BY <1>1 DEF ToSet
  <2>4. QED
    BY <2>1, <2>2, <2>3
<1>4. QED
  BY <1>1, <1>2, <1>3 DEF Orders, r

\* Without one key the order is one of the others.
LEMMA OrderShrinks ==
  ASSUME NEW s, NEW D, Orders(s, D), NEW k
  PROVE  Orders(Retain(s, D \ {k}), D \ {k})
BY RetainIs DEF Orders

\* Without its first n keys.
LEMMA OrderPops ==
  ASSUME NEW s, NEW D, Orders(s, D), NEW n \in 0..Len(s)
  PROVE  Orders(SubSeq(s, n + 1, Len(s)), D \ {s[i] : i \in 1..n})
<1> DEFINE r == SubSeq(s, n + 1, Len(s))
           gone == {s[i] : i \in 1..n}
<1>1. /\ Len(s) \in Nat /\ n \in Nat /\ n <= Len(s) /\ DOMAIN s = 1..Len(s)
      /\ \A i \in 1..Len(s) : s[i] \in D
      /\ \A d \in D : \E i \in 1..Len(s) : s[i] = d
      /\ \A i, j \in 1..Len(s) : s[i] = s[j] => i = j
  BY DEF Orders, ToSet, IsInjective
<1>2. /\ r \in Seq(Keys) /\ Len(r) = Len(s) - n /\ DOMAIN r = 1..Len(s) - n
      /\ \A i \in 1..Len(s) - n : r[i] = s[n + i]
  <2>1. n + 1 \in Int /\ Len(s) \in Int /\ \A i \in n + 1..Len(s) : s[i] \in Keys
    BY <1>1 DEF Orders
  <2>2. /\ r \in Seq(Keys)
        /\ Len(r) = IF n + 1 <= Len(s) THEN Len(s) - (n + 1) + 1 ELSE 0
        /\ \A i \in 1..Len(s) - (n + 1) + 1 : r[i] = s[(n + 1) + i - 1]
    BY <2>1, SubSeqProperties
  <2>3. Len(s) \in Nat /\ n \in Nat /\ n <= Len(s)
    BY <1>1
  <2> HIDE DEF r
  <2>4. Len(r) = Len(s) - n
    BY <2>2, <2>3
  <2>5. DOMAIN r = 1..Len(r)
    BY <2>2
  <2>6. \A i \in 1..Len(s) - n : i \in 1..Len(s) - (n + 1) + 1 /\ (n + 1) + i - 1 = n + i
    BY <2>3
  <2>7. QED
    BY <2>2, <2>4, <2>5, <2>6
<1> HIDE DEF r
<1>3. IsInjective(r)
  <2>1. ASSUME NEW i \in 1..Len(s) - n, NEW j \in 1..Len(s) - n, r[i] = r[j] PROVE i = j
    <3>1. n + i \in 1..Len(s) /\ n + j \in 1..Len(s) /\ s[n + i] = s[n + j]
      BY <1>1, <1>2, <2>1
    <3>2. n + i = n + j
      BY <1>1, <3>1
    <3>3. QED
      BY <1>1, <3>2
  <2>2. QED
    BY <1>2, <2>1 DEF IsInjective
<1>4. ASSUME NEW x \in ToSet(r) PROVE x \in D \ gone
  <2>1. PICK i \in 1..Len(s) - n : x = s[n + i]
    BY <1>2, <1>4 DEF ToSet
  <2>2. n + i \in 1..Len(s) /\ x \in D
    BY <1>1, <2>1
  <2>3. ASSUME NEW j \in 1..n, x = s[j] PROVE FALSE
    <3>1. j \in 1..Len(s) /\ j # n + i
      BY <1>1, <2>1
    <3>2. QED
      BY <1>1, <2>1, <2>2, <2>3, <3>1
  <2>4. QED
    BY <2>2, <2>3
<1>5. ASSUME NEW x \in D \ gone PROVE x \in ToSet(r)
  <2>1. PICK i \in 1..Len(s) : s[i] = x
    BY <1>1
  <2>2. ~(i \in 1..n)
    BY <2>1
  <2>3. i - n \in 1..Len(s) - n /\ n + (i - n) = i
    BY <1>1, <2>2
  <2>4. r[i - n] = x
    BY <1>2, <2>1, <2>3
  <2>5. QED
    BY <1>2, <2>3, <2>4 DEF ToSet
<1> HIDE DEF gone
<1>6. ToSet(r) = D \ gone
  BY <1>4, <1>5
<1>7. Orders(r, D \ gone)
  BY <1>2, <1>3, <1>6 DEF Orders
<1>8. QED
  BY <1>7 DEF r, gone

\* The order in which the daemon lists its map.
LEMMA AnyOrder ==
  ASSUME NEW D, IsFiniteSet(D), D \subseteq Keys, NEW s \in SetToSeqs(D)
  PROVE  Orders(s, D)
<1>1. s \in Seq(D) /\ IsInjective(s) /\ ToSet(s) = D
  BY SetToSeqsIs
<1>2. QED
  BY <1>1 DEF Orders

\* The cap pops some keys and takes out their connections.
LEMMA CappedIs ==
  ASSUME NEW g, Orders(g.order, DOMAIN g.conns)
  PROVE  \E n \in 0..Len(g.order) :
           Capped(g) = [g EXCEPT !.conns = Restrict(g.conns, DOMAIN g.conns \ {g.order[i] : i \in 1..n}),
                                 !.order = SubSeq(g.order, n + 1, Len(g.order))]
<1> DEFINE L == Len(g.order)
           left(n) == DOMAIN g.conns \ {g.order[i] : i \in 1 .. n}
           Fits(n) == n = L \/ Cardinality(left(n)) <= MaxConns
           Stops == {n \in 0..L : Fits(n)}
           pops == CHOOSE n \in 0 .. L : Fits(n) /\ \A m \in 0 .. n - 1 : Cardinality(left(m)) > MaxConns
<1>1. L \in Nat
  BY DEF Orders
<1>2. \A m \in 0..L : Cardinality(left(m)) \in Nat
  <2> TAKE m \in 0..L
  <2>1. IsFiniteSet(DOMAIN g.conns) /\ left(m) \in SUBSET DOMAIN g.conns
    BY OrderHasAll
  <2> HIDE DEF left
  <2>2. QED
    BY <2>1, FS_Subset, FS_CardinalityType
<1> HIDE DEF left
<1>3. L \in Stops /\ Stops \in SUBSET Nat
  BY <1>1
<1>4. PICK n \in Stops : \A m \in Stops : n <= m
  BY <1>3, Least
<1>5. \A m \in 0..n - 1 : Cardinality(left(m)) > MaxConns
  <2> TAKE m \in 0..n - 1
  <2>1. m \in 0..L /\ ~(n <= m)
    BY <1>1, <1>4
  <2>2. m \notin Stops
    BY <1>4, <2>1
  <2>3. QED
    BY <1>2, <2>1, <2>2, CapIsPositive
<1>6. \E q \in 0..L : Fits(q) /\ \A m \in 0..q - 1 : Cardinality(left(m)) > MaxConns
  BY <1>4, <1>5
<1>7. pops \in 0..L
  BY <1>6
<1>8. Capped(g) = [g EXCEPT !.conns = Restrict(@, left(pops)), !.order = SubSeq(@, pops + 1, Len(@))]
  BY DEF Capped, left
<1> HIDE DEF pops
<1>9. QED
  BY <1>7, <1>8 DEF left

-----------------------------------------------------------------------------
(* The reducer *)

Rule == [id : Nat \ {0}, exe : Executables]
IsApp(a) == a = [bytes |-> a.bytes, conns |-> a.conns, rule |-> a.rule]
IsFun(f) == f = [x \in DOMAIN f |-> f[x]]
IsState(g) == g = [connected |-> g.connected, paused |-> g.paused, rules |-> g.rules,
                   apps |-> g.apps, conns |-> g.conns, order |-> g.order, total |-> g.total]
AreApps(apps) == \A k \in DOMAIN apps : IsApp(apps[k])

\* The first Block rule of an executable, if there is one.
LEMMA RuleForIs ==
  ASSUME NEW rules \in Seq(Rule), NEW k
  PROVE  /\ (\E r \in ToSet(rules) : r.exe = k) => RuleFor(rules, k) # NoRule
         /\ RuleFor(rules, k) # NoRule =>
              \E r \in ToSet(rules) : r.exe = k /\ r.id = RuleFor(rules, k)
<1> DEFINE I == {i \in 1..Len(rules) : rules[i].exe = k}
           n == IF I # {} THEN Min(I) ELSE 0
<1>1. I \in SUBSET Nat /\ DOMAIN rules = 1..Len(rules)
  OBVIOUS
<1>2. I # {} => Min(I) \in I
  BY <1>1, MinIsLeast
<1>3. RuleFor(rules, k) = IF n = 0 THEN NoRule ELSE rules[n].id
  BY DEF RuleFor, SelectInSeq
<1>4. CASE I = {}
  <2>1. n = 0 /\ ~ \E r \in ToSet(rules) : r.exe = k
    BY <1>1, <1>4 DEF ToSet
  <2>2. QED
    BY <1>3, <2>1
<1>5. CASE I # {}
  <2>1. n \in 1..Len(rules) /\ rules[n].exe = k
    BY <1>2, <1>5
  <2> HIDE DEF n
  <2>2. rules[n] \in ToSet(rules) /\ rules[n] \in Rule /\ n # 0
    BY <1>1, <2>1 DEF ToSet
  <2>3. RuleFor(rules, k) = rules[n].id /\ rules[n].id # NoRule
    BY <1>3, <2>2 DEF Rule, NoRule
  <2>4. QED
    BY <2>1, <2>2, <2>3
<1>6. QED
  BY <1>4, <1>5

\* The entry of an application, new or not, is one.
LEMMA AppInIs ==
  ASSUME NEW apps, AreApps(apps), NEW k
  PROVE  IsApp(AppIn(apps, k))
BY DEF AreApps, AppIn, NewApp, IsApp

\* After refresh_rule_flags the flags follow the rules.
LEMMA RefreshedIs ==
  ASSUME NEW apps, AreApps(apps), NEW rules \in Seq(Rule)
  PROVE  LET f == Refreshed(apps, rules)
         IN  /\ AreApps(f)
             /\ \A k \in DOMAIN f : f[k].rule = RuleFor(rules, k)
             /\ \A r \in ToSet(rules) : r.exe \in DOMAIN f
<1> DEFINE D == DOMAIN apps \cup {r.exe : r \in ToSet(rules)}
           flagged == [k \in D |-> [AppIn(apps, k) EXCEPT !.rule = RuleFor(rules, k)]]
           f == Refreshed(apps, rules)
<1>1. ASSUME NEW k \in D PROVE IsApp(flagged[k]) /\ flagged[k].rule = RuleFor(rules, k)
  <2>1. IsApp(AppIn(apps, k)) /\ flagged[k] = [AppIn(apps, k) EXCEPT !.rule = RuleFor(rules, k)]
    BY AppInIs
  <2> HIDE DEF flagged
  <2>2. QED
    BY <2>1 DEF IsApp
<1>2. /\ DOMAIN f = {k \in D : flagged[k].conns > 0 \/ flagged[k].rule # NoRule}
      /\ \A k \in DOMAIN f : f[k] = flagged[k]
  BY DEF Refreshed, RestrictValues, Restrict
<1>3. \A r \in ToSet(rules) : r.exe \in D /\ RuleFor(rules, r.exe) # NoRule
  BY RuleForIs
<1> HIDE DEF flagged, f, D
<1>4. AreApps(f) /\ \A k \in DOMAIN f : f[k].rule = RuleFor(rules, k)
  BY <1>1, <1>2 DEF AreApps
<1>5. \A r \in ToSet(rules) : r.exe \in DOMAIN f
  BY <1>1, <1>2, <1>3
<1>6. QED
  BY <1>4, <1>5 DEF f

\* What the pages rely on, in every state of the GUI.
Sound(g) ==
  /\ IsState(g) /\ g.rules \in Seq(Rule) /\ AreApps(g.apps) /\ IsFun(g.conns)
  /\ FlagsFollow(g) /\ Orders(g.order, DOMAIN g.conns)

\* New rules, with the flags refreshed, keep the state sound (gui/src/state.rs:235-270).
LEMMA WithRulesIs ==
  ASSUME NEW g, Sound(g), NEW rules \in Seq(Rule)
  PROVE  /\ Sound(WithRules(g, rules))
         /\ WithRules(g, rules).rules = rules
         /\ WithRules(g, rules).conns = g.conns
         /\ WithRules(g, rules).paused = g.paused
         /\ WithRules(g, rules).connected = g.connected
<1> DEFINE h == WithRules(g, rules)
<1>1. /\ IsState(h) /\ h.rules = rules /\ h.apps = Refreshed(g.apps, rules)
      /\ h.conns = g.conns /\ h.order = g.order /\ h.paused = g.paused /\ h.connected = g.connected
  <2>1. IsState(g)
    BY DEF Sound
  <2>2. h = [g EXCEPT !.rules = rules, !.apps = Refreshed(g.apps, rules)]
    BY DEF WithRules
  <2> HIDE DEF h
  <2>3. QED
    BY <2>1, <2>2 DEF IsState
<1>2. AreApps(g.apps)
  BY DEF Sound
<1> HIDE DEF h
<1>3. AreApps(h.apps) /\ FlagsFollow(h)
  BY <1>1, <1>2, RefreshedIs DEF FlagsFollow
<1>4. QED
  BY <1>1, <1>3 DEF Sound, h

\* upsert_conn: the connection is put, and some connections may be evicted.
LEMMA UpsertIs ==
  ASSUME NEW g, Sound(g), NEW k \in Keys, NEW c, NEW isOpen \in BOOLEAN
  PROVE  LET u == Upsert(g, k, c, isOpen)
         IN  /\ Sound(u)
             /\ u.rules = g.rules /\ u.paused = g.paused /\ u.connected = g.connected
             /\ DOMAIN u.conns \subseteq DOMAIN g.conns \cup {k}
             /\ \A j \in DOMAIN u.conns : u.conns[j] = Put(g.conns, k, c)[j]
<1> DEFINE existed == k \in DOMAIN g.conns
           delta   == SatSub(c.bytes, IF existed THEN g.conns[k].bytes ELSE 0)
           app     == AppIn(g.apps, c.exe)
           counted == [bytes |-> app.bytes + delta,
                       conns |-> IF isOpen /\ ~existed THEN app.conns + 1 ELSE app.conns,
                       rule  |-> RuleFor(g.rules, c.exe)]
           order   == IF existed THEN g.order ELSE Append(g.order, k)
           h == [g EXCEPT !.total = @ + delta, !.apps = Put(@, c.exe, counted),
                          !.conns = Put(@, k, c),
                          !.order = IF existed THEN @ ELSE Append(@, k)]
           u == Upsert(g, k, c, isOpen)
<1>1. u = Capped(h)
  BY DEF Upsert
<1>2. IsApp(counted) /\ counted.rule = RuleFor(g.rules, c.exe)
  BY DEF IsApp
<1> HIDE DEF counted, delta
<1>3. /\ IsState(h) /\ h.rules = g.rules /\ h.paused = g.paused /\ h.connected = g.connected
      /\ h.apps = Put(g.apps, c.exe, counted) /\ h.conns = Put(g.conns, k, c)
      /\ h.order = order
  <2>1. IsState(g)
    BY DEF Sound
  <2>2. h = [g EXCEPT !.total = g.total + delta, !.apps = Put(g.apps, c.exe, counted),
                      !.conns = Put(g.conns, k, c), !.order = order]
    OBVIOUS
  <2> HIDE DEF h, order
  <2>3. QED
    BY <2>1, <2>2 DEF IsState
<1> HIDE DEF h, u
<1>4. AreApps(h.apps) /\ FlagsFollow(h)
  <2>1. /\ DOMAIN h.apps = DOMAIN g.apps \cup {c.exe} /\ h.apps[c.exe] = counted
        /\ \A e \in DOMAIN g.apps \ {c.exe} : h.apps[e] = g.apps[e]
    <3>1. h.apps = Put(g.apps, c.exe, counted)
      BY <1>3
    <3>2. QED
      BY <3>1 DEF Put
  <2>2. QED
    BY <1>2, <1>3, <2>1 DEF Sound, AreApps, FlagsFollow
<1>5. Orders(h.order, DOMAIN h.conns)
  <2>1. DOMAIN h.conns = DOMAIN g.conns \cup {k}
    <3>1. h.conns = Put(g.conns, k, c)
      BY <1>3
    <3>2. QED
      BY <3>1 DEF Put
  <2>2. CASE existed
    BY <1>3, <2>1, <2>2 DEF Sound
  <2>3. CASE ~existed
    <3>1. Orders(Append(g.order, k), DOMAIN g.conns \cup {k})
      BY <2>3, OrderGrows DEF Sound
    <3>2. QED
      BY <1>3, <2>1, <2>3, <3>1
  <2>4. QED
    BY <2>2, <2>3
<1>6. PICK n \in 0..Len(h.order) :
        u = [h EXCEPT !.conns = Restrict(h.conns, DOMAIN h.conns \ {h.order[i] : i \in 1..n}),
                      !.order = SubSeq(h.order, n + 1, Len(h.order))]
  BY <1>1, <1>5, CappedIs
<1> DEFINE left == DOMAIN h.conns \ {h.order[i] : i \in 1..n}
<1>7. Orders(SubSeq(h.order, n + 1, Len(h.order)), left)
  BY <1>5, OrderPops
<1> HIDE DEF left
<1>8. /\ IsState(u) /\ u.rules = g.rules /\ u.paused = g.paused /\ u.connected = g.connected
      /\ u.apps = h.apps
      /\ u.conns = Restrict(h.conns, left)
      /\ u.order = SubSeq(h.order, n + 1, Len(h.order))
  BY <1>3, <1>6 DEF IsState, left
<1>9. DOMAIN u.conns = left /\ IsFun(u.conns) /\ \A j \in left : u.conns[j] = h.conns[j]
  BY <1>8 DEF Restrict, IsFun
<1>10. left \subseteq DOMAIN g.conns \cup {k}
  <2>1. h.conns = Put(g.conns, k, c)
    BY <1>3
  <2>2. QED
    BY <2>1 DEF left, Put
<1>11. Sound(u)
  BY <1>3, <1>4, <1>7, <1>8, <1>9 DEF Sound, FlagsFollow
<1>12. QED
  BY <1>3, <1>8, <1>9, <1>10, <1>11 DEF u

\* remove_conn: the connection goes, and its application if nothing else keeps it.
LEMMA RemoveConnIs ==
  ASSUME NEW g, Sound(g), NEW k
  PROVE  LET u == RemoveConn(g, k)
         IN  /\ Sound(u)
             /\ u.rules = g.rules /\ u.paused = g.paused /\ u.connected = g.connected
             /\ DOMAIN u.conns = DOMAIN g.conns \ {k}
             /\ \A j \in DOMAIN u.conns : u.conns[j] = g.conns[j]
<1> DEFINE u == RemoveConn(g, k)
           e == g.conns[k].exe
           app == [AppIn(g.apps, e) EXCEPT !.conns = SatSub(@, 1)]
           rest == Restrict(g.apps, DOMAIN g.apps \ {e})
           goes == e \notin DOMAIN g.apps \/ (app.conns = 0 /\ app.rule = NoRule)
           apps == IF goes THEN rest ELSE Put(rest, e, app)
           conns == Restrict(g.conns, DOMAIN g.conns \ {k})
           order == Retain(g.order, DOMAIN g.conns \ {k})
<1>1. CASE k \notin DOMAIN g.conns
  <2>1. u = g
    BY <1>1 DEF RemoveConn
  <2>2. DOMAIN g.conns \ {k} = DOMAIN g.conns
    BY <1>1
  <2> HIDE DEF u
  <2>3. QED
    BY <2>1, <2>2 DEF u
<1>2. CASE k \in DOMAIN g.conns
  <2>1. u = [g EXCEPT !.conns = conns, !.order = order, !.apps = apps]
    BY <1>2 DEF RemoveConn
  <2>2. IsApp(app) /\ (e \in DOMAIN g.apps => app.rule = RuleFor(g.rules, e))
    <3>1. IsApp(AppIn(g.apps, e)) /\ app = [AppIn(g.apps, e) EXCEPT !.conns = SatSub(@, 1)]
      BY AppInIs DEF Sound
    <3>2. e \in DOMAIN g.apps => AppIn(g.apps, e).rule = RuleFor(g.rules, e)
      BY DEF AppIn, Sound, FlagsFollow
    <3> HIDE DEF app, e
    <3>3. QED
      BY <3>1, <3>2 DEF IsApp
  <2> HIDE DEF app
  <2>3. /\ DOMAIN rest = DOMAIN g.apps \ {e}
        /\ \A x \in DOMAIN g.apps \ {e} : rest[x] = g.apps[x]
    BY RestrictIs
  <2>4. goes => \A r \in ToSet(g.rules) : r.exe # e
    <3>1. CASE e \notin DOMAIN g.apps
      BY <3>1 DEF Sound, FlagsFollow
    <3>2. CASE e \in DOMAIN g.apps /\ app.rule = NoRule
      <4>1. RuleFor(g.rules, e) = NoRule
        BY <2>2, <3>2
      <4>2. QED
        BY <4>1, RuleForIs DEF Sound
    <3>3. QED
      BY <3>1, <3>2
  <2>5. /\ ~goes => DOMAIN Put(rest, e, app) = DOMAIN g.apps
        /\ Put(rest, e, app)[e] = app
        /\ \A x \in DOMAIN g.apps \ {e} : Put(rest, e, app)[x] = g.apps[x]
    <3> HIDE DEF rest, e
    <3>1. /\ DOMAIN Put(rest, e, app) = DOMAIN rest \cup {e}
          /\ Put(rest, e, app)[e] = app
          /\ \A x \in DOMAIN rest \ {e} : Put(rest, e, app)[x] = rest[x]
      BY DEF Put
    <3>2. QED
      BY <2>3, <3>1
  <2> HIDE DEF rest, e
  <2>6. AreApps(apps)
    BY <2>2, <2>3, <2>5 DEF Sound, AreApps
  <2>7. /\ \A x \in DOMAIN apps : apps[x].rule = RuleFor(g.rules, x)
        /\ \A r \in ToSet(g.rules) : r.exe \in DOMAIN apps
    BY <2>2, <2>3, <2>4, <2>5 DEF Sound, FlagsFollow
  <2>8. Orders(order, DOMAIN g.conns \ {k})
    BY OrderShrinks DEF Sound
  <2>9. /\ DOMAIN conns = DOMAIN g.conns \ {k} /\ IsFun(conns)
        /\ \A j \in DOMAIN g.conns \ {k} : conns[j] = g.conns[j]
    BY DEF Restrict, IsFun
  <2> HIDE DEF u, apps, conns, order
  <2>10. /\ IsState(u) /\ u.rules = g.rules /\ u.paused = g.paused /\ u.connected = g.connected
         /\ u.apps = apps /\ u.conns = conns /\ u.order = order
    BY <2>1 DEF IsState, Sound
  <2>11. Sound(u)
    BY <2>6, <2>7, <2>8, <2>9, <2>10 DEF Sound, FlagsFollow
  <2>12. QED
    BY <2>9, <2>10, <2>11 DEF u
<1>3. QED
  BY <1>1, <1>2

\* apply_snapshot
LEMMA SnapshotIs ==
  ASSUME NEW g, NEW s, AreApps(s.top), s.rules \in Seq(Rule), IsFun(s.conns),
         IsFiniteSet(DOMAIN s.conns), DOMAIN s.conns \subseteq Keys,
         NEW order \in SetToSeqs(DOMAIN s.conns)
  PROVE  LET u == ApplySnapshot(g, s, order)
         IN  Sound(u) /\ u.rules = s.rules /\ u.conns = s.conns /\ u.paused = s.paused /\ u.connected
<1> DEFINE u == ApplySnapshot(g, s, order)
<1>1. /\ IsState(u) /\ u.rules = s.rules /\ u.conns = s.conns /\ u.paused = s.paused /\ u.connected
      /\ u.apps = Refreshed(s.top, s.rules) /\ u.order = order
  BY DEF ApplySnapshot, IsState
<1>2. Orders(order, DOMAIN s.conns)
  BY AnyOrder
<1> HIDE DEF u
<1>3. AreApps(u.apps) /\ FlagsFollow(u)
  BY <1>1, RefreshedIs DEF FlagsFollow
<1>4. QED
  BY <1>1, <1>2, <1>3 DEF Sound, u

Conn   == [exe : AppKeys, bytes : Nat]
Events == [type : {"opened", "updated"}, key : Keys, conn : Conn]
          \cup [type : {"closed"}, key : Keys]
          \cup [type : {"added"}, rule : Rule]
          \cup [type : {"removed"}, id : Nat]
          \cup [type : {"paused"}, paused : BOOLEAN]

\* apply_event
LEMMA EventIs ==
  ASSUME NEW g, Sound(g), NEW ev \in Events
  PROVE  Sound(ApplyEvent(g, ev))
<1>1. CASE ev.type \in {"opened", "updated"}
  <2>1. ev.key \in Keys
    BY <1>1 DEF Events
  <2>2. PICK b \in BOOLEAN : ApplyEvent(g, ev) = Upsert(g, ev.key, ev.conn, b)
    BY <1>1 DEF ApplyEvent
  <2>3. QED
    BY <2>1, <2>2, UpsertIs
<1>2. CASE ev.type = "closed"
  <2>1. ApplyEvent(g, ev) = RemoveConn(g, ev.key)
    BY <1>2 DEF ApplyEvent
  <2>2. QED
    BY <2>1, RemoveConnIs
<1>3. CASE ev.type = "added"
  <2>1. ev.rule \in Rule
    BY <1>3 DEF Events
  <2>2. WithoutRule(g.rules, ev.rule.id) \in Seq(Rule)
    BY RetainIs DEF WithoutRule, Sound
  <2>3. Append(WithoutRule(g.rules, ev.rule.id), ev.rule) \in Seq(Rule)
    BY <2>1, <2>2
  <2>4. ApplyEvent(g, ev) = WithRules(g, Append(WithoutRule(g.rules, ev.rule.id), ev.rule))
    BY <1>3 DEF ApplyEvent
  <2>5. QED
    BY <2>3, <2>4, WithRulesIs
<1>4. CASE ev.type = "removed"
  <2>1. WithoutRule(g.rules, ev.id) \in Seq(Rule)
    BY RetainIs DEF WithoutRule, Sound
  <2>2. ApplyEvent(g, ev) = WithRules(g, WithoutRule(g.rules, ev.id))
    BY <1>4 DEF ApplyEvent
  <2>3. QED
    BY <2>1, <2>2, WithRulesIs
<1>5. CASE ev.type = "paused"
  <2> DEFINE h == ApplyEvent(g, ev)
  <2>1. h = [g EXCEPT !.paused = ev.paused]
    BY <1>5 DEF ApplyEvent
  <2> HIDE DEF h
  <2>2. /\ IsState(h) /\ h.rules = g.rules /\ h.apps = g.apps
        /\ h.conns = g.conns /\ h.order = g.order
    BY <2>1 DEF IsState, Sound
  <2>3. QED
    BY <2>2 DEF Sound, FlagsFollow, h
<1>6. QED
  BY <1>1, <1>2, <1>3, <1>4, <1>5 DEF Events

-----------------------------------------------------------------------------
(* The inductive invariant *)

\* What the requests publish.
Requests == [type : {"added"}, rule : Rule]
            \cup [type : {"removed"}, id : Nat \ {0}]
            \cup [type : {"paused"}, paused : BOOLEAN]

IsConns(conns) ==
  /\ IsFun(conns) /\ IsFiniteSet(DOMAIN conns) /\ DOMAIN conns \subseteq Keys
  /\ \A k \in DOMAIN conns : conns[k] \in Conn

Types ==
  /\ dPaused \in BOOLEAN /\ dRules \in Seq(Rule) /\ nextId \in Nat \ {0} /\ IsConns(dConns)
  /\ changes \in Nat /\ outbox \subseteq Nat \X Requests
  /\ sub \in {"none", "sent", "live"} /\ chan \in Seq(Events) /\ wire \in Seq(Events)
  /\ snap = [paused |-> snap.paused, top |-> snap.top, conns |-> snap.conns, rules |-> snap.rules]
  /\ IsConns(snap.conns) /\ AreApps(snap.top)
  /\ crossed \in BOOLEAN /\ gap \in BOOLEAN /\ replaced \in BOOLEAN
  /\ Sound(gui)

Fetching == {"status", "top", "conns", "rules"}

\* A session and its stream.
Wiring ==
  /\ pc \in {"down", "stream"} \cup Fetching
  /\ sub = "none" <=> pc = "down"
  /\ sub # "live" => chan = <<>> /\ wire = <<>>
  /\ pc \in Fetching => evicted = {}
  /\ pc = "stream" => gui.connected

\* What is made known by an event is what the daemon has.
Tells(ev) ==
  /\ ev.type = "added"  => ev.rule \in ToSet(dRules)
  /\ ev.type = "paused" => ev.paused = dPaused

\* Events that cannot have been overtaken are at most one, and it is up to date.
OneAtATime ==
  /\ ~crossed => /\ \A o, p \in outbox : o = p
                 /\ \A o \in outbox : Tells(o[2])
  /\ pc # "down" /\ ~gap => ~crossed \/ outbox = {}

\* The events that the GUI may still get, and the rules that anybody knows of.
Heard == ToSet(wire) \cup ToSet(chan) \cup {o[2] : o \in outbox}
Known == ToSet(dRules) \cup ToSet(gui.rules) \cup {ev.rule : ev \in {x \in Heard : x.type = "added"}}

\* A rule id stands for one rule for ever, and a removed rule does not come back.
Naming ==
  /\ \A r \in Known : r \in Rule /\ r.id < nextId
  /\ \A r, s \in Known : r.id = s.id => r = s
  /\ \A ev \in Heard : ev.type = "removed" =>
       /\ ev.id < nextId
       /\ \A r \in ToSet(dRules) : r.id # ev.id

\* The stream from the channel to the client, and what an event of it is about.
Coming == wire \o chan
AboutPause   == {ev \in Events : ev.type = "paused"}
AboutConn(k) == {ev \in Events : ev.type \in {"opened", "updated", "closed"} /\ ev.key = k}
AboutRule(n) == {ev \in Events : \/ ev.type = "added" /\ ev.rule.id = n
                                 \/ ev.type = "removed" /\ ev.id = n}

PauseTold == {ev \in Events : ev.type = "paused" /\ ev.paused = dPaused}
ConnTold(k) == {ev \in Events :
                  IF k \in DOMAIN dConns
                  THEN ev.type \in {"opened", "updated"} /\ ev.conn = dConns[k]
                  ELSE ev.type = "closed"}
Removal(n) == {ev \in Events : ev.type = "removed" /\ ev.id = n}

\* No element of s is in A; or the last one that is in A is in G.
Silent(s, A) == \A i \in 1..Len(s) : s[i] \notin A
LastIn(s, A, G) ==
  \A i \in 1..Len(s) : s[i] \in A => s[i] \in G \/ \E j \in i + 1..Len(s) : s[j] \in A

\* A session that missed nothing.
Faithful == pc # "down" /\ ~gap

\* The last event on its way about the pause tells it, and without any the client knows it.
PauseView ==
  Faithful /\ (\A o \in outbox : o[2].type # "paused") =>
    /\ LastIn(Coming, AboutPause, PauseTold)
    /\ Silent(Coming, AboutPause) =>
         /\ pc \in {"top", "conns", "rules"} => snap.paused = dPaused
         /\ pc = "stream" => gui.paused = dPaused

\* The same for each connection, but for those that the cap evicted.
Shows(conns, k) ==
  /\ k \in DOMAIN conns <=> k \in DOMAIN dConns \ evicted
  /\ k \in DOMAIN conns => conns[k] = dConns[k]
ConnView ==
  Faithful => \A k \in Keys :
    /\ LastIn(Coming, AboutConn(k), ConnTold(k))
    /\ Silent(Coming, AboutConn(k)) =>
         /\ pc = "rules" => Shows(snap.conns, k)
         /\ pc = "stream" => Shows(gui.conns, k)

\* The daemon's rules are in the view or on their way to it.
RuleView ==
  pc = "stream" /\ ~gap => \A r \in ToSet(dRules) :
    \/ r \in ToSet(gui.rules)
    \/ \E ev \in Heard : ev.type = "added" /\ ev.rule = r

\* Of the other ones, which were not replaced, the removal is on its way or done.
GoneView ==
  Faithful /\ ~replaced => \A n \in Nat :
    (\A r \in ToSet(dRules) : r.id # n) /\ (\A o \in outbox : ~(o[2].type = "removed" /\ o[2].id = n)) =>
      /\ LastIn(Coming, AboutRule(n), Removal(n))
      /\ pc = "stream" /\ Silent(Coming, AboutRule(n)) => \A r \in ToSet(gui.rules) : r.id # n

-----------------------------------------------------------------------------
(* Types *)

LEMMA TopAppsAre ==
  ASSUME NEW conns
  PROVE  AreApps(TopApps(conns))
<1> DEFINE keys(e) == {k \in DOMAIN conns : conns[k].exe = e}
           entry(e) == [NewApp EXCEPT !.bytes = BytesOf(conns, keys(e)), !.conns = Cardinality(keys(e))]
<1>1. /\ DOMAIN TopApps(conns) = {conns[k].exe : k \in DOMAIN conns}
      /\ \A e \in DOMAIN TopApps(conns) : TopApps(conns)[e] = entry(e)
  BY DEF TopApps
<1>2. ASSUME NEW e PROVE IsApp(entry(e))
  <2>1. ASSUME NEW b, NEW n, NEW a, a = [NewApp EXCEPT !.bytes = b, !.conns = n] PROVE IsApp(a)
    <3>1. a = [bytes |-> b, conns |-> n, rule |-> 0]
      BY Zenon, <2>1 DEF NewApp, NoRule
    <3>2. QED
      BY <3>1 DEF IsApp
  <2>2. QED
    BY <2>1
<1> HIDE DEF entry
<1>3. QED
  BY <1>1, <1>2 DEF AreApps

\* A map of connections stays one with an entry more.
LEMMA PutConns ==
  ASSUME NEW conns, IsConns(conns), NEW k \in Keys, NEW c \in Conn
  PROVE  IsConns(Put(conns, k, c))
<1>1. /\ DOMAIN Put(conns, k, c) = DOMAIN conns \cup {k} /\ IsFun(Put(conns, k, c))
      /\ Put(conns, k, c)[k] = c /\ \A j \in DOMAIN conns \ {k} : Put(conns, k, c)[j] = conns[j]
  BY DEF Put, IsFun
<1>2. IsFiniteSet(DOMAIN conns \cup {k})
  BY FS_AddElement DEF IsConns
<1>3. QED
  BY <1>1, <1>2 DEF IsConns

\* A map of connections stays one with an entry less.
LEMMA DropConns ==
  ASSUME NEW conns, IsConns(conns), NEW k
  PROVE  IsConns(Restrict(conns, DOMAIN conns \ {k}))
<1> DEFINE r == Restrict(conns, DOMAIN conns \ {k})
<1>1. /\ DOMAIN r = DOMAIN conns \ {k} /\ IsFun(r)
      /\ \A j \in DOMAIN r : r[j] = conns[j]
  BY DEF Restrict, IsFun
<1>2. IsFiniteSet(DOMAIN conns \ {k})
  BY FS_Subset DEF IsConns
<1> HIDE DEF r
<1>3. QED
  BY <1>1, <1>2 DEF IsConns, r

\* The empty map of connections.
LEMMA NoConns == IsConns(<<>>)
<1>1. DOMAIN <<>> = {}
  OBVIOUS
<1>2. IsFun(<<>>)
  BY DEF IsFun
<1>3. QED
  BY <1>1, <1>2, FS_EmptySet DEF IsConns

\* The three things that the poll does, in one form: what becomes of a key, and the event.
Polls(k, ev, conns) ==
  /\ IsConns(conns) /\ ev \in AboutConn(k)
  /\ \A j \in Keys \ {k} : /\ j \in DOMAIN conns <=> j \in DOMAIN dConns
                           /\ j \in DOMAIN conns => conns[j] = dConns[j]
  /\ k \in DOMAIN conns => ev.type \in {"opened", "updated"} /\ ev.conn = conns[k]
  /\ k \notin DOMAIN conns => ev.type = "closed"

\* What the poll finds is an event about one connection.
LEMMA PollIs ==
  ASSUME Types, NEW k \in Keys, NEW n \in 0..MaxBytes, NEW e \in AppKeys,
         Updated(k, n) \/ Opened(k, e, n) \/ Closed(k)
  PROVE  \E ev \in Events : \E conns, b : Polls(k, ev, conns) /\ PollStep(conns, ev, b)
<1>0. n \in Nat /\ IsConns(dConns)
  BY Bounds DEF Types
<1>1. CASE Opened(k, e, n)
  <2> DEFINE c == [exe |-> e, bytes |-> n]
             ev == [type |-> "opened", key |-> k, conn |-> c]
  <2>1. PollStep(Put(dConns, k, c), ev, n)
    BY <1>1 DEF Opened
  <2>2. c \in Conn /\ ev \in Events
    BY <1>0 DEF Conn, Events
  <2>3. ev.type = "opened" /\ ev.key = k /\ ev.conn = c
    OBVIOUS
  <2> HIDE DEF c, ev
  <2>4. /\ DOMAIN Put(dConns, k, c) = DOMAIN dConns \cup {k} /\ Put(dConns, k, c)[k] = c
        /\ \A j \in DOMAIN dConns \ {k} : Put(dConns, k, c)[j] = dConns[j]
    BY DEF Put
  <2>5. IsConns(Put(dConns, k, c))
    BY <1>0, <2>2, PutConns
  <2>6. Polls(k, ev, Put(dConns, k, c))
    BY <2>2, <2>3, <2>4, <2>5 DEF Polls, AboutConn
  <2>7. QED
    BY <2>1, <2>2, <2>6
<1>2. CASE Updated(k, n)
  <2> DEFINE c == [dConns[k] EXCEPT !.bytes = n]
             ev == [type |-> "updated", key |-> k, conn |-> c]
             conns == [dConns EXCEPT ![k] = c]
  <2>1. PICK b : PollStep(conns, ev, b)
    BY <1>2 DEF Updated
  <2>2. c \in Conn /\ ev \in Events
    <3>1. dConns[k] \in Conn
      BY <1>0, <1>2 DEF IsConns, Updated
    <3>2. c \in Conn
      BY <1>0, <3>1 DEF Conn
    <3> HIDE DEF c
    <3>3. QED
      BY <3>2 DEF Events
  <2>3. ev.type = "updated" /\ ev.key = k /\ ev.conn = c
    OBVIOUS
  <2> HIDE DEF c
  <2>4. k \in DOMAIN dConns
    BY <1>2 DEF Updated
  <2>5. /\ DOMAIN conns = DOMAIN dConns /\ conns[k] = c /\ IsFun(conns)
        /\ \A j \in DOMAIN dConns \ {k} : conns[j] = dConns[j]
    BY <2>4 DEF IsFun
  <2> HIDE DEF ev, conns
  <2>6. IsConns(conns)
    BY <1>0, <2>2, <2>5 DEF IsConns
  <2>7. Polls(k, ev, conns)
    BY <2>2, <2>3, <2>4, <2>5, <2>6 DEF Polls, AboutConn
  <2>8. QED
    BY <2>1, <2>2, <2>7
<1>3. CASE Closed(k)
  <2> DEFINE ev == [type |-> "closed", key |-> k]
             conns == Restrict(dConns, DOMAIN dConns \ {k})
  <2>1. PollStep(conns, ev, 0)
    BY <1>3 DEF Closed
  <2>2. ev \in Events /\ ev.type = "closed" /\ ev.key = k
    BY DEF Events
  <2>3. DOMAIN conns = DOMAIN dConns \ {k} /\ \A j \in DOMAIN conns : conns[j] = dConns[j]
    BY RestrictIs
  <2>4. IsConns(conns)
    BY <1>0, DropConns
  <2> HIDE DEF ev, conns
  <2>5. Polls(k, ev, conns)
    BY <2>2, <2>3, <2>4 DEF Polls, AboutConn
  <2>6. QED
    BY <2>1, <2>2, <2>5
<1>4. QED
  BY <1>1, <1>2, <1>3

\* The three requests, in one form: the event, and what it makes of pause and rules.
Requested(ev) ==
  /\ ev \in Requests
  /\ Change /\ outbox' = outbox \cup {<<changes', ev>>}
  /\ crossed' = (outbox # {}) /\ gap' = (gap \/ crossed')
  /\ UNCHANGED <<dConns, stream, client, drops, evicted, seen>>
  /\ dRules' \in Seq(Rule) /\ nextId' \in Nat \ {0} /\ nextId' >= nextId
  /\ replaced' \in BOOLEAN /\ (replaced => replaced')
  /\ \/ /\ ev.type = "added" /\ ev.rule.id = nextId /\ nextId' = nextId + 1
        /\ ev.rule \in ToSet(dRules') /\ ToSet(dRules') \subseteq ToSet(dRules) \cup {ev.rule}
        /\ ~replaced' => ToSet(dRules) \subseteq ToSet(dRules')
        /\ dPaused' = dPaused
     \/ /\ ev.type = "removed" /\ ToSet(dRules') = {r \in ToSet(dRules) : r.id # ev.id}
        /\ \E r \in ToSet(dRules) : r.id = ev.id
        /\ dPaused' = dPaused /\ replaced' = replaced
     \/ /\ ev.type = "paused" /\ dPaused' = ev.paused
        /\ dRules' = dRules /\ replaced' = replaced

\* The rules without one.
LEMMA WithoutIs ==
  ASSUME NEW rules \in Seq(Rule), NEW n
  PROVE  /\ WithoutRule(rules, n) \in Seq(Rule)
         /\ ToSet(WithoutRule(rules, n)) = {r \in ToSet(rules) : r.id # n}
<1> DEFINE keep == {r \in ToSet(rules) : r.id # n}
<1>1. WithoutRule(rules, n) \in Seq(Rule) /\ ToSet(WithoutRule(rules, n)) = ToSet(rules) \cap keep
  BY RetainIs DEF WithoutRule
<1>2. QED
  BY <1>1

\* Each request is one event about the rules or the pause.
LEMMA RequestIs ==
  ASSUME Types,
         \/ \E e \in Executables : AddRule(e)
         \/ \E r \in ToSet(dRules) : RemoveRule(r)
         \/ \E p \in BOOLEAN : SetPaused(p)
  PROVE  \E ev \in Events : Requested(ev)
<1>0. dRules \in Seq(Rule) /\ nextId \in Nat \ {0} /\ replaced \in BOOLEAN
  BY DEF Types
<1>1. ASSUME NEW e \in Executables, AddRule(e) PROVE \E ev \in Events : Requested(ev)
  <2> DEFINE rule == [id |-> nextId, exe |-> e]
             others == Retain(dRules, {r \in ToSet(dRules) : r.exe # e})
             ev == [type |-> "added", rule |-> rule]
  <2>1. rule \in Rule /\ rule.id = nextId
    BY <1>0 DEF Rule
  <2>2. others \in Seq(Rule) /\ ToSet(others) \subseteq ToSet(dRules)
    BY <1>0, RetainIs
  <2>3. /\ dRules' = Append(others, rule) /\ nextId' = nextId + 1 /\ Handle(ev)
        /\ replaced' = (replaced \/ others # dRules) /\ dPaused' = dPaused
    BY <1>1 DEF AddRule
  <2> HIDE DEF rule, others
  <2>4. dRules' \in Seq(Rule) /\ ToSet(dRules') = ToSet(others) \cup {rule}
    BY <2>1, <2>2, <2>3, AppendIs
  <2>5. ev \in Requests /\ ev \in Events /\ ev.type = "added" /\ ev.rule = rule
    BY <2>1 DEF Requests, Events
  <2> HIDE DEF ev
  <2>6. ~replaced' => others = dRules
    BY <2>3
  <2>7. /\ ev.type = "added" /\ ev.rule.id = nextId /\ nextId' = nextId + 1
        /\ ev.rule \in ToSet(dRules') /\ ToSet(dRules') \subseteq ToSet(dRules) \cup {ev.rule}
        /\ ~replaced' => ToSet(dRules) \subseteq ToSet(dRules')
        /\ dPaused' = dPaused
    BY <2>1, <2>2, <2>3, <2>4, <2>5, <2>6
  <2>8. replaced' \in BOOLEAN /\ (replaced => replaced')
    BY <1>0, <2>3
  <2>9. nextId' \in Nat \ {0} /\ nextId' >= nextId
    BY <1>0, <2>3
  <2>10. Requested(ev)
    BY <2>3, <2>4, <2>5, <2>7, <2>8, <2>9 DEF Requested, Handle
  <2>11. QED
    BY <2>5, <2>10
<1>2. ASSUME NEW r \in ToSet(dRules), RemoveRule(r) PROVE \E ev \in Events : Requested(ev)
  <2> DEFINE ev == [type |-> "removed", id |-> r.id]
  <2>1. /\ dRules' = WithoutRule(dRules, r.id) /\ Handle(ev)
        /\ UNCHANGED <<dPaused, nextId, replaced>>
    BY <1>2 DEF RemoveRule
  <2>2. dRules' \in Seq(Rule) /\ ToSet(dRules') = {x \in ToSet(dRules) : x.id # r.id}
    BY <1>0, <2>1, WithoutIs
  <2>3. r \in Rule
    BY <1>0 DEF ToSet
  <2>4. ev \in Requests /\ ev \in Events /\ ev.type = "removed" /\ ev.id = r.id
    BY <2>3 DEF Requests, Events, Rule
  <2> HIDE DEF ev
  <2>5. Requested(ev)
    BY <1>0, <2>1, <2>2, <2>4 DEF Requested, Handle
  <2>6. QED
    BY <2>4, <2>5
<1>3. ASSUME NEW p \in BOOLEAN, SetPaused(p) PROVE \E ev \in Events : Requested(ev)
  <2> DEFINE ev == [type |-> "paused", paused |-> p]
  <2>1. dPaused' = p /\ Handle(ev) /\ UNCHANGED <<dRules, nextId, replaced>>
    BY <1>3 DEF SetPaused
  <2>2. ev \in Requests /\ ev \in Events /\ ev.type = "paused" /\ ev.paused = p
    BY DEF Requests, Events
  <2> HIDE DEF ev
  <2>3. Requested(ev)
    BY <1>0, <2>1, <2>2 DEF Requested, Handle
  <2>4. QED
    BY <2>2, <2>3
<1>4. QED
  BY <1>1, <1>2, <1>3

\* The steps, in the forms the proofs below split them into.
LEMMA NextIs ==
  ASSUME Types, SessionNext
  PROVE  \/ \E k \in Keys, ev \in Events : \E conns, b : Polls(k, ev, conns) /\ PollStep(conns, ev, b)
         \/ \E ev \in Events : Requested(ev)
         \/ \E o \in outbox : PublishOne(o)
         \/ Subscribed \/ Forward
         \/ Connect \/ FetchStatus \/ FetchTop \/ FetchConns \/ FetchRules
         \/ Receive
         \/ Drop \/ DaemonRestarts
<1>1. ASSUME NEW k \in Keys,
             (\E n \in 0..MaxBytes : Updated(k, n) \/ \E e \in AppKeys : Opened(k, e, n)) \/ Closed(k)
      PROVE  \E ev \in Events : \E conns, b : Polls(k, ev, conns) /\ PollStep(conns, ev, b)
  <2>1. 0 \in 0..MaxBytes /\ NoExe \in AppKeys
    BY Bounds DEF AppKeys
  <2>2. PICK n \in 0..MaxBytes, e \in AppKeys : Updated(k, n) \/ Opened(k, e, n) \/ Closed(k)
    BY <1>1, <2>1
  <2>3. QED
    BY <2>2, PollIs
<1>2. ASSUME \/ \E e \in Executables : AddRule(e)
             \/ \E r \in ToSet(dRules) : RemoveRule(r)
             \/ \E p \in BOOLEAN : SetPaused(p)
      PROVE  \E ev \in Events : Requested(ev)
  BY <1>2, RequestIs
<1>3. QED
  BY <1>1, <1>2 DEF SessionNext, FetchStep

\* What a request announces is an event.
LEMMA RequestsAreEvents == Requests \subseteq Events
BY DEF Requests, Events

\* What a step leaves of the channel and the socket.
LEMMA QueueTypes ==
  ASSUME NEW s \in Seq(Events)
  PROVE  /\ \A ev \in Events : Append(s, ev) \in Seq(Events)
         /\ s # <<>> => Tail(s) \in Seq(Events) /\ Head(s) \in Events
OBVIOUS

\* A publication leaves a channel of events.
LEMMA PublishTypes ==
  ASSUME Types, NEW ev \in Events, Broadcast(ev)
  PROVE  chan' \in Seq(Events) /\ gap' \in BOOLEAN
<1>1. chan \in Seq(Events) /\ gap \in BOOLEAN /\ (Len(chan) = ChanCap => chan # <<>>)
  BY Capacities DEF Types
<1>2. CASE sub # "live"
  BY <1>1, <1>2 DEF Broadcast
<1>3. CASE sub = "live" /\ Len(chan) = ChanCap
  <2>1. Tail(chan) \in Seq(Events)
    BY <1>1, <1>3
  <2>2. Append(Tail(chan), ev) \in Seq(Events)
    BY <2>1
  <2>3. QED
    BY <1>1, <1>3, <2>2 DEF Broadcast
<1>4. CASE sub = "live" /\ Len(chan) # ChanCap
  BY <1>1, <1>4 DEF Broadcast
<1>5. QED
  BY <1>2, <1>3, <1>4

\* The first state is well-formed.
LEMMA TypesInit == SessionInit => Types
<1> SUFFICES ASSUME SessionInit PROVE Types
  OBVIOUS
<1>1. AreApps(<<>>)
  BY DEF AreApps
<1>2. snap = NoSnap /\ gui = Empty /\ dConns = <<>> /\ dRules = <<>> /\ outbox = {}
  BY DEF SessionInit
<1>3. /\ snap = [paused |-> snap.paused, top |-> snap.top, conns |-> snap.conns, rules |-> snap.rules]
      /\ IsConns(snap.conns) /\ AreApps(snap.top)
  BY <1>1, <1>2, NoConns DEF NoSnap
<1>4. Sound(gui)
  <2>1. /\ IsState(gui) /\ gui.rules = <<>> /\ gui.apps = <<>> /\ gui.conns = <<>> /\ gui.order = <<>>
    BY <1>2 DEF Empty, IsState
  <2>2. ToSet(<<>>) = {} /\ DOMAIN <<>> = {}
    BY DEF ToSet
  <2>3. FlagsFollow(gui)
    BY <2>1, <2>2 DEF FlagsFollow
  <2>4. Orders(gui.order, DOMAIN gui.conns)
    BY <2>1, <2>2 DEF Orders, IsInjective
  <2>5. IsFun(gui.conns)
    BY <2>1, NoConns DEF IsConns
  <2>6. QED
    BY <1>1, <2>1, <2>3, <2>4, <2>5 DEF Sound
<1>5. /\ dPaused \in BOOLEAN /\ dRules \in Seq(Rule) /\ nextId \in Nat \ {0}
      /\ changes \in Nat /\ outbox \subseteq Nat \X Requests
      /\ sub \in {"none", "sent", "live"} /\ chan \in Seq(Events) /\ wire \in Seq(Events)
      /\ crossed \in BOOLEAN /\ gap \in BOOLEAN /\ replaced \in BOOLEAN
  <2>1. /\ dRules = <<>> /\ nextId = 1 /\ changes = 0 /\ outbox = {}
        /\ sub = "none" /\ chan = <<>> /\ wire = <<>>
        /\ dPaused = FALSE /\ crossed = FALSE /\ gap = FALSE /\ replaced = FALSE
    BY DEF SessionInit
  <2>2. /\ dPaused \in BOOLEAN /\ crossed \in BOOLEAN /\ gap \in BOOLEAN /\ replaced \in BOOLEAN
    BY Zenon, <2>1
  <2>3. /\ dRules \in Seq(Rule) /\ nextId \in Nat \ {0} /\ changes \in Nat
        /\ outbox \subseteq Nat \X Requests
        /\ sub \in {"none", "sent", "live"}
    <3> HIDE <2>2
    <3>1. QED
      BY <2>1
  <2>4. QED
    BY <2>1, <2>2, <2>3
<1>6. IsConns(dConns)
  BY <1>2, NoConns
<1>7. QED
  BY <1>3, <1>4, <1>5, <1>6 DEF Types

\* Filling a field of the snapshot leaves a snapshot.
LEMMA SnapSet ==
  ASSUME Types, NEW p, NEW t, NEW c, NEW r,
         snap' = [snap EXCEPT !.paused = p] \/ snap' = [snap EXCEPT !.top = t]
         \/ snap' = [snap EXCEPT !.conns = c] \/ snap' = [snap EXCEPT !.rules = r],
         AreApps(t), IsConns(c)
  PROVE  /\ snap' = [paused |-> snap'.paused, top |-> snap'.top, conns |-> snap'.conns, rules |-> snap'.rules]
         /\ AreApps(snap'.top) /\ IsConns(snap'.conns)
BY DEF Types

\* The snapshot before anything is fetched.
LEMMA NoSnapIs ==
  /\ NoSnap = [paused |-> NoSnap.paused, top |-> NoSnap.top, conns |-> NoSnap.conns, rules |-> NoSnap.rules]
  /\ AreApps(NoSnap.top) /\ IsConns(NoSnap.conns)
<1>1. AreApps(<<>>)
  BY DEF AreApps
<1>2. QED
  BY <1>1, NoConns DEF NoSnap

\* The snapshot as it is applied.
LEMMA FetchedIs ==
  ASSUME Types, FetchRules
  PROVE  /\ Sound(gui') /\ gui'.rules = dRules /\ gui'.conns = snap.conns
         /\ gui'.paused = snap.paused /\ gui'.connected
<1> DEFINE s == [snap EXCEPT !.rules = dRules]
<1>1. PICK order \in SetToSeqs(DOMAIN snap.conns) : gui' = ApplySnapshot(gui, s, order)
  BY DEF FetchRules
<1>2. /\ s.rules = dRules /\ s.conns = snap.conns /\ s.paused = snap.paused /\ s.top = snap.top
  BY DEF Types
<1> HIDE DEF s
<1>3. /\ AreApps(s.top) /\ s.rules \in Seq(Rule) /\ IsFun(s.conns)
      /\ IsFiniteSet(DOMAIN s.conns) /\ DOMAIN s.conns \subseteq Keys
      /\ order \in SetToSeqs(DOMAIN s.conns)
  BY <1>2 DEF Types, IsConns
<1>4. QED
  BY <1>1, <1>2, <1>3, SnapshotIs

\* Every step keeps the types, the eviction order and the switches.
LEMMA TypesStep == Types /\ [SessionNext]_sessionVars => Types'
<1> SUFFICES ASSUME Types, [SessionNext]_sessionVars PROVE Types'
  OBVIOUS
<1>1. ASSUME NEW k \in Keys, NEW ev \in Events, NEW conns, NEW b, Polls(k, ev, conns), PollStep(conns, ev, b)
      PROVE  Types'
  <2>1. chan' \in Seq(Events) /\ gap' \in BOOLEAN
    BY <1>1, PublishTypes DEF PollStep
  <2>2. IsConns(dConns') /\ changes' \in Nat
    BY <1>1 DEF PollStep, Polls, Change, Types
  <2>3. UNCHANGED <<dPaused, dRules, nextId, outbox, sub, wire, snap, gui, crossed, replaced>>
    BY <1>1 DEF PollStep, client
  <2>4. QED
    BY <2>1, <2>2, <2>3 DEF Types
<1>2. ASSUME NEW ev \in Events, Requested(ev) PROVE Types'
  <2>1. changes' \in Nat /\ outbox' \subseteq Nat \X Requests
    BY <1>2 DEF Requested, Change, Types
  <2>2. crossed' \in BOOLEAN /\ gap' \in BOOLEAN
    BY <1>2 DEF Requested, Types
  <2>3. dPaused' \in BOOLEAN
    BY <1>2 DEF Requested, Types, Requests
  <2>4. UNCHANGED <<dConns, sub, chan, wire, snap, gui>>
    BY <1>2 DEF Requested, stream, client
  <2>5. dRules' \in Seq(Rule) /\ nextId' \in Nat \ {0} /\ replaced' \in BOOLEAN
    BY <1>2 DEF Requested
  <2>6. QED
    BY <2>1, <2>2, <2>3, <2>4, <2>5 DEF Types
<1>3. ASSUME NEW o \in outbox, PublishOne(o) PROVE Types'
  <2>1. o[2] \in Events
    BY RequestsAreEvents DEF Types
  <2>2. chan' \in Seq(Events) /\ gap' \in BOOLEAN
    BY <1>3, <2>1, PublishTypes DEF PublishOne
  <2>3. /\ UNCHANGED <<dPaused, dRules, dConns, nextId, changes, sub, wire, snap, gui, crossed, replaced>>
        /\ outbox' \subseteq outbox
    BY <1>3 DEF PublishOne, daemon, client, bounds
  <2>4. QED
    BY <2>2, <2>3 DEF Types
<1>4. CASE Subscribed
  BY <1>4 DEF Subscribed, Types, daemon, client, bounds, hist
<1>5. CASE Forward
  <2>1. wire' \in Seq(Events) /\ chan' \in Seq(Events)
    BY <1>5, QueueTypes DEF Forward, Types
  <2>2. QED
    BY <1>5, <2>1 DEF Forward, Types, daemon, client, bounds, hist
<1>6. CASE Connect
  <2>1. snap' = NoSnap /\ gap' \in BOOLEAN
    BY <1>6 DEF Connect
  <2>2. QED
    BY <1>6, <2>1, NoSnapIs DEF Connect, Types, daemon, bounds
<1>7. CASE FetchStatus \/ FetchTop \/ FetchConns
  <2>1. \/ snap' = [snap EXCEPT !.paused = dPaused] \/ snap' = [snap EXCEPT !.top = TopApps(dConns)]
        \/ snap' = [snap EXCEPT !.conns = dConns]
    BY <1>7 DEF FetchStatus, FetchTop, FetchConns, Fetch
  <2>2. AreApps(TopApps(dConns)) /\ IsConns(dConns)
    BY TopAppsAre DEF Types
  <2>3. /\ snap' = [paused |-> snap'.paused, top |-> snap'.top, conns |-> snap'.conns, rules |-> snap'.rules]
        /\ AreApps(snap'.top) /\ IsConns(snap'.conns)
    BY <2>1, <2>2, SnapSet
  <2>4. UNCHANGED <<daemon, outbox, stream, gui, bounds, hist>>
    BY <1>7 DEF FetchStatus, FetchTop, FetchConns, Fetch
  <2>5. QED
    BY <2>3, <2>4 DEF Types, daemon, stream, bounds, hist
<1>8. CASE FetchRules
  <2>1. Sound(gui')
    BY <1>8, FetchedIs
  <2>2. snap' = NoSnap /\ UNCHANGED <<daemon, outbox, stream, bounds, hist>>
    BY <1>8 DEF FetchRules
  <2>3. QED
    BY <2>1, <2>2, NoSnapIs DEF Types, daemon, stream, bounds, hist
<1>9. CASE Receive
  <2>1. wire # <<>> /\ wire' = Tail(wire) /\ gui' = ApplyEvent(gui, Head(wire))
    BY <1>9 DEF Receive
  <2>2. Tail(wire) \in Seq(Events) /\ Head(wire) \in Events
    BY <2>1, QueueTypes DEF Types
  <2>3. Sound(gui')
    BY <2>1, <2>2, EventIs DEF Types
  <2>4. UNCHANGED <<daemon, outbox, sub, chan, snap, bounds, crossed, gap, replaced>>
    BY <1>9 DEF Receive
  <2>5. QED
    BY <2>1, <2>2, <2>3, <2>4 DEF Types, daemon, bounds
<1>10. ASSUME Drop \/ DaemonRestarts PROVE Types'
  <2>1. /\ chan' = <<>> /\ wire' = <<>> /\ snap' = NoSnap /\ sub' = "none"
        /\ gui' = [gui EXCEPT !.connected = FALSE]
        /\ UNCHANGED <<dRules, nextId, changes, crossed, gap, replaced>>
        /\ outbox' \subseteq outbox
        /\ dPaused' \in {dPaused, FALSE} /\ dConns' \in {dConns, <<>>}
    BY <1>10 DEF Drop, DaemonRestarts, Disconnect, hist, daemon
  <2>2. Sound(gui')
    <3>1. /\ IsState(gui') /\ gui'.rules = gui.rules /\ gui'.apps = gui.apps
          /\ gui'.conns = gui.conns /\ gui'.order = gui.order
      BY <2>1 DEF Types, Sound, IsState
    <3>2. QED
      BY <3>1 DEF Types, Sound, FlagsFollow
  <2>3. IsConns(dConns') /\ dPaused' \in BOOLEAN
    BY <2>1, NoConns DEF Types
  <2>4. chan' \in Seq(Events) /\ wire' \in Seq(Events) /\ outbox' \subseteq Nat \X Requests
    BY <2>1 DEF Types
  <2>5. QED
    BY <2>1, <2>2, <2>3, <2>4, NoSnapIs DEF Types
<1>11. CASE UNCHANGED sessionVars
  BY <1>11 DEF Types, sessionVars, daemon, stream, client, bounds, hist
<1>12. QED
  BY <1>1, <1>2, <1>3, <1>4, <1>5, <1>6, <1>7, <1>8, <1>9, <1>10, <1>11, NextIs

\* Types hold throughout, for any number of sessions, restarts and lost events.
THEOREM TypesHold == SessionSpec => []Types
BY TypesInit, TypesStep, PTL DEF SessionSpec

\* Each application's switch shows the rules the GUI has, and blocked executables are
\* listed, in every session, also one that missed events (gui/src/state.rs:81-150, 235-270).
THEOREM SwitchesHonest == SessionSpec => []SwitchesFollowRules
<1>1. Types => SwitchesFollowRules
  BY DEF Types, Sound, SwitchesFollowRules
<1>2. QED
  BY <1>1, TypesHold, PTL

\* conn_order holds each connection once, whatever order the events come in and
\* whatever the cap evicts (gui/src/state.rs:178-233).
THEOREM EvictionOrder == SessionSpec => []EvictionOrderIsSound
<1>1. Types => EvictionOrderIsSound
  <2>1. Types => Orders(gui.order, DOMAIN gui.conns)
    BY DEF Types, Sound
  <2>2. QED
    BY <2>1, OrderHasAll DEF Orders, EvictionOrderIsSound, OrderFollows
<1>2. QED
  BY <1>1, TypesHold, PTL

-----------------------------------------------------------------------------
(* Streams of events *)

LEMMA EmptyQueue ==
  ASSUME NEW A, NEW G
  PROVE  Silent(<<>>, A) /\ LastIn(<<>>, A, G)
BY DEF Silent, LastIn

\* What a queue says of a subject, with one event more.
LEMMA QueueGrows ==
  ASSUME NEW S, NEW s \in Seq(S), NEW x \in S, NEW A, NEW G
  PROVE  /\ Silent(Append(s, x), A) <=> Silent(s, A) /\ x \notin A
         /\ x \in A /\ x \in G => LastIn(Append(s, x), A, G)
         /\ x \notin A /\ LastIn(s, A, G) => LastIn(Append(s, x), A, G)
<1> DEFINE r == Append(s, x)
<1>1. /\ Len(s) \in Nat /\ Len(r) = Len(s) + 1 /\ r[Len(s) + 1] = x
      /\ \A i \in 1..Len(s) : r[i] = s[i]
  OBVIOUS
<1>2. \A i \in 1..Len(s) + 1 : i \in 1..Len(s) \/ i = Len(s) + 1
  BY <1>1
<1>3. \A i \in 1..Len(s) : i \in 1..Len(s) + 1 /\ Len(s) + 1 \in i + 1..Len(s) + 1
  BY <1>1
<1>4. Len(s) + 1 \in 1..Len(s) + 1
  BY <1>1
<1> HIDE DEF r
<1>5. Silent(r, A) <=> Silent(s, A) /\ x \notin A
  BY <1>1, <1>2, <1>3, <1>4 DEF Silent
<1>6. ASSUME x \in A, x \in G PROVE LastIn(r, A, G)
  <2>1. ASSUME NEW i \in 1..Len(s) + 1, r[i] \in A PROVE r[i] \in G \/ \E j \in i + 1..Len(s) + 1 : r[j] \in A
    BY <1>1, <1>2, <1>3, <1>6
  <2>2. QED
    BY <1>1, <2>1 DEF LastIn
<1>7. ASSUME x \notin A, LastIn(s, A, G) PROVE LastIn(r, A, G)
  <2>1. ASSUME NEW i \in 1..Len(s) + 1, r[i] \in A PROVE r[i] \in G \/ \E j \in i + 1..Len(s) + 1 : r[j] \in A
    <3>1. i \in 1..Len(s) /\ s[i] \in A
      BY <1>1, <1>2, <1>7, <2>1
    <3>2. CASE s[i] \in G
      BY <1>1, <3>1, <3>2
    <3>3. ASSUME NEW j \in i + 1..Len(s), s[j] \in A PROVE r[j] \in A /\ j \in i + 1..Len(s) + 1
      BY <1>1, <3>1, <3>3
    <3>4. QED
      BY <1>7, <3>1, <3>2, <3>3 DEF LastIn
  <2>2. QED
    BY <1>1, <2>1 DEF LastIn
<1>8. QED
  BY <1>5, <1>6, <1>7 DEF r

\* What a queue says of a subject, with its first event taken.
LEMMA QueueShrinks ==
  ASSUME NEW S, NEW s \in Seq(S), s # <<>>, NEW A, NEW G
  PROVE  /\ LastIn(s, A, G) => LastIn(Tail(s), A, G)
         /\ Silent(Tail(s), A) /\ Head(s) \notin A => Silent(s, A)
         /\ Silent(Tail(s), A) /\ Head(s) \in A /\ LastIn(s, A, G) => Head(s) \in G
<1> DEFINE t == Tail(s)
<1>1. /\ Len(s) \in Nat \ {0} /\ Len(t) = Len(s) - 1 /\ Head(s) = s[1]
      /\ \A i \in 1..Len(s) - 1 : t[i] = s[i + 1]
  BY TailIs
<1> HIDE DEF t
<1>2. \A i \in 2..Len(s) : i - 1 \in 1..Len(s) - 1 /\ t[i - 1] = s[i]
  BY <1>1
<1>3. ASSUME LastIn(s, A, G) PROVE LastIn(t, A, G)
  <2>1. ASSUME NEW i \in 1..Len(s) - 1, t[i] \in A PROVE t[i] \in G \/ \E j \in i + 1..Len(s) - 1 : t[j] \in A
    <3>1. i + 1 \in 1..Len(s) /\ s[i + 1] = t[i]
      BY <1>1
    <3>2. ASSUME NEW j \in (i + 1) + 1..Len(s), s[j] \in A PROVE j - 1 \in i + 1..Len(s) - 1 /\ t[j - 1] \in A
      BY <1>1, <3>2
    <3>3. s[i + 1] \in G \/ \E j \in (i + 1) + 1..Len(s) : s[j] \in A
      BY <1>3, <2>1, <3>1 DEF LastIn
    <3>4. QED
      BY <3>1, <3>2, <3>3
  <2>2. QED
    BY <1>1, <2>1 DEF LastIn
<1>4. ASSUME Silent(t, A), s[1] \notin A PROVE Silent(s, A)
  <2>1. ASSUME NEW i \in 1..Len(s) PROVE s[i] \notin A
    BY <1>1, <1>2, <1>4 DEF Silent
  <2>2. QED
    BY <2>1 DEF Silent
<1>5. ASSUME Silent(t, A), s[1] \in A, LastIn(s, A, G) PROVE s[1] \in G
  <2>1. 1 \in 1..Len(s) /\ \A j \in 1 + 1..Len(s) : s[j] \notin A
    BY <1>1, <1>2, <1>5 DEF Silent
  <2>2. QED
    BY <1>5, <2>1 DEF LastIn
<1>6. QED
  BY <1>1, <1>3, <1>4, <1>5 DEF t

\* All that an event does to what the properties look at.
Applied(g, ev, u) ==
  /\ u.connected = g.connected
  /\ u.paused = IF ev.type = "paused" THEN ev.paused ELSE g.paused
  /\ ToSet(u.rules) = CASE ev.type = "added"   -> {r \in ToSet(g.rules) : r.id # ev.rule.id} \cup {ev.rule}
                        [] ev.type = "removed" -> {r \in ToSet(g.rules) : r.id # ev.id}
                        [] OTHER -> ToSet(g.rules)
  /\ ev.type \in {"opened", "updated"} =>
       /\ DOMAIN u.conns \subseteq DOMAIN g.conns \cup {ev.key}
       /\ \A j \in DOMAIN u.conns : u.conns[j] = IF j = ev.key THEN ev.conn ELSE g.conns[j]
  /\ ev.type = "closed" =>
       /\ DOMAIN u.conns = DOMAIN g.conns \ {ev.key}
       /\ \A j \in DOMAIN u.conns : u.conns[j] = g.conns[j]
  /\ ev.type \in {"added", "removed", "paused"} => u.conns = g.conns

\* Applying an event has the effect its type promises.
LEMMA AppliedIs ==
  ASSUME NEW g, Sound(g), NEW ev \in Events
  PROVE  Applied(g, ev, ApplyEvent(g, ev))
<1> DEFINE u == ApplyEvent(g, ev)
<1>1. CASE ev.type \in {"opened", "updated"}
  <2>1. ev.key \in Keys
    BY <1>1 DEF Events
  <2>2. PICK b \in BOOLEAN : u = Upsert(g, ev.key, ev.conn, b)
    BY <1>1 DEF ApplyEvent
  <2>3. /\ u.rules = g.rules /\ u.paused = g.paused /\ u.connected = g.connected
        /\ DOMAIN u.conns \subseteq DOMAIN g.conns \cup {ev.key}
        /\ \A j \in DOMAIN u.conns : u.conns[j] = Put(g.conns, ev.key, ev.conn)[j]
    BY <2>1, <2>2, UpsertIs
  <2>4. ASSUME NEW j \in DOMAIN g.conns \cup {ev.key}
        PROVE  Put(g.conns, ev.key, ev.conn)[j] = IF j = ev.key THEN ev.conn ELSE g.conns[j]
    BY DEF Put
  <2> HIDE DEF u
  <2>5. QED
    BY <1>1, <2>3, <2>4 DEF Applied, u
<1>2. CASE ev.type = "closed"
  <2>1. u = RemoveConn(g, ev.key)
    BY <1>2 DEF ApplyEvent
  <2>2. /\ u.rules = g.rules /\ u.paused = g.paused /\ u.connected = g.connected
        /\ DOMAIN u.conns = DOMAIN g.conns \ {ev.key}
        /\ \A j \in DOMAIN u.conns : u.conns[j] = g.conns[j]
    BY <2>1, RemoveConnIs
  <2> HIDE DEF u
  <2>3. QED
    BY <1>2, <2>2 DEF Applied, u
<1>3. CASE ev.type = "added"
  <2> DEFINE rest == WithoutRule(g.rules, ev.rule.id)
  <2>1. ev.rule \in Rule /\ g.rules \in Seq(Rule)
    BY <1>3 DEF Events, Sound
  <2>2. rest \in Seq(Rule) /\ ToSet(rest) = {r \in ToSet(g.rules) : r.id # ev.rule.id}
    BY <2>1, WithoutIs
  <2>3. u = WithRules(g, Append(rest, ev.rule))
    BY <1>3 DEF ApplyEvent
  <2> DEFINE rules == Append(rest, ev.rule)
  <2> HIDE DEF rest
  <2>4. rules \in Seq(Rule) /\ ToSet(rules) = ToSet(rest) \cup {ev.rule}
    BY <2>1, <2>2, AppendIs
  <2> HIDE DEF rules
  <2>50. u = WithRules(g, rules)
    BY <2>3 DEF rules, rest
  <2> HIDE DEF u
  <2>5. /\ u.rules = rules /\ u.conns = g.conns /\ u.paused = g.paused
        /\ u.connected = g.connected
    BY <2>4, <2>50, WithRulesIs
  <2>6. QED
    BY <1>3, <2>2, <2>4, <2>5 DEF Applied, u
<1>4. CASE ev.type = "removed"
  <2>1. /\ WithoutRule(g.rules, ev.id) \in Seq(Rule)
        /\ ToSet(WithoutRule(g.rules, ev.id)) = {r \in ToSet(g.rules) : r.id # ev.id}
    BY WithoutIs DEF Sound
  <2>2. u = WithRules(g, WithoutRule(g.rules, ev.id))
    BY <1>4 DEF ApplyEvent
  <2>3. /\ u.rules = WithoutRule(g.rules, ev.id) /\ u.conns = g.conns /\ u.paused = g.paused
        /\ u.connected = g.connected
    BY <2>1, <2>2, WithRulesIs
  <2> HIDE DEF u
  <2>4. QED
    BY <1>4, <2>1, <2>3 DEF Applied, u
<1>5. CASE ev.type = "paused"
  <2>1. u = [g EXCEPT !.paused = ev.paused]
    BY <1>5 DEF ApplyEvent
  <2> HIDE DEF u
  <2>2. /\ u.rules = g.rules /\ u.conns = g.conns /\ u.paused = ev.paused
        /\ u.connected = g.connected
    BY <2>1 DEF IsState, Sound
  <2>3. QED
    BY <1>5, <2>2 DEF Applied, u
<1>6. QED
  BY <1>1, <1>2, <1>3, <1>4, <1>5 DEF Events

-----------------------------------------------------------------------------
(* Sessions *)

LEMMA WiringStep == Types /\ Wiring /\ SessionNext => Wiring'
<1> SUFFICES ASSUME Types, Wiring, SessionNext PROVE Wiring'
  OBVIOUS
<1>1. ASSUME NEW k \in Keys, NEW ev \in Events, NEW conns, NEW b, PollStep(conns, ev, b)
      PROVE  Wiring'
  <2>1. UNCHANGED <<sub, wire, pc, gui, evicted>> /\ (sub # "live" => chan' = chan)
    BY <1>1 DEF PollStep, Broadcast, client
  <2>2. QED
    BY <2>1 DEF Wiring
<1>2. ASSUME NEW ev \in Events, Requested(ev) PROVE Wiring'
  BY <1>2 DEF Requested, Wiring, stream, client
<1>3. ASSUME NEW o \in outbox, PublishOne(o) PROVE Wiring'
  <2>1. UNCHANGED <<sub, wire, pc, gui, evicted>> /\ (sub # "live" => chan' = chan)
    BY <1>3 DEF PublishOne, Broadcast, client
  <2>2. QED
    BY <2>1 DEF Wiring
<1>4. CASE Subscribed
  BY <1>4 DEF Subscribed, Wiring, client, hist
<1>5. CASE Forward
  BY <1>5 DEF Forward, Wiring, client, hist
<1>6. CASE Connect
  BY <1>6 DEF Connect, Wiring, Fetching
<1>7. CASE FetchStatus \/ FetchTop \/ FetchConns
  BY <1>7 DEF FetchStatus, FetchTop, FetchConns, Fetch, Wiring, Fetching, stream, hist
<1>8. CASE FetchRules
  <2>1. gui'.connected
    BY <1>8, FetchedIs
  <2>2. QED
    BY <1>8, <2>1 DEF FetchRules, Wiring, Fetching, stream, hist
<1>9. CASE Receive
  <2>1. Head(wire) \in Events /\ gui' = ApplyEvent(gui, Head(wire)) /\ Sound(gui)
    BY <1>9, QueueTypes DEF Receive, Types
  <2>2. gui'.connected = gui.connected
    BY <2>1, AppliedIs DEF Applied
  <2>3. QED
    BY <1>9, <2>2 DEF Receive, Wiring, Fetching
<1>10. CASE Drop \/ DaemonRestarts
  BY <1>10 DEF Drop, DaemonRestarts, Disconnect, Wiring, Fetching
<1>11. QED
  BY <1>1, <1>2, <1>3, <1>4, <1>5, <1>6, <1>7, <1>8, <1>9, <1>10, NextIs

\* One change at a time is under way, as long as none has overtaken another.
LEMMA OneAtATimeStep == Types /\ Wiring /\ OneAtATime /\ SessionNext => OneAtATime'
<1> SUFFICES ASSUME Types, Wiring, OneAtATime, SessionNext PROVE OneAtATime'
  OBVIOUS
<1>1. ASSUME UNCHANGED <<dPaused, dRules, crossed>>, outbox' \subseteq outbox,
             pc' # "down" => pc # "down" /\ (gap => gap')
      PROVE  OneAtATime'
  <2>1. ASSUME ~crossed' PROVE /\ \A o, p \in outbox' : o = p
                               /\ \A o \in outbox' : Tells(o[2])'
    BY <1>1, <2>1 DEF OneAtATime, Tells
  <2>2. ASSUME pc' # "down", ~gap' PROVE ~crossed' \/ outbox' = {}
    BY <1>1, <2>2 DEF OneAtATime
  <2>3. QED
    BY <2>1, <2>2 DEF OneAtATime
<1>2. ASSUME NEW k \in Keys, NEW ev \in Events, NEW conns, NEW b, PollStep(conns, ev, b)
      PROVE  OneAtATime'
  BY <1>1, <1>2 DEF PollStep, Broadcast, client
<1>3. ASSUME NEW ev \in Events, Requested(ev) PROVE OneAtATime'
  <2>1. Tells(ev)'
    BY <1>3 DEF Requested, Tells
  <2>2. ASSUME ~crossed' PROVE outbox' = {<<changes', ev>>}
    BY <1>3, <2>2 DEF Requested
  <2>3. ASSUME ~gap' PROVE ~crossed'
    BY <1>3, <2>3 DEF Requested
  <2>4. ASSUME NEW o, o = <<changes', ev>> PROVE o[2] = ev
    BY <2>4
  <2>5. ASSUME ~crossed' PROVE /\ \A o, p \in outbox' : o = p
                               /\ \A o \in outbox' : Tells(o[2])'
    <3>1. \A o \in outbox' : o = <<changes', ev>>
      BY <2>2, <2>5
    <3>2. QED
      BY <2>1, <2>4, <3>1
  <2>6. QED
    BY <2>3, <2>5 DEF OneAtATime
<1>4. ASSUME NEW o \in outbox, PublishOne(o) PROVE OneAtATime'
  BY <1>1, <1>4 DEF PublishOne, Broadcast, client, daemon
<1>5. CASE Subscribed \/ Forward \/ Receive
  BY <1>1, <1>5 DEF Subscribed, Forward, Receive, daemon, client, hist
<1>6. CASE Connect
  <2>1. /\ UNCHANGED <<dPaused, dRules, crossed, outbox>> /\ gap' = (crossed /\ outbox # {})
    BY <1>6 DEF Connect, daemon
  <2>2. ASSUME ~crossed' PROVE /\ \A o, p \in outbox' : o = p
                               /\ \A o \in outbox' : Tells(o[2])'
    BY <2>1, <2>2 DEF OneAtATime, Tells
  <2>3. ~gap' => ~crossed' \/ outbox' = {}
    BY <2>1
  <2>4. QED
    BY <2>2, <2>3 DEF OneAtATime
<1>7. CASE FetchStatus \/ FetchTop \/ FetchConns \/ FetchRules
  BY <1>1, <1>7 DEF FetchStatus, FetchTop, FetchConns, FetchRules, Fetch, daemon, hist
<1>8. CASE Drop
  BY <1>1, <1>8 DEF Drop, Disconnect, daemon, hist
<1>9. CASE DaemonRestarts
  <2>1. outbox' = {}
    BY <1>9 DEF DaemonRestarts
  <2>2. QED
    BY <2>1 DEF OneAtATime
<1>10. QED
  BY <1>2, <1>3, <1>4, <1>5, <1>6, <1>7, <1>8, <1>9, NextIs

\* Publishing an event adds nothing to what is heard but the event.
LEMMA PublishHeard ==
  ASSUME Types, NEW ev \in Events, Broadcast(ev)
  PROVE  ToSet(chan') \subseteq ToSet(chan) \cup {ev}
<1>1. chan \in Seq(Events) /\ (Len(chan) = ChanCap => chan # <<>>)
  BY Capacities DEF Types
<1>2. CASE sub # "live"
  BY <1>2 DEF Broadcast
<1>3. CASE sub = "live" /\ Len(chan) = ChanCap
  <2> DEFINE t == Tail(chan)
  <2>1. t \in Seq(Events) /\ ToSet(t) \subseteq ToSet(chan)
    BY <1>1, <1>3, TailIs, TailSet
  <2>2. chan' = Append(t, ev)
    BY <1>3 DEF Broadcast
  <2> HIDE DEF t
  <2>3. QED
    BY <2>1, <2>2, AppendIs
<1>4. CASE sub = "live" /\ Len(chan) # ChanCap
  <2>1. chan' = Append(chan, ev)
    BY <1>4 DEF Broadcast
  <2>2. QED
    BY <1>1, <2>1, AppendIs
<1>5. QED
  BY <1>2, <1>3, <1>4

\* An id names one rule in the daemon, on the wires and in the GUI.
LEMMA NamingStep == Types /\ Naming /\ SessionNext => Naming'
<1> SUFFICES ASSUME Types, Naming, SessionNext PROVE Naming'
  OBVIOUS
<1>0. ToSet(<<>>) = {}
  BY DEF ToSet
\* Nothing new is heard or known.
<1>1. ASSUME nextId' = nextId, dRules' = dRules,
             \A ev \in Heard' : ev \in Heard \/ ev.type \notin {"added", "removed"},
             ToSet(gui'.rules) \subseteq Known
      PROVE  Naming'
  <2>1. Known' \subseteq Known
    <3>1. \A x \in Heard' : x.type = "added" => x \in Heard
      BY <1>1
    <3> HIDE DEF Heard
    <3>2. ToSet(dRules') \subseteq Known
      BY <1>1 DEF Known
    <3>3. ASSUME NEW r \in Known' PROVE r \in Known
      BY <1>1, <3>1, <3>2, <3>3 DEF Known
    <3>4. QED
      BY <3>3
  <2>2. ASSUME NEW ev \in Heard', ev.type = "removed"
        PROVE  ev.id < nextId' /\ \A r \in ToSet(dRules') : r.id # ev.id
    BY <1>1, <2>2 DEF Naming
  <2>3. \A r \in Known' : r \in Rule /\ r.id < nextId'
    BY <1>1, <2>1 DEF Naming
  <2>4. \A r, s \in Known' : r.id = s.id => r = s
    BY <2>1 DEF Naming
  <2>5. QED
    BY <2>2, <2>3, <2>4 DEF Naming
<1>2. ASSUME NEW k \in Keys, NEW ev \in Events, NEW conns, NEW b, Polls(k, ev, conns), PollStep(conns, ev, b)
      PROVE  Naming'
  <2>1. UNCHANGED <<nextId, dRules, outbox, wire, gui>>
    BY <1>2 DEF PollStep, client
  <2>2. ToSet(chan') \subseteq ToSet(chan) \cup {ev}
    BY <1>2, PublishHeard DEF PollStep
  <2>3. ev.type \notin {"added", "removed"}
    BY <1>2 DEF Polls, AboutConn
  <2>4. ToSet(gui'.rules) \subseteq Known
    BY <2>1 DEF Known
  <2>5. Heard' \subseteq Heard \cup {ev}
    BY <2>1, <2>2 DEF Heard
  <2>6. QED
    BY <1>1, <2>1, <2>3, <2>4, <2>5
<1>3. ASSUME NEW ev \in Events, Requested(ev) PROVE Naming'
  <2>1. UNCHANGED <<wire, chan, gui>> /\ outbox' = outbox \cup {<<changes', ev>>}
    BY <1>3 DEF Requested, stream, client
  <2>2. Heard' = Heard \cup {ev}
    <3>1. ASSUME NEW o, o = <<changes', ev>> PROVE o[2] = ev
      BY <3>1
    <3>2. PICK p : p = <<changes', ev>>
      OBVIOUS
    <3>3. outbox' = outbox \cup {p} /\ p[2] = ev
      BY <2>1, <3>1, <3>2
    <3>4. {o[2] : o \in outbox'} = {o[2] : o \in outbox} \cup {ev}
      BY <3>3
    <3>5. QED
      BY <2>1, <3>4 DEF Heard
  <2>3. nextId \in Nat /\ nextId' \in Nat /\ nextId' >= nextId /\ dRules \in Seq(Rule)
    BY <1>3 DEF Requested, Types
  <2>4. \A r \in Known : r \in Rule /\ r.id \in Nat /\ r.id < nextId /\ r.id < nextId'
    BY <2>3 DEF Naming, Rule
  <2>5. ToSet(dRules) \subseteq Known
    BY DEF Known
  <2>6. CASE ev.type = "added"
    <3>1. /\ ev.rule.id = nextId /\ nextId' = nextId + 1 /\ ev.rule \in Rule
          /\ ToSet(dRules') \subseteq ToSet(dRules) \cup {ev.rule}
      BY <1>3, <2>6 DEF Requested, Requests
    <3>2. Known' \subseteq Known \cup {ev.rule}
      BY <2>1, <2>2, <3>1 DEF Known
    <3>3. \A r \in Known' : r \in Rule /\ r.id < nextId'
      BY <2>3, <2>4, <3>1, <3>2
    <3>4. \A r, s \in Known' : r.id = s.id => r = s
      <4>1. \A r \in Known : r.id # ev.rule.id
        BY <2>3, <2>4, <3>1
      <4>2. \A r, s \in Known : r.id = s.id => r = s
        BY DEF Naming
      <4>3. QED
        BY <3>2, <4>1, <4>2
    <3>5. ASSUME NEW x \in Heard', x.type = "removed"
          PROVE  x.id < nextId' /\ \A r \in ToSet(dRules') : r.id # x.id
      <4>1. x \in Heard
        BY <2>2, <2>6, <3>5
      <4>2. x.id < nextId /\ \A r \in ToSet(dRules) : r.id # x.id
        BY <3>5, <4>1 DEF Naming
      <4>3. x.id \in Nat
        <5>1. x \in Events
          BY <4>1, RequestsAreEvents DEF Heard, Types, ToSet
        <5>2. QED
          BY <3>5, <5>1 DEF Events
      <4>4. QED
        BY <2>3, <3>1, <4>2, <4>3
    <3>6. QED
      BY <3>3, <3>4, <3>5 DEF Naming
  <2>7. CASE ev.type # "added"
    <3>1. ToSet(dRules') \subseteq ToSet(dRules)
      BY <1>3, <2>7 DEF Requested
    <3>2. Known' \subseteq Known
      BY <2>1, <2>2, <2>7, <3>1 DEF Known
    <3>3. \A r \in Known' : r \in Rule /\ r.id < nextId'
      BY <2>4, <3>2
    <3>4. \A r, s \in Known' : r.id = s.id => r = s
      BY <3>2 DEF Naming
    <3>5. ASSUME NEW x \in Heard', x.type = "removed"
          PROVE  x.id < nextId' /\ \A r \in ToSet(dRules') : r.id # x.id
      <4>1. CASE x \in Heard
        <5>1. x.id < nextId /\ \A r \in ToSet(dRules) : r.id # x.id
          BY <3>5, <4>1 DEF Naming
        <5>2. x.id \in Nat
          <6>1. x \in Events
            BY <4>1, RequestsAreEvents DEF Heard, Types, ToSet
          <6>2. QED
            BY <3>5, <6>1 DEF Events
        <5>3. QED
          BY <2>3, <3>1, <5>1, <5>2
      <4>2. CASE x = ev
        <5>1. PICK r \in ToSet(dRules) : r.id = ev.id
          BY <1>3, <3>5, <4>2 DEF Requested
        <5>2. ToSet(dRules') = {s \in ToSet(dRules) : s.id # ev.id}
          BY <1>3, <3>5, <4>2 DEF Requested
        <5>3. QED
          BY <2>4, <2>5, <4>2, <5>1, <5>2
      <4>3. QED
        BY <2>2, <4>1, <4>2
    <3>6. QED
      BY <3>3, <3>4, <3>5 DEF Naming
  <2>8. QED
    BY <2>6, <2>7
<1>4. ASSUME NEW o \in outbox, PublishOne(o) PROVE Naming'
  <2>1. o[2] \in Events
    BY RequestsAreEvents DEF Types
  <2>2. ToSet(chan') \subseteq ToSet(chan) \cup {o[2]}
    BY <1>4, <2>1, PublishHeard DEF PublishOne
  <2>3. UNCHANGED <<nextId, dRules, wire, gui>> /\ outbox' \subseteq outbox
    BY <1>4 DEF PublishOne, daemon, client
  <2>4. Heard' \subseteq Heard
    BY <2>2, <2>3 DEF Heard
  <2>5. ToSet(gui'.rules) \subseteq Known
    BY <2>3 DEF Known
  <2>6. QED
    BY <1>1, <2>3, <2>4, <2>5
<1>5. CASE Subscribed \/ Connect \/ FetchStatus \/ FetchTop \/ FetchConns
  <2>1. UNCHANGED <<nextId, dRules, outbox, chan, wire, gui>>
    BY <1>5 DEF Subscribed, Connect, FetchStatus, FetchTop, FetchConns, Fetch, daemon, client, stream
  <2>2. Heard' = Heard
    BY <2>1 DEF Heard
  <2>3. ToSet(gui'.rules) \subseteq Known
    BY <2>1 DEF Known
  <2>4. QED
    BY <1>1, <2>1, <2>2, <2>3
<1>6. CASE Forward
  <2>1. /\ chan # <<>> /\ chan \in Seq(Events) /\ wire \in Seq(Events)
        /\ wire' = Append(wire, Head(chan)) /\ chan' = Tail(chan)
        /\ UNCHANGED <<nextId, dRules, outbox, gui>>
    BY <1>6 DEF Forward, daemon, client, Types
  <2>2. ToSet(chan) = {Head(chan)} \cup ToSet(chan')
    BY <2>1, TailSet
  <2>3. ToSet(wire') = ToSet(wire) \cup {Head(chan)}
    BY <2>1, TailIs, AppendIs
  <2>4. Heard' = Heard
    BY <2>1, <2>2, <2>3 DEF Heard
  <2>5. ToSet(gui'.rules) \subseteq Known
    BY <2>1 DEF Known
  <2>6. QED
    BY <1>1, <2>1, <2>4, <2>5
<1>7. CASE FetchRules
  <2>1. gui'.rules = dRules /\ UNCHANGED <<nextId, dRules, outbox, chan, wire>>
    BY <1>7, FetchedIs DEF FetchRules, daemon, stream
  <2>2. Heard' = Heard
    BY <2>1 DEF Heard
  <2>3. ToSet(gui'.rules) \subseteq Known
    BY <2>1 DEF Known
  <2>4. QED
    BY <1>1, <2>1, <2>2, <2>3
<1>8. CASE Receive
  <2>1. /\ wire # <<>> /\ wire \in Seq(Events) /\ wire' = Tail(wire)
        /\ gui' = ApplyEvent(gui, Head(wire)) /\ Sound(gui)
        /\ UNCHANGED <<nextId, dRules, outbox, chan>>
    BY <1>8 DEF Receive, daemon, Types
  <2> DEFINE ev == Head(wire)
  <2>2. ToSet(wire) = {ev} \cup ToSet(wire') /\ ev \in Events
    BY <2>1, TailSet, TailIs
  <2> HIDE DEF ev
  <2>3. Applied(gui, ev, gui')
    BY <2>1, <2>2, AppliedIs DEF ev
  <2>4. Heard' \subseteq Heard /\ ev \in Heard
    BY <2>1, <2>2 DEF Heard
  <2>5. ToSet(gui'.rules) \subseteq ToSet(gui.rules) \cup (IF ev.type = "added" THEN {ev.rule} ELSE {})
    BY <2>3 DEF Applied
  <2>6. ToSet(gui'.rules) \subseteq Known
    BY <2>4, <2>5 DEF Known
  <2>7. QED
    BY <1>1, <2>1, <2>4, <2>6
<1>9. CASE Drop \/ DaemonRestarts
  <2>1. /\ UNCHANGED <<nextId, dRules>> /\ outbox' \subseteq outbox /\ chan' = <<>> /\ wire' = <<>>
        /\ gui' = [gui EXCEPT !.connected = FALSE]
    BY <1>9 DEF Drop, DaemonRestarts, Disconnect, daemon
  <2>2. gui'.rules = gui.rules
    BY <2>1 DEF Types, Sound, IsState
  <2>3. Heard' \subseteq Heard
    BY <1>0, <2>1 DEF Heard
  <2>4. ToSet(gui'.rules) \subseteq Known
    BY <2>2 DEF Known
  <2>5. QED
    BY <1>1, <2>1, <2>3, <2>4
<1>10. QED
  BY <1>2, <1>3, <1>4, <1>5, <1>6, <1>7, <1>8, <1>9, NextIs

Sessions == Wiring /\ OneAtATime /\ Naming

\* What is known of wires, changes under way and ids of rules holds throughout.
THEOREM SessionsHold == SessionSpec => []Sessions
<1>1. SessionInit => Sessions
  <2> SUFFICES ASSUME SessionInit PROVE Sessions
    OBVIOUS
  <2>1. /\ pc = "down" /\ sub = "none" /\ chan = <<>> /\ wire = <<>> /\ outbox = {}
        /\ dRules = <<>> /\ gui = Empty
    BY DEF SessionInit
  <2>2. ToSet(<<>>) = {} /\ gui.rules = <<>>
    BY <2>1 DEF ToSet, Empty
  <2>3. Heard = {} /\ Known = {}
    BY <2>1, <2>2 DEF Heard, Known
  <2>4. QED
    BY <2>1, <2>3 DEF Sessions, Wiring, Fetching, OneAtATime, Naming
<1>2. Types /\ Sessions /\ [SessionNext]_sessionVars => Sessions'
  <2>1. Types /\ Sessions /\ SessionNext => Sessions'
    BY WiringStep, OneAtATimeStep, NamingStep DEF Sessions
  <2>2. Sessions /\ UNCHANGED sessionVars => Sessions'
    BY DEF Sessions, Wiring, OneAtATime, Tells, Naming, Known, Heard, sessionVars, daemon, stream, client, hist
  <2>3. QED
    BY <2>1, <2>2
<1>3. QED
  BY <1>1, <1>2, TypesHold, PTL DEF SessionSpec

-----------------------------------------------------------------------------
(* Views *)

\* An event that a faithful session's daemon publishes is on its way, unless nothing
\* has been fetched yet.
LEMMA Published ==
  ASSUME Types, Sessions, NEW ev \in Events, Broadcast(ev), UNCHANGED <<sub, wire, pc>>, Faithful'
  PROVE  /\ Faithful /\ Coming \in Seq(Events)
         /\ \/ Coming' = Append(Coming, ev) /\ ToSet(chan') = ToSet(chan) \cup {ev}
            \/ pc = "status" /\ Coming = <<>> /\ Coming' = <<>>
<1>1. /\ chan \in Seq(Events) /\ wire \in Seq(Events) /\ Coming \in Seq(Events)
      /\ sub \in {"sent", "live"} /\ Faithful
  BY OneQueue DEF Types, Sessions, Wiring, Coming, Faithful, Broadcast
<1>2. CASE sub = "live"
  <2>1. chan' = Append(chan, ev)
    BY <1>2 DEF Broadcast, Faithful
  <2>2. Coming' = Append(Coming, ev)
    BY <1>1, <2>1, OneQueue DEF Coming
  <2>3. QED
    BY <1>1, <2>1, <2>2, AppendIs
<1>3. CASE sub = "sent"
  <2>1. pc = "status" /\ chan' = chan /\ chan = <<>> /\ wire = <<>>
    BY <1>3 DEF Broadcast, Faithful, Sessions, Wiring
  <2>2. QED
    BY <1>1, <2>1, OneQueue DEF Coming
<1>4. QED
  BY <1>1, <1>2, <1>3

\* Writing to the socket does not change what is on its way.
LEMMA Forwarded ==
  ASSUME Types, Forward
  PROVE  Coming' = Coming
BY OneQueue DEF Forward, Types, Coming

\* Reading takes the first event on its way and applies it.
LEMMA Received ==
  ASSUME Types, Receive
  PROVE  /\ Coming \in Seq(Events) /\ Coming # <<>> /\ Coming' = Tail(Coming)
         /\ Head(Coming) = Head(wire) /\ Head(Coming) \in Events
         /\ ToSet(wire) = {Head(Coming)} \cup ToSet(wire')
         /\ Applied(gui, Head(Coming), gui')
<1>1. /\ wire # <<>> /\ wire' = Tail(wire) /\ chan' = chan /\ gui' = ApplyEvent(gui, Head(wire))
      /\ wire \in Seq(Events) /\ chan \in Seq(Events) /\ Sound(gui)
  BY DEF Receive, Types
<1>2. /\ Coming \in Seq(Events) /\ Coming # <<>> /\ Coming' = Tail(Coming) /\ Head(Coming) = Head(wire)
  BY <1>1, OneQueue DEF Coming
<1>3. Head(wire) \in Events /\ ToSet(wire) = {Head(wire)} \cup ToSet(wire')
  BY <1>1, TailIs, TailSet
<1>4. Applied(gui, Head(wire), gui')
  BY <1>1, <1>3, AppliedIs
<1>5. QED
  BY <1>2, <1>3, <1>4

\* A new session begins with nothing on its way.
LEMMA Connected ==
  ASSUME Types, Sessions, Connect
  PROVE  Coming' = <<>>
BY OneQueue DEF Connect, Types, Sessions, Wiring, Coming

\* The one event that waits to be published says what the daemon has.
LEMMA OneTells ==
  ASSUME Sessions, Faithful, NEW o \in outbox
  PROVE  outbox = {o} /\ Tells(o[2])
BY DEF Sessions, OneAtATime, Faithful

\* The switch of the daemon and the view of it.
LEMMA PauseViewStep == Types /\ Sessions /\ PauseView /\ SessionNext => PauseView'
<1> SUFFICES ASSUME Types, Sessions, PauseView, SessionNext,
                    Faithful', \A o \in outbox' : o[2].type # "paused"
             PROVE  /\ LastIn(Coming', AboutPause, PauseTold')
                    /\ Silent(Coming', AboutPause) =>
                         /\ pc' \in {"top", "conns", "rules"} => snap'.paused = dPaused'
                         /\ pc' = "stream" => gui'.paused = dPaused'
  BY DEF PauseView, AboutPause
<1> DEFINE Goal == /\ LastIn(Coming', AboutPause, PauseTold')
                   /\ Silent(Coming', AboutPause) =>
                         /\ pc' \in {"top", "conns", "rules"} => snap'.paused = dPaused'
                         /\ pc' = "stream" => gui'.paused = dPaused'
<1>1. ASSUME dPaused' = dPaused PROVE PauseTold' = PauseTold
  BY <1>1 DEF PauseTold
<1>2. Faithful /\ (\A o \in outbox : o[2].type # "paused") =>
        /\ LastIn(Coming, AboutPause, PauseTold)
        /\ Silent(Coming, AboutPause) =>
             /\ pc \in {"top", "conns", "rules"} => snap.paused = dPaused
             /\ pc = "stream" => gui.paused = dPaused
  BY DEF PauseView
<1>3. ASSUME UNCHANGED <<dPaused, pc, snap, gui>>, Coming' = Coming, Faithful,
             \A o \in outbox : o[2].type # "paused"
      PROVE  Goal
  BY <1>1, <1>2, <1>3
<1>4. ASSUME UNCHANGED <<dPaused, pc, snap, gui>>, Faithful, Coming \in Seq(Events),
             \A o \in outbox : o[2].type # "paused",
             NEW ev \in Events \ AboutPause,
             \/ Coming' = Append(Coming, ev)
             \/ pc = "status" /\ Coming' = <<>>
      PROVE  Goal
  <2>1. CASE Coming' = Append(Coming, ev)
    <3>1. LastIn(Coming', AboutPause, PauseTold) /\ (Silent(Coming', AboutPause) => Silent(Coming, AboutPause))
      BY <1>2, <1>4, <2>1, QueueGrows
    <3>2. QED
      BY <1>1, <1>2, <1>4, <3>1
  <2>2. CASE pc = "status" /\ Coming' = <<>>
    BY <1>4, <2>2, EmptyQueue
  <2>3. QED
    BY <1>4, <2>1, <2>2
<1>5. ASSUME NEW k \in Keys, NEW ev \in Events, NEW conns, NEW b, Polls(k, ev, conns), PollStep(conns, ev, b)
      PROVE  Goal
  <2>1. /\ UNCHANGED <<dPaused, pc, snap, gui, outbox, sub, wire>> /\ Broadcast(ev)
    BY <1>5 DEF PollStep, client
  <2>2. ev \notin AboutPause
    BY <1>5 DEF Polls, AboutConn, AboutPause
  <2>3. QED
    BY <1>4, <2>1, <2>2, Published
<1>6. ASSUME NEW ev \in Events, Requested(ev) PROVE Goal
  <2>1. UNCHANGED <<pc, snap, gui, wire, chan>> /\ outbox' = outbox \cup {<<changes', ev>>}
    BY <1>6 DEF Requested, stream, client
  <2>2. Faithful
    BY <1>6, <2>1 DEF Requested, Faithful
  <2>3. ev.type # "paused"
    <3>1. <<changes', ev>> \in outbox' /\ <<changes', ev>>[2] = ev
      BY <2>1
    <3>2. QED
      BY <3>1
  <2>4. dPaused' = dPaused
    BY <1>6, <2>3 DEF Requested
  <2>5. Coming' = Coming
    BY <2>1 DEF Coming
  <2>6. QED
    BY <1>3, <2>1, <2>2, <2>4, <2>5
<1>7. ASSUME NEW o \in outbox, PublishOne(o) PROVE Goal
  <2>1. UNCHANGED <<dPaused, pc, snap, gui, sub, wire>> /\ Broadcast(o[2]) /\ o[2] \in Events
    BY <1>7, RequestsAreEvents DEF PublishOne, daemon, client, Types
  <2>2. /\ Faithful /\ Coming \in Seq(Events)
        /\ \/ Coming' = Append(Coming, o[2])
           \/ pc = "status" /\ Coming' = <<>>
    BY <2>1, Published
  <2>3. outbox = {o} /\ Tells(o[2])
    BY <2>2, OneTells
  <2>4. CASE o[2].type # "paused"
    <3>1. o[2] \in Events \ AboutPause
      BY <2>1, <2>4 DEF AboutPause
    <3>2. \A p \in outbox : p[2].type # "paused"
      BY <2>3, <2>4
    <3>3. QED
      BY <1>4, <2>1, <2>2, <3>1, <3>2
  <2>5. CASE o[2].type = "paused"
    <3>1. o[2] \in AboutPause /\ o[2] \in PauseTold
      BY <2>1, <2>3, <2>5 DEF AboutPause, PauseTold, Tells
    <3>2. CASE Coming' = Append(Coming, o[2])
      <4>1. LastIn(Coming', AboutPause, PauseTold) /\ ~Silent(Coming', AboutPause)
        BY <2>1, <2>2, <3>1, <3>2, QueueGrows
      <4>2. QED
        BY <1>1, <2>1, <4>1
    <3>3. CASE pc = "status" /\ Coming' = <<>>
      BY <2>1, <3>3, EmptyQueue
    <3>4. QED
      BY <2>2, <3>2, <3>3
  <2>6. QED
    BY <2>4, <2>5
<1>8. CASE Subscribed
  BY <1>3, <1>8 DEF Subscribed, daemon, client, bounds, hist, Coming, Faithful
<1>9. CASE Forward
  BY <1>3, <1>9, Forwarded DEF Forward, daemon, client, bounds, hist, Faithful
<1>10. CASE Connect
  <2>1. Coming' = <<>> /\ pc' = "status"
    BY <1>10, Connected DEF Connect
  <2>2. QED
    BY <2>1, EmptyQueue
<1>11. CASE FetchStatus \/ FetchTop \/ FetchConns \/ FetchRules
  <2>1. UNCHANGED <<dPaused, outbox, Coming, gap>> /\ pc # "down"
    BY <1>11 DEF FetchStatus, FetchTop, FetchConns, FetchRules, Fetch, daemon, stream, hist, Coming
  <2>2. Faithful /\ PauseTold' = PauseTold
    BY <1>1, <2>1 DEF Faithful
  <2>3. CASE FetchStatus
    <3>1. snap'.paused = dPaused /\ pc' = "top"
      BY <2>3 DEF FetchStatus, Fetch, Types
    <3>2. QED
      BY <1>2, <2>1, <2>2, <3>1
  <2>4. CASE FetchTop \/ FetchConns
    <3>1. snap'.paused = snap.paused /\ pc \in {"top", "conns"} /\ pc' \in {"conns", "rules"}
      BY <2>4 DEF FetchTop, FetchConns, Fetch, Types
    <3>2. QED
      BY <1>2, <2>1, <2>2, <3>1
  <2>5. CASE FetchRules
    <3>1. gui'.paused = snap.paused /\ pc = "rules" /\ pc' = "stream"
      BY <2>5, FetchedIs DEF FetchRules
    <3>2. QED
      BY <1>2, <2>1, <2>2, <3>1
  <2>6. QED
    BY <1>11, <2>3, <2>4, <2>5
<1>12. CASE Receive
  <2> DEFINE ev == Head(Coming)
  <2>1. UNCHANGED <<dPaused, outbox, gap, pc>> /\ pc = "stream"
    BY <1>12 DEF Receive, daemon
  <2>2. /\ Coming \in Seq(Events) /\ Coming # <<>> /\ Coming' = Tail(Coming)
        /\ ev \in Events /\ Applied(gui, ev, gui')
    BY <1>12, Received
  <2>3. Faithful /\ PauseTold' = PauseTold
    BY <1>1, <2>1 DEF Faithful
  <2>4. /\ LastIn(Coming, AboutPause, PauseTold)
        /\ Silent(Coming, AboutPause) => gui.paused = dPaused
    BY <1>2, <2>1, <2>3
  <2>5. LastIn(Coming', AboutPause, PauseTold')
    BY <2>2, <2>3, <2>4, QueueShrinks
  <2>6. ASSUME Silent(Coming', AboutPause) PROVE gui'.paused = dPaused
    <3>1. CASE ev \in AboutPause
      <4>1. ev \in PauseTold
        BY <2>2, <2>4, <2>6, <3>1, QueueShrinks
      <4>2. QED
        BY <2>2, <4>1 DEF PauseTold, Applied
    <3>2. CASE ev \notin AboutPause
      <4>1. gui.paused = dPaused
        BY <2>2, <2>4, <2>6, <3>2, QueueShrinks
      <4>2. ev.type # "paused"
        BY <2>2, <3>2 DEF AboutPause
      <4>3. QED
        BY <2>2, <4>1, <4>2 DEF Applied
    <3>3. QED
      BY <3>1, <3>2
  <2>7. QED
    BY <2>1, <2>5, <2>6
<1>13. CASE Drop \/ DaemonRestarts
  BY <1>13 DEF Drop, DaemonRestarts, Disconnect, Faithful
<1>14. QED
  BY <1>5, <1>6, <1>7, <1>8, <1>9, <1>10, <1>11, <1>12, <1>13, NextIs

\* A connection of the daemon and the view of it.
LEMMA ConnViewStep == Types /\ Sessions /\ ConnView /\ SessionNext => ConnView'
<1> SUFFICES ASSUME Types, Sessions, ConnView, SessionNext, Faithful', NEW k \in Keys
             PROVE  /\ LastIn(Coming', AboutConn(k), ConnTold(k)')
                    /\ Silent(Coming', AboutConn(k)) =>
                         /\ pc' = "rules" => Shows(snap.conns, k)'
                         /\ pc' = "stream" => Shows(gui.conns, k)'
  BY DEF ConnView, AboutConn
<1> DEFINE Goal == /\ LastIn(Coming', AboutConn(k), ConnTold(k)')
                   /\ Silent(Coming', AboutConn(k)) =>
                         /\ pc' = "rules" => Shows(snap.conns, k)'
                         /\ pc' = "stream" => Shows(gui.conns, k)'
           Keeps == /\ k \in DOMAIN dConns' <=> k \in DOMAIN dConns
                    /\ k \in DOMAIN dConns' => dConns'[k] = dConns[k]
<1>1. ASSUME Keeps PROVE ConnTold(k)' = ConnTold(k)
  BY <1>1 DEF ConnTold
<1>2. Faithful =>
        /\ LastIn(Coming, AboutConn(k), ConnTold(k))
        /\ Silent(Coming, AboutConn(k)) =>
             /\ pc = "rules" => Shows(snap.conns, k)
             /\ pc = "stream" => Shows(gui.conns, k)
  BY DEF ConnView
<1>3. ASSUME UNCHANGED <<pc, snap, gui, evicted>>, Keeps, Faithful,
             Silent(Coming', AboutConn(k)) => Silent(Coming, AboutConn(k)),
             LastIn(Coming, AboutConn(k), ConnTold(k)) => LastIn(Coming', AboutConn(k), ConnTold(k))
      PROVE  Goal
  <2>1. /\ Shows(snap.conns, k) => Shows(snap.conns, k)'
        /\ Shows(gui.conns, k) => Shows(gui.conns, k)'
    BY <1>3 DEF Shows
  <2>2. QED
    BY <1>1, <1>2, <1>3, <2>1
<1>4. ASSUME UNCHANGED <<pc, snap, gui, evicted>>, Keeps, Faithful, Coming \in Seq(Events),
             NEW ev \in Events \ AboutConn(k),
             \/ Coming' = Append(Coming, ev)
             \/ pc = "status" /\ Coming = <<>> /\ Coming' = <<>>
      PROVE  Goal
  <2>1. /\ Silent(Coming', AboutConn(k)) => Silent(Coming, AboutConn(k))
        /\ LastIn(Coming, AboutConn(k), ConnTold(k)) => LastIn(Coming', AboutConn(k), ConnTold(k))
    <3>1. ev \in Events /\ ev \notin AboutConn(k)
      OBVIOUS
    <3>2. CASE Coming' = Append(Coming, ev)
      BY <1>4, <3>1, <3>2, QueueGrows
    <3>3. CASE Coming = <<>> /\ Coming' = <<>>
      BY <3>3
    <3>4. QED
      BY <1>4, <3>2, <3>3
  <2>2. QED
    BY <1>3, <1>4, <2>1
<1>5. ASSUME NEW j \in Keys, NEW ev \in Events, NEW conns, NEW b, Polls(j, ev, conns), PollStep(conns, ev, b)
      PROVE  Goal
  <2>1. UNCHANGED <<pc, snap, gui, sub, wire, evicted>> /\ Broadcast(ev) /\ dConns' = conns
    BY <1>5 DEF PollStep, client
  <2>2. /\ Faithful /\ Coming \in Seq(Events)
        /\ \/ Coming' = Append(Coming, ev)
           \/ pc = "status" /\ Coming = <<>> /\ Coming' = <<>>
    BY <2>1, Published
  <2>3. CASE j # k
    <3>1. ev \in Events \ AboutConn(k)
      BY <1>5, <2>3 DEF Polls, AboutConn
    <3>2. Keeps
      BY <1>5, <2>1, <2>3 DEF Polls
    <3>3. QED
      BY <1>4, <2>1, <2>2, <3>1, <3>2
  <2>4. CASE j = k
    <3>1. ev \in AboutConn(k) /\ ev \in ConnTold(k)'
      BY <1>5, <2>1, <2>4 DEF Polls, AboutConn, ConnTold
    <3>2. CASE Coming' = Append(Coming, ev)
      <4>1. LastIn(Coming', AboutConn(k), ConnTold(k)') /\ ~Silent(Coming', AboutConn(k))
        BY <2>2, <3>1, <3>2, QueueGrows
      <4>2. QED
        BY <4>1
    <3>3. CASE pc = "status" /\ Coming' = <<>>
      BY <2>1, <3>3, EmptyQueue
    <3>4. QED
      BY <2>2, <3>2, <3>3
  <2>5. QED
    BY <2>3, <2>4
<1>6. ASSUME NEW ev \in Events, Requested(ev) PROVE Goal
  <2>1. UNCHANGED <<pc, snap, gui, wire, chan, dConns, evicted>>
    BY <1>6 DEF Requested, stream, client
  <2>2. Faithful /\ Coming' = Coming
    BY <1>6, <2>1 DEF Requested, Faithful, Coming
  <2>3. QED
    BY <1>3, <2>1, <2>2
<1>7. ASSUME NEW o \in outbox, PublishOne(o) PROVE Goal
  <2>1. /\ UNCHANGED <<dConns, pc, snap, gui, sub, wire, evicted>> /\ Broadcast(o[2])
        /\ o[2] \in Requests /\ o[2] \in Events
    BY <1>7, RequestsAreEvents DEF PublishOne, daemon, client, Types
  <2>2. /\ Faithful /\ Coming \in Seq(Events)
        /\ \/ Coming' = Append(Coming, o[2])
           \/ pc = "status" /\ Coming = <<>> /\ Coming' = <<>>
    BY <2>1, Published
  <2>3. o[2] \in Events \ AboutConn(k)
    BY <2>1 DEF Requests, AboutConn
  <2>4. QED
    BY <1>4, <2>1, <2>2, <2>3
<1>8. CASE Subscribed
  BY <1>3, <1>8 DEF Subscribed, daemon, client, bounds, hist, Coming, Faithful
<1>9. CASE Forward
  BY <1>3, <1>9, Forwarded DEF Forward, daemon, client, bounds, hist, Faithful
<1>10. CASE Connect
  <2>1. Coming' = <<>> /\ pc' = "status"
    BY <1>10, Connected DEF Connect
  <2>2. QED
    BY <2>1, EmptyQueue
<1>11. CASE FetchStatus \/ FetchTop \/ FetchConns \/ FetchRules
  <2>1. UNCHANGED <<dConns, Coming, gap, evicted>> /\ pc \in Fetching
    BY <1>11 DEF FetchStatus, FetchTop, FetchConns, FetchRules, Fetch, daemon, stream, hist, Coming, Fetching
  <2>2. Faithful /\ ConnTold(k)' = ConnTold(k)
    BY <1>1, <2>1 DEF Faithful, Fetching
  <2>3. CASE FetchStatus \/ FetchTop
    <3>1. pc' \in {"top", "conns"}
      BY <2>3 DEF FetchStatus, FetchTop, Fetch
    <3>2. QED
      BY <1>2, <2>1, <2>2, <3>1
  <2>4. CASE FetchConns
    <3>1. snap'.conns = dConns /\ pc' = "rules"
      BY <2>4 DEF FetchConns, Fetch, Types
    <3>2. evicted' = {}
      BY <2>1 DEF Sessions, Wiring
    <3>3. Shows(snap.conns, k)'
      BY <2>1, <3>1, <3>2 DEF Shows
    <3>4. QED
      BY <1>2, <2>1, <2>2, <3>1, <3>3
  <2>5. CASE FetchRules
    <3>1. gui'.conns = snap.conns /\ pc = "rules" /\ pc' = "stream"
      BY <2>5, FetchedIs DEF FetchRules
    <3>2. Shows(snap.conns, k) => Shows(gui.conns, k)'
      BY <2>1, <3>1 DEF Shows
    <3>3. QED
      BY <1>2, <2>1, <2>2, <3>1, <3>2
  <2>6. QED
    BY <1>11, <2>3, <2>4, <2>5
<1>12. CASE Receive
  <2> DEFINE ev == Head(Coming)
             had  == DOMAIN gui.conns \cup (IF ev.type \in {"opened", "updated"} THEN {ev.key} ELSE {})
             shut == IF ev.type = "closed" THEN {ev.key} ELSE {}
  <2>1. /\ UNCHANGED <<dConns, gap, pc>> /\ pc = "stream"
        /\ evicted' = LET x == Head(wire)
                          h == DOMAIN gui.conns
                                  \cup (IF x.type \in {"opened", "updated"} THEN {x.key} ELSE {})
                          s == IF x.type = "closed" THEN {x.key} ELSE {}
                      IN  (evicted \cup h) \ (DOMAIN gui'.conns \cup s)
    BY <1>12 DEF Receive, daemon
  <2>2. /\ Coming \in Seq(Events) /\ Coming # <<>> /\ Coming' = Tail(Coming)
        /\ ev = Head(wire) /\ ev \in Events /\ Applied(gui, ev, gui')
    BY <1>12, Received
  <2>3. evicted' = (evicted \cup had) \ (DOMAIN gui'.conns \cup shut)
    BY <2>1, <2>2
  <2>4. Faithful /\ ConnTold(k)' = ConnTold(k)
    BY <1>1, <2>1 DEF Faithful
  <2>5. /\ LastIn(Coming, AboutConn(k), ConnTold(k))
        /\ Silent(Coming, AboutConn(k)) => Shows(gui.conns, k)
    BY <1>2, <2>1, <2>4
  <2>6. LastIn(Coming', AboutConn(k), ConnTold(k)')
    BY <2>2, <2>4, <2>5, QueueShrinks
  <2>7. ASSUME Silent(Coming', AboutConn(k)) PROVE Shows(gui.conns, k)'
    <3>1. CASE ev \in AboutConn(k)
      <4>1. ev \in ConnTold(k)
        BY <2>2, <2>5, <2>7, <3>1, QueueShrinks
      <4>2. CASE k \in DOMAIN dConns
        <5>1. ev.type \in {"opened", "updated"} /\ ev.key = k /\ ev.conn = dConns[k]
          BY <3>1, <4>1, <4>2 DEF AboutConn, ConnTold
        <5>2. /\ k \in had /\ shut = {}
              /\ k \in DOMAIN gui'.conns => gui'.conns[k] = dConns[k]
          BY <2>2, <5>1 DEF Applied
        <5> HIDE DEF had, shut, ev
        <5>3. QED
          BY <2>1, <2>3, <4>2, <5>2 DEF Shows
      <4>3. CASE k \notin DOMAIN dConns
        <5>1. ev.type = "closed" /\ ev.key = k
          BY <3>1, <4>1, <4>3 DEF AboutConn, ConnTold
        <5>2. k \notin DOMAIN gui'.conns
          BY <2>2, <5>1 DEF Applied
        <5>3. QED
          BY <2>1, <4>3, <5>2 DEF Shows
      <4>4. QED
        BY <4>2, <4>3
    <3>2. CASE ev \notin AboutConn(k)
      <4>1. Shows(gui.conns, k)
        BY <2>2, <2>5, <2>7, <3>2, QueueShrinks
      <4>2. ev.type \in {"opened", "updated", "closed"} => ev.key # k
        BY <2>2, <3>2 DEF AboutConn
      <4>3. /\ k \in had <=> k \in DOMAIN gui.conns
            /\ k \notin shut
            /\ k \in DOMAIN gui'.conns => k \in DOMAIN gui.conns /\ gui'.conns[k] = gui.conns[k]
        <5>1. ev.type \in {"opened", "updated", "closed", "added", "removed", "paused"}
          BY <2>2 DEF Events
        <5>2. QED
          BY <2>2, <4>2, <5>1 DEF Applied
      <4> HIDE DEF had, shut, ev
      <4>4. QED
        BY <2>1, <2>3, <4>1, <4>3 DEF Shows
    <3>3. QED
      BY <3>1, <3>2
  <2>8. QED
    BY <2>1, <2>6, <2>7
<1>13. CASE Drop \/ DaemonRestarts
  BY <1>13 DEF Drop, DaemonRestarts, Disconnect, Faithful
<1>14. QED
  BY <1>5, <1>6, <1>7, <1>8, <1>9, <1>10, <1>11, <1>12, <1>13, NextIs

\* A rule of the daemon and the view of it.
LEMMA RuleViewStep == Types /\ Sessions /\ RuleView /\ SessionNext => RuleView'
<1> SUFFICES ASSUME Types, Sessions, RuleView, SessionNext, pc' = "stream", ~gap', NEW r \in ToSet(dRules')
             PROVE  \/ r \in ToSet(gui'.rules)
                    \/ \E ev \in Heard' : ev.type = "added" /\ ev.rule = r
  BY DEF RuleView
<1> DEFINE Goal == \/ r \in ToSet(gui'.rules)
                   \/ \E ev \in Heard' : ev.type = "added" /\ ev.rule = r
<1>1. ASSUME pc = "stream", ~gap, r \in ToSet(dRules), gui' = gui, Heard \subseteq Heard'
      PROVE  Goal
  BY <1>1 DEF RuleView
<1>0. Faithful'
  BY DEF Faithful
<1>2. ASSUME NEW k \in Keys, NEW ev \in Events, NEW conns, NEW b, PollStep(conns, ev, b)
      PROVE  Goal
  <2>1. UNCHANGED <<dRules, pc, gui, sub, wire, outbox>> /\ Broadcast(ev)
    BY <1>2 DEF PollStep, client
  <2>2. Faithful /\ ToSet(chan') = ToSet(chan) \cup {ev}
    BY <1>0, <2>1, Published
  <2>3. Heard \subseteq Heard'
    BY <2>1, <2>2 DEF Heard
  <2>4. QED
    BY <1>1, <2>1, <2>2, <2>3 DEF Faithful
<1>3. ASSUME NEW ev \in Events, Requested(ev) PROVE Goal
  <2>1. UNCHANGED <<pc, gui, wire, chan>> /\ outbox' = outbox \cup {<<changes', ev>>}
    BY <1>3 DEF Requested, stream, client
  <2>2. ~gap
    BY <1>3 DEF Requested
  <2>3. Heard \subseteq Heard'
    BY <2>1 DEF Heard
  <2>4. ev \in Heard'
    <3>1. <<changes', ev>> \in outbox' /\ <<changes', ev>>[2] = ev
      BY <2>1
    <3>2. QED
      BY <3>1 DEF Heard
  <2>5. r \in ToSet(dRules) \/ (ev.type = "added" /\ ev.rule = r)
    BY <1>3 DEF Requested
  <2>6. QED
    BY <1>1, <2>1, <2>2, <2>3, <2>4, <2>5
<1>4. ASSUME NEW o \in outbox, PublishOne(o) PROVE Goal
  <2>1. /\ UNCHANGED <<dRules, pc, gui, sub, wire>> /\ Broadcast(o[2]) /\ o[2] \in Events
        /\ outbox' = outbox \ {o}
    BY <1>4, RequestsAreEvents DEF PublishOne, daemon, client, Types
  <2>2. Faithful /\ ToSet(chan') = ToSet(chan) \cup {o[2]}
    BY <1>0, <2>1, Published
  <2>3. Heard \subseteq Heard'
    BY <2>1, <2>2 DEF Heard
  <2>4. QED
    BY <1>1, <2>1, <2>2, <2>3 DEF Faithful
<1>5. CASE Subscribed
  <2>1. UNCHANGED <<dRules, pc, gui, chan, wire, outbox, gap>>
    BY <1>5 DEF Subscribed, daemon, client, hist
  <2>2. Heard = Heard'
    BY <2>1 DEF Heard
  <2>3. QED
    BY <1>1, <2>1, <2>2
<1>6. CASE Forward
  <2>1. /\ chan # <<>> /\ chan \in Seq(Events) /\ wire \in Seq(Events)
        /\ wire' = Append(wire, Head(chan)) /\ chan' = Tail(chan)
        /\ UNCHANGED <<dRules, outbox, gui, pc, gap>>
    BY <1>6 DEF Forward, daemon, client, hist, Types
  <2>2. ToSet(chan) = {Head(chan)} \cup ToSet(chan')
    BY <2>1, TailSet
  <2>3. ToSet(wire') = ToSet(wire) \cup {Head(chan)}
    BY <2>1, TailIs, AppendIs
  <2>4. Heard' = Heard
    BY <2>1, <2>2, <2>3 DEF Heard
  <2>5. QED
    BY <1>1, <2>1, <2>4
<1>7. CASE FetchRules
  <2>1. gui'.rules = dRules /\ dRules' = dRules
    BY <1>7, FetchedIs DEF FetchRules, daemon
  <2>2. QED
    BY <2>1
<1>8. CASE Receive
  <2> DEFINE ev == Head(Coming)
  <2>1. UNCHANGED <<dRules, outbox, chan, pc, gap>>
    BY <1>8 DEF Receive, daemon
  <2>2. /\ ToSet(wire) = {ev} \cup ToSet(wire') /\ Applied(gui, ev, gui') /\ ev \in Events
    BY <1>8, Received
  <2> HIDE DEF ev
  <2>3. Heard = {ev} \cup Heard' /\ ToSet(dRules) \subseteq Known /\ r \in ToSet(dRules)
    BY <2>1, <2>2 DEF Heard, Known
  <2>4. ASSUME r \in ToSet(gui.rules) PROVE r \in ToSet(gui'.rules)
    <3>1. CASE ev.type = "added"
      <4>1. ev.rule \in Known
        BY <2>3, <3>1 DEF Known
      <4>2. r.id = ev.rule.id => r = ev.rule
        BY <2>3, <4>1 DEF Sessions, Naming
      <4>3. QED
        BY <2>2, <2>4, <3>1, <4>2 DEF Applied
    <3>2. CASE ev.type = "removed"
      <4>1. r.id # ev.id
        BY <2>3, <3>2 DEF Sessions, Naming
      <4>2. QED
        BY <2>2, <2>4, <3>2, <4>1 DEF Applied
    <3>3. CASE ev.type \notin {"added", "removed"}
      BY <2>2, <2>4, <3>3 DEF Applied
    <3>4. QED
      BY <3>1, <3>2, <3>3
  <2>5. ASSUME ev.type = "added", ev.rule = r PROVE r \in ToSet(gui'.rules)
    BY <2>2, <2>5 DEF Applied
  <2>6. r \in ToSet(gui.rules) \/ \E x \in Heard : x.type = "added" /\ x.rule = r
    BY <2>1, <2>3 DEF RuleView
  <2>7. QED
    BY <2>3, <2>4, <2>5, <2>6
<1>9. CASE Connect \/ FetchStatus \/ FetchTop \/ FetchConns \/ Drop \/ DaemonRestarts
  BY <1>9 DEF Connect, FetchStatus, FetchTop, FetchConns, Fetch, Drop, DaemonRestarts, Disconnect
<1>10. QED
  BY <1>2, <1>3, <1>4, <1>5, <1>6, <1>7, <1>8, <1>9, NextIs

\* A rule the daemon no longer has and the view of it.
LEMMA GoneViewStep == Types /\ Sessions /\ GoneView /\ SessionNext => GoneView'
<1> DEFINE Gone(n) == /\ \A r \in ToSet(dRules) : r.id # n
                      /\ \A o \in outbox : ~(o[2].type = "removed" /\ o[2].id = n)
<1> SUFFICES ASSUME Types, Sessions, GoneView, SessionNext, Faithful', ~replaced', NEW n \in Nat, Gone(n)'
             PROVE  /\ LastIn(Coming', AboutRule(n), Removal(n))
                    /\ pc' = "stream" /\ Silent(Coming', AboutRule(n)) =>
                         \A r \in ToSet(gui'.rules) : r.id # n
  BY DEF GoneView, AboutRule, Removal
<1> DEFINE Goal == /\ LastIn(Coming', AboutRule(n), Removal(n))
                   /\ pc' = "stream" /\ Silent(Coming', AboutRule(n)) =>
                         \A r \in ToSet(gui'.rules) : r.id # n
<1>1. Faithful /\ ~replaced /\ Gone(n) =>
        /\ LastIn(Coming, AboutRule(n), Removal(n))
        /\ pc = "stream" /\ Silent(Coming, AboutRule(n)) => \A r \in ToSet(gui.rules) : r.id # n
  BY DEF GoneView
<1>2. ToSet(dRules') = ToSet(dRules) /\ outbox' = outbox => Gone(n)
  OBVIOUS
<1>3. ASSUME UNCHANGED <<pc, gui>>, Coming' = Coming, Faithful, ~replaced, Gone(n)
      PROVE  Goal
  BY <1>1, <1>3
<1>4. ASSUME UNCHANGED <<pc, gui>>, Faithful, ~replaced, Gone(n), Coming \in Seq(Events),
             NEW ev \in Events \ AboutRule(n),
             \/ Coming' = Append(Coming, ev)
             \/ pc = "status" /\ Coming = <<>> /\ Coming' = <<>>
      PROVE  Goal
  <2>1. CASE Coming' = Append(Coming, ev)
    <3>1. ev \in Events /\ ev \notin AboutRule(n)
      OBVIOUS
    <3>2. /\ LastIn(Coming, AboutRule(n), Removal(n)) => LastIn(Coming', AboutRule(n), Removal(n))
          /\ Silent(Coming', AboutRule(n)) => Silent(Coming, AboutRule(n))
      BY <1>4, <2>1, <3>1, QueueGrows
    <3>3. QED
      BY <1>1, <1>4, <3>2
  <2>2. CASE pc = "status" /\ Coming = <<>> /\ Coming' = <<>>
    BY <1>4, <2>2, EmptyQueue
  <2>3. QED
    BY <1>4, <2>1, <2>2
<1>5. ASSUME NEW k \in Keys, NEW ev \in Events, NEW conns, NEW b, Polls(k, ev, conns), PollStep(conns, ev, b)
      PROVE  Goal
  <2>1. UNCHANGED <<pc, gui, outbox, sub, wire, dRules, replaced>> /\ Broadcast(ev)
    BY <1>5 DEF PollStep, client
  <2>2. ev \in Events \ AboutRule(n)
    BY <1>5 DEF Polls, AboutConn, AboutRule
  <2>3. Gone(n)
    BY <1>2, <2>1
  <2> HIDE DEF Gone
  <2>4. QED
    BY <1>4, <2>1, <2>2, <2>3, Published
<1>6. ASSUME NEW ev \in Events, Requested(ev) PROVE Goal
  <2>1. UNCHANGED <<pc, gui, wire, chan>> /\ outbox' = outbox \cup {<<changes', ev>>}
    BY <1>6 DEF Requested, stream, client
  <2>2. Faithful /\ ~replaced
    BY <1>6, <2>1 DEF Requested, Faithful
  <2>3. Coming' = Coming
    BY <2>1 DEF Coming
  <2>4. ~(ev.type = "removed" /\ ev.id = n)
    <3>1. <<changes', ev>> \in outbox' /\ <<changes', ev>>[2] = ev
      BY <2>1
    <3>2. QED
      BY <3>1
  <2>5. \A r \in ToSet(dRules) : r \in ToSet(dRules') \/ (ev.type = "removed" /\ r.id = ev.id)
    BY <1>6 DEF Requested
  <2>6. Gone(n)
    BY <2>1, <2>4, <2>5
  <2>7. QED
    BY <1>3, <2>1, <2>2, <2>3, <2>6
<1>7. ASSUME NEW o \in outbox, PublishOne(o) PROVE Goal
  <2>1. /\ UNCHANGED <<dRules, pc, gui, sub, wire, replaced>> /\ Broadcast(o[2]) /\ o[2] \in Events
        /\ o[2] \in Requests
    BY <1>7, RequestsAreEvents DEF PublishOne, daemon, client, Types
  <2>2. /\ Faithful /\ Coming \in Seq(Events)
        /\ \/ Coming' = Append(Coming, o[2])
           \/ pc = "status" /\ Coming = <<>> /\ Coming' = <<>>
    BY <2>1, Published
  <2>3. outbox = {o} /\ Tells(o[2])
    BY <2>2, OneTells
  <2>4. CASE o[2] \notin AboutRule(n)
    <3>1. ~(o[2].type = "removed" /\ o[2].id = n)
      BY <2>1, <2>4 DEF AboutRule
    <3>2. Gone(n)
      BY <2>1, <2>3, <3>1
    <3>3. o[2] \in Events \ AboutRule(n)
      BY <2>1, <2>4
    <3> HIDE DEF Gone
    <3>4. QED
      BY <1>4, <2>1, <2>2, <3>2, <3>3
  <2>5. CASE o[2] \in AboutRule(n)
    <3>1. o[2].type # "added"
      <4>1. o[2].type = "added" => o[2].rule \in ToSet(dRules')
        BY <2>1, <2>3 DEF Tells
      <4>2. QED
        BY <2>5, <4>1 DEF AboutRule
    <3>2. o[2] \in Removal(n)
      BY <2>5, <3>1 DEF AboutRule, Removal
    <3>3. CASE Coming' = Append(Coming, o[2])
      <4>1. LastIn(Coming', AboutRule(n), Removal(n)) /\ ~Silent(Coming', AboutRule(n))
        BY <2>1, <2>2, <2>5, <3>2, <3>3, QueueGrows
      <4>2. QED
        BY <4>1
    <3>4. CASE pc = "status" /\ Coming' = <<>>
      BY <2>1, <3>4, EmptyQueue
    <3>5. QED
      BY <2>2, <3>3, <3>4
  <2>6. QED
    BY <2>4, <2>5
<1>8. CASE Subscribed
  <2>1. UNCHANGED <<pc, gui, outbox, dRules, replaced, Coming, gap>>
    BY <1>8 DEF Subscribed, daemon, client, hist, Coming
  <2>2. Gone(n) /\ Faithful
    BY <1>2, <2>1 DEF Faithful
  <2>3. QED
    BY <1>3, <2>1, <2>2
<1>9. CASE Forward
  <2>1. UNCHANGED <<pc, gui, outbox, dRules, replaced, gap>> /\ Coming' = Coming
    BY <1>9, Forwarded DEF Forward, daemon, client, hist
  <2>2. Gone(n) /\ Faithful
    BY <1>2, <2>1 DEF Faithful
  <2>3. QED
    BY <1>3, <2>1, <2>2
<1>10. CASE Connect
  <2>1. Coming' = <<>> /\ pc' = "status"
    BY <1>10, Connected DEF Connect
  <2>2. QED
    BY <2>1, EmptyQueue
<1>11. CASE FetchStatus \/ FetchTop \/ FetchConns \/ FetchRules
  <2>1. UNCHANGED <<dRules, outbox, Coming, gap, replaced>> /\ pc \in Fetching
    BY <1>11 DEF FetchStatus, FetchTop, FetchConns, FetchRules, Fetch, daemon, stream, hist, Coming, Fetching
  <2>2. Faithful /\ Gone(n)
    BY <1>2, <2>1 DEF Faithful, Fetching
  <2>3. LastIn(Coming', AboutRule(n), Removal(n))
    BY <1>1, <2>1, <2>2
  <2>4. CASE FetchStatus \/ FetchTop \/ FetchConns
    <3>1. pc' # "stream"
      BY <2>4 DEF FetchStatus, FetchTop, FetchConns, Fetch
    <3>2. QED
      BY <2>3, <3>1
  <2>5. CASE FetchRules
    <3>1. gui'.rules = dRules
      BY <2>5, FetchedIs
    <3>2. QED
      BY <2>2, <2>3, <3>1
  <2>6. QED
    BY <1>11, <2>4, <2>5
<1>12. CASE Receive
  <2> DEFINE ev == Head(Coming)
  <2>1. UNCHANGED <<dRules, outbox, gap, pc, replaced>> /\ pc = "stream"
    BY <1>12 DEF Receive, daemon
  <2>2. /\ Coming \in Seq(Events) /\ Coming # <<>> /\ Coming' = Tail(Coming)
        /\ ev \in Events /\ Applied(gui, ev, gui')
    BY <1>12, Received
  <2>3. Faithful /\ Gone(n)
    BY <1>2, <2>1 DEF Faithful
  <2>4. /\ LastIn(Coming, AboutRule(n), Removal(n))
        /\ Silent(Coming, AboutRule(n)) => \A r \in ToSet(gui.rules) : r.id # n
    BY <1>1, <2>1, <2>3
  <2>5. LastIn(Coming', AboutRule(n), Removal(n))
    BY <2>2, <2>4, QueueShrinks
  <2>6. ASSUME Silent(Coming', AboutRule(n)) PROVE \A r \in ToSet(gui'.rules) : r.id # n
    <3>1. CASE ev \in AboutRule(n)
      <4>1. ev \in Removal(n)
        BY <2>2, <2>4, <2>6, <3>1, QueueShrinks
      <4>2. QED
        BY <2>2, <4>1 DEF Removal, Applied
    <3>2. CASE ev \notin AboutRule(n)
      <4>1. \A r \in ToSet(gui.rules) : r.id # n
        BY <2>2, <2>4, <2>6, <3>2, QueueShrinks
      <4>2. ToSet(gui'.rules) \subseteq ToSet(gui.rules) \cup (IF ev.type = "added" THEN {ev.rule} ELSE {})
        BY <2>2 DEF Applied
      <4>3. ev.type = "added" => ev.rule.id # n
        BY <2>2, <3>2 DEF AboutRule
      <4>4. QED
        BY <4>1, <4>2, <4>3
    <3>3. QED
      BY <3>1, <3>2
  <2>7. QED
    BY <2>5, <2>6
<1>13. CASE Drop \/ DaemonRestarts
  BY <1>13 DEF Drop, DaemonRestarts, Disconnect, Faithful
<1>14. QED
  BY <1>5, <1>6, <1>7, <1>8, <1>9, <1>10, <1>11, <1>12, <1>13, NextIs

Views == PauseView /\ ConnView /\ RuleView /\ GoneView

\* For the pause, each connection and each rule the last event on its way tells, and when
\* none is on its way the view agrees, from the snapshot on (gui/src/client.rs:149-200).
THEOREM ViewsHold == SessionSpec => []Views
<1>1. SessionInit => Views
  BY DEF SessionInit, Views, PauseView, ConnView, RuleView, GoneView, Faithful
<1>2. Types /\ Sessions /\ Views /\ [SessionNext]_sessionVars => Views'
  <2>1. Types /\ Sessions /\ Views /\ SessionNext => Views'
    BY PauseViewStep, ConnViewStep, RuleViewStep, GoneViewStep DEF Views
  <2>2. Views /\ UNCHANGED sessionVars => Views'
    <3> SUFFICES ASSUME Views, UNCHANGED sessionVars PROVE Views'
      OBVIOUS
    <3>1. UNCHANGED <<dPaused, dRules, dConns, outbox, chan, wire, pc, snap, gui, gap, replaced, evicted>>
      BY DEF sessionVars, daemon, stream, client, hist
    <3>2. UNCHANGED <<Coming, Heard, PauseTold, Faithful>> /\ \A k : ConnTold(k)' = ConnTold(k)
      BY <3>1 DEF Coming, Heard, PauseTold, ConnTold, Faithful
    <3>3. PauseView'
      BY <3>1, <3>2 DEF Views, PauseView, AboutPause
    <3>4. ConnView'
      BY <3>1, <3>2 DEF Views, ConnView, AboutConn, Shows
    <3>5. RuleView'
      BY <3>1, <3>2 DEF Views, RuleView
    <3>6. GoneView'
      BY <3>1, <3>2 DEF Views, GoneView, AboutRule, Removal
    <3>7. QED
      BY <3>3, <3>4, <3>5, <3>6 DEF Views
  <2>3. QED
    BY <2>1, <2>2
<1>3. QED
  BY <1>1, <1>2, TypesHold, SessionsHold, PTL DEF SessionSpec

\* Once a session that missed nothing has applied what it was sent, it shows the daemon's
\* pause, connections within the cap and rules, although events were replayed on top of a
\* snapshot fetched by several requests, for any programs, connections, queue and cap
\* (gui/src/client.rs:149-200, gui/src/state.rs:81-270).
THEOREM QuietViewsAgree == SessionSpec => []QuietViewAgrees
<1>1. Types /\ Sessions /\ Views => QuietViewAgrees
  <2> SUFFICES ASSUME Types, Sessions, Views, Quiet, ~gap
               PROVE  /\ gui.connected /\ gui.paused = dPaused
                      /\ gui.conns = Restrict(dConns, DOMAIN dConns \ evicted)
                      /\ ToSet(dRules) \subseteq ToSet(gui.rules)
                      /\ ~replaced => ToSet(gui.rules) = ToSet(dRules)
    BY DEF QuietViewAgrees
  <2>1. /\ Faithful /\ pc = "stream" /\ Coming = <<>> /\ outbox = {} /\ Heard = {}
    <3>1. pc = "stream" /\ wire = <<>> /\ chan = <<>> /\ outbox = {} /\ ToSet(<<>>) = {}
      BY DEF Quiet, ToSet
    <3>2. QED
      BY <3>1, OneQueue DEF Types, Faithful, Coming, Heard
  <2>2. /\ Silent(Coming, AboutPause) /\ \A k : Silent(Coming, AboutConn(k))
        /\ \A n : Silent(Coming, AboutRule(n))
    BY <2>1, EmptyQueue
  <2>3. gui.connected /\ gui.paused = dPaused
    BY <2>1, <2>2 DEF Sessions, Wiring, Views, PauseView
  <2>4. gui.conns = Restrict(dConns, DOMAIN dConns \ evicted)
    <3> DEFINE D == DOMAIN gui.conns
               S == DOMAIN dConns \ evicted
    <3>1. D \subseteq Keys /\ S \subseteq Keys /\ IsFun(gui.conns)
      BY OrderHasAll DEF Types, Sound, IsConns
    <3>2. \A k \in Keys : Shows(gui.conns, k)
      BY <2>1, <2>2 DEF Views, ConnView
    <3>3. D = S /\ \A k \in D : gui.conns[k] = dConns[k]
      BY <3>1, <3>2 DEF Shows
    <3>4. gui.conns = [k \in S |-> dConns[k]]
      BY <3>1, <3>3 DEF IsFun
    <3>5. QED
      BY <3>4 DEF Restrict
  <2>5. ToSet(dRules) \subseteq ToSet(gui.rules)
    BY <2>1 DEF Views, RuleView
  <2>6. ASSUME ~replaced, NEW r \in ToSet(gui.rules) PROVE r \in ToSet(dRules)
    <3>1. r \in Known /\ ToSet(dRules) \subseteq Known
      BY DEF Known
    <3>2. r.id \in Nat
      BY <3>1 DEF Sessions, Naming, Rule
    <3>3. ~ \A s \in ToSet(dRules) : s.id # r.id
      BY <2>1, <2>2, <2>6, <3>2 DEF Views, GoneView
    <3>4. PICK s \in ToSet(dRules) : s.id = r.id
      BY <3>3
    <3>5. s = r
      BY <3>1, <3>4 DEF Sessions, Naming
    <3>6. QED
      BY <3>5
  <2>7. QED
    BY <2>3, <2>4, <2>5, <2>6
<1>2. QED
  BY <1>1, TypesHold, SessionsHold, ViewsHold, PTL
=============================================================================
