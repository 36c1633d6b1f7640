---------------------------- MODULE ClientState ----------------------------
(***************************************************************************)
(* The GUI's picture of the daemon (gui/src/state.rs): a pure reducer that *)
(* a snapshot replaces and that events are folded into.  Sent and received *)
(* bytes are treated alike, so one counter stands for both; rules are      *)
(* Block rules (Allow rules set no flag); speeds, which tick derives from  *)
(* the counters, are left out.                                             *)
(***************************************************************************)
EXTENDS Integers, Sequences, FiniteSets, Functions, SequencesExt, Collections

CONSTANTS Executables,  \* executables; a connection may have none:
          NoExe,        \* its application is then known by the process name
          Keys,         \* flow keys, 5-tuples
          MaxConns      \* MAX_CONNECTIONS

ASSUME NoExeIsNone == NoExe \notin Executables
ASSUME CapIsPositive == MaxConns \in Nat \ {0}

AppKeys == Executables \cup {NoExe}  \* app_key
NoRule == 0                          \* block_rule_id is None

Empty == [connected |-> FALSE, paused |-> FALSE, rules |-> <<>>, apps |-> <<>>,
          conns |-> <<>>, order |-> <<>>, total |-> 0]

\* u64::saturating_sub
SatSub(a, b) == IF a > b THEN a - b ELSE 0

NewApp == [bytes |-> 0, conns |-> 0, rule |-> NoRule]
AppIn(apps, k) == IF k \in DOMAIN apps THEN apps[k] ELSE NewApp

-----------------------------------------------------------------------------
(* Rule flags *)

\* apply_rule_flags: the first Block rule for the executable.
RuleFor(rules, k) ==
  LET i == SelectInSeq(rules, LAMBDA r : r.exe = k)
  IN  IF i = 0 THEN NoRule ELSE rules[i].id

\* refresh_rule_flags: every blocked executable has an entry, and an entry with
\* neither connections nor a rule goes.
Refreshed(apps, rules) ==
  LET flagged == [k \in DOMAIN apps \cup {r.exe : r \in ToSet(rules)} |->
                    [AppIn(apps, k) EXCEPT !.rule = RuleFor(rules, k)]]
  IN  RestrictValues(flagged, LAMBDA a : a.conns > 0 \/ a.rule # NoRule)

\* Faulty variant of WithRules: the flags are not computed again.
WithRules_NoRefresh(g, rules) == [g EXCEPT !.rules = rules]

WithRules(g, rules) == [g EXCEPT !.rules = rules, !.apps = Refreshed(g.apps, rules)]

-----------------------------------------------------------------------------
(* Snapshots *)

\* top_apps of the daemon: the flows of each application.
BytesOf(conns, keys) == FoldFunctionOnSet(LAMBDA c, sum : c.bytes + sum, 0, conns, keys)
TopApps(conns) ==
  [e \in {conns[k].exe : k \in DOMAIN conns} |->
     LET keys == {k \in DOMAIN conns : conns[k].exe = e}
     IN  [NewApp EXCEPT !.bytes = BytesOf(conns, keys), !.conns = Cardinality(keys)]]

\* apply_snapshot; the daemon lists its map of connections in any order.
ApplySnapshot(g, s, order) ==
  [connected |-> TRUE, paused |-> s.paused, rules |-> s.rules,
   apps |-> Refreshed(s.top, s.rules), conns |-> s.conns, order |-> order,
   total |-> BytesOf(s.conns, DOMAIN s.conns)]

-----------------------------------------------------------------------------
(* Events *)

\* enforce_conn_cap: pop the oldest keys until the map is within the cap.
Capped(g) ==
  LET left(n) == DOMAIN g.conns \ {g.order[i] : i \in 1 .. n}
      pops == CHOOSE n \in 0 .. Len(g.order) :
                /\ n = Len(g.order) \/ Cardinality(left(n)) <= MaxConns
                /\ \A m \in 0 .. n - 1 : Cardinality(left(m)) > MaxConns
  IN  [g EXCEPT !.conns = Restrict(@, left(pops)), !.order = SubSeq(@, pops + 1, Len(@))]

\* upsert_conn
Upsert(g, k, c, isOpen) ==
  LET existed == k \in DOMAIN g.conns
      delta   == SatSub(c.bytes, IF existed THEN g.conns[k].bytes ELSE 0)
      app     == AppIn(g.apps, c.exe)
      counted == [bytes |-> app.bytes + delta,
                  conns |-> IF isOpen /\ ~existed THEN app.conns + 1 ELSE app.conns,
                  rule  |-> RuleFor(g.rules, c.exe)]
  IN  Capped([g EXCEPT !.total = @ + delta,
                       !.apps  = Put(@, c.exe, counted),
                       !.conns = Put(@, k, c),
                       !.order = IF existed THEN @ ELSE Append(@, k)])

\* Faulty variant of RemoveConn: the key stays in conn_order.
RemoveConn_KeepsOrder(g, k) == [g EXCEPT !.conns = Restrict(@, DOMAIN @ \ {k})]

\* remove_conn: an application with no connections and no rule goes.
RemoveConn(g, k) ==
  IF k \notin DOMAIN g.conns THEN g
  ELSE LET e == g.conns[k].exe
           app == [AppIn(g.apps, e) EXCEPT !.conns = SatSub(@, 1)]
           rest == Restrict(g.apps, DOMAIN g.apps \ {e})
       IN  [g EXCEPT !.conns = Restrict(@, DOMAIN @ \ {k}),
                     !.order = Retain(@, DOMAIN g.conns \ {k}),
                     !.apps  = IF e \notin DOMAIN @ \/ (app.conns = 0 /\ app.rule = NoRule)
                               THEN rest ELSE Put(rest, e, app)]

WithoutRule(rules, id) == Retain(rules, {r \in ToSet(rules) : r.id # id})

\* apply_event
ApplyEvent(g, ev) ==
  CASE ev.type = "opened"  -> Upsert(g, ev.key, ev.conn, TRUE)
    [] ev.type = "updated" -> Upsert(g, ev.key, ev.conn, FALSE)
    [] ev.type = "closed"  -> RemoveConn(g, ev.key)
    [] ev.type = "added"   -> WithRules(g, Append(WithoutRule(g.rules, ev.rule.id), ev.rule))
    [] ev.type = "removed" -> WithRules(g, WithoutRule(g.rules, ev.id))
    [] ev.type = "paused"  -> [g EXCEPT !.paused = ev.paused]

-----------------------------------------------------------------------------
(* What the pages rely on *)

\* The switch of an application shows its rule, and a blocked executable is
\* listed also when it has no traffic.
FlagsFollow(g) ==
  /\ \A k \in DOMAIN g.apps : g.apps[k].rule = RuleFor(g.rules, k)
  /\ \A r \in ToSet(g.rules) : r.exe \in DOMAIN g.apps

\* conn_order holds each key of the map once, so that the cap always has a
\* connection to evict and never evicts one for another.
OrderFollows(g) ==
  /\ ToSet(g.order) = DOMAIN g.conns
  /\ Len(g.order) = Cardinality(DOMAIN g.conns)
=============================================================================
