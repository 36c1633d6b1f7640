---------------------------- MODULE GuiSession -----------------------------
(***************************************************************************)
(* The GUI's client thread (gui/src/client.rs), the daemon's event stream  *)
(* (daemon/src/ipc.rs) and the changes that the events report.  The client *)
(* opens a stream and sends Subscribe, which nobody answers; it fetches    *)
(* status, applications, connections and rules over connections of their   *)
(* own; then it applies what the stream brings.  The daemon subscribes the *)
(* stream to its broadcast channel when it gets to the request; the        *)
(* channel drops its oldest events when the subscriber is slow.  A request *)
(* handler changes the daemon's state first and publishes later; the       *)
(* conntrack poll publishes while it holds its map.                        *)
(***************************************************************************)
EXTENDS ClientState

CONSTANTS ChanCap,      \* EVENT_CHANNEL_CAPACITY
          WireCap,      \* events that the socket's buffers hold
          MaxChanges,   \* bound: changes of the daemon's state
          MaxBytes,     \* bound: bytes of a connection
          MaxDrops      \* bound: lost connections and daemon restarts

ASSUME Capacities == ChanCap \in Nat \ {0} /\ WireCap \in Nat \ {0}
ASSUME Bounds == MaxChanges \in Nat /\ MaxBytes \in Nat /\ MaxDrops \in Nat

VARIABLES dPaused, dRules, dConns, nextId,   \* the daemon
          outbox,    \* events, numbered, of changes that are made and not yet published
          sub,       \* the daemon's end of the stream: none, sent or live
          chan,      \* the subscriber's part of the broadcast channel
          wire,      \* events written to the socket and not yet read
          pc,        \* the client thread
          snap,      \* what it has fetched so far
          gui,       \* ClientState
          changes, drops,
          crossed,   \* some event of outbox may have been overtaken by another one
          gap,       \* since the fetch began, an event was missed or may have been overtaken
          replaced,  \* since then a rule was replaced
          evicted,   \* connections that the cap took out since then
          seen       \* bytes that the daemon has ever seen

daemon == <<dPaused, dRules, dConns, nextId>>
stream == <<sub, chan, wire>>
client == <<pc, snap, gui>>
bounds == <<changes, drops>>
hist   == <<crossed, gap, replaced, evicted, seen>>
sessionVars == <<daemon, outbox, stream, client, bounds, hist>>

NoSnap == [paused |-> FALSE, top |-> <<>>, conns |-> <<>>, rules |-> <<>>]

SessionInit ==
  /\ dPaused = FALSE /\ dRules = <<>> /\ dConns = <<>> /\ nextId = 1
  /\ outbox = {}
  /\ sub = "none" /\ chan = <<>> /\ wire = <<>>
  /\ pc = "down" /\ snap = NoSnap /\ gui = Empty
  /\ changes = 0 /\ drops = 0
  /\ crossed = FALSE /\ gap = FALSE /\ replaced = FALSE /\ evicted = {} /\ seen = 0

Change == changes < MaxChanges /\ changes' = changes + 1

-----------------------------------------------------------------------------
(* The broadcast channel *)

\* Sent before the stream is live, an event is lost: to a fetch that has begun
\* it is missing.  A full channel loses its oldest one.
Broadcast(ev) ==
  /\ chan' = IF sub # "live" THEN chan
               ELSE Append(IF Len(chan) = ChanCap THEN Tail(chan) ELSE chan, ev)
  /\ gap' = (gap \/ (sub = "sent" /\ pc # "status") \/ (sub = "live" /\ Len(chan) = ChanCap))

-----------------------------------------------------------------------------
(* The conntrack poll: the map and its event change together *)

PollStep(conns, ev, bytes) ==
  /\ Change
  /\ dConns' = conns
  /\ Broadcast(ev)
  /\ seen' = seen + bytes
  /\ UNCHANGED <<dPaused, dRules, nextId, outbox, sub, wire, client, drops, crossed, replaced, evicted>>

Opened(k, e, n) ==
  /\ k \notin DOMAIN dConns
  /\ LET c == [exe |-> e, bytes |-> n]
     IN  PollStep(Put(dConns, k, c), [type |-> "opened", key |-> k, conn |-> c], n)

\* A counter that went back belongs to a flow that took over the 5-tuple.
Updated(k, n) ==
  /\ k \in DOMAIN dConns /\ dConns[k].bytes # n
  /\ LET c == [dConns[k] EXCEPT !.bytes = n]
     IN  PollStep([dConns EXCEPT ![k] = c], [type |-> "updated", key |-> k, conn |-> c],
                  IF n > dConns[k].bytes THEN n - dConns[k].bytes ELSE n)

Closed(k) ==
  /\ k \in DOMAIN dConns
  /\ PollStep(Restrict(dConns, DOMAIN dConns \ {k}), [type |-> "closed", key |-> k], 0)

-----------------------------------------------------------------------------
(* Requests: the change, and later its event *)

Handle(ev) ==
  /\ Change
  /\ outbox' = outbox \cup {<<changes', ev>>}
  /\ crossed' = (outbox # {}) /\ gap' = (gap \/ crossed')
  /\ UNCHANGED <<dConns, stream, client, drops, evicted, seen>>

AddRule(e) ==
  LET rule     == [id |-> nextId, exe |-> e]
      others   == Retain(dRules, {r \in ToSet(dRules) : r.exe # e})
  IN  /\ dRules' = Append(others, rule) /\ nextId' = nextId + 1
      /\ Handle([type |-> "added", rule |-> rule])
      /\ replaced' = (replaced \/ others # dRules)
      /\ UNCHANGED dPaused

RemoveRule(r) ==
  /\ r \in ToSet(dRules)
  /\ dRules' = WithoutRule(dRules, r.id)
  /\ Handle([type |-> "removed", id |-> r.id])
  /\ UNCHANGED <<dPaused, nextId, replaced>>

SetPaused(p) ==
  /\ dPaused' = p
  /\ Handle([type |-> "paused", paused |-> p])
  /\ UNCHANGED <<dRules, nextId, replaced>>

PublishOne(o) ==
  /\ o \in outbox /\ outbox' = outbox \ {o}
  /\ Broadcast(o[2])
  /\ UNCHANGED <<daemon, sub, wire, client, bounds, crossed, replaced, evicted, seen>>

-----------------------------------------------------------------------------
(* stream_events *)

Subscribed ==
  /\ sub = "sent" /\ sub' = "live"
  /\ UNCHANGED <<daemon, outbox, chan, wire, client, bounds, hist>>

\* Faulty variant of Forward: the channel is joined anew for every event.
Forward_Rejoins ==
  /\ sub = "live" /\ chan # <<>> /\ Len(wire) < WireCap
  /\ wire' = Append(wire, Head(chan)) /\ chan' = <<>>
  /\ UNCHANGED <<daemon, outbox, sub, client, bounds, hist>>

Forward ==
  /\ sub = "live" /\ chan # <<>> /\ Len(wire) < WireCap
  /\ wire' = Append(wire, Head(chan)) /\ chan' = Tail(chan)
  /\ UNCHANGED <<daemon, outbox, sub, client, bounds, hist>>

-----------------------------------------------------------------------------
(* The client thread *)

Connect ==
  /\ pc = "down" /\ pc' = "status"
  /\ sub' = "sent" /\ snap' = NoSnap
  /\ gap' = (crossed /\ outbox # {}) /\ replaced' = FALSE /\ evicted' = {}
  /\ UNCHANGED <<daemon, outbox, chan, wire, gui, bounds, crossed, seen>>

Fetch(from, to, s) ==
  /\ pc = from /\ pc' = to
  /\ snap' = s
  /\ UNCHANGED <<daemon, outbox, stream, gui, bounds, hist>>

FetchStatus == Fetch("status", "top", [snap EXCEPT !.paused = dPaused])
FetchTop    == Fetch("top", "conns", [snap EXCEPT !.top = TopApps(dConns)])
FetchConns  == Fetch("conns", "rules", [snap EXCEPT !.conns = dConns])

\* The last fetch, and the snapshot goes to the state.
FetchRules ==
  /\ pc = "rules" /\ pc' = "stream"
  /\ \E order \in SetToSeqs(DOMAIN snap.conns) :
       gui' = ApplySnapshot(gui, [snap EXCEPT !.rules = dRules], order)
  /\ snap' = NoSnap
  /\ UNCHANGED <<daemon, outbox, stream, bounds, hist>>

\* An event from the stream.
Receive ==
  /\ pc = "stream" /\ wire # <<>>
  /\ wire' = Tail(wire)
  /\ gui' = ApplyEvent(gui, Head(wire))
  /\ evicted' = LET ev   == Head(wire)
                    had  == DOMAIN gui.conns
                            \cup (IF ev.type \in {"opened", "updated"} THEN {ev.key} ELSE {})
                    shut == IF ev.type = "closed" THEN {ev.key} ELSE {}
                IN  (evicted \cup had) \ (DOMAIN gui'.conns \cup shut)
  /\ UNCHANGED <<daemon, outbox, sub, chan, pc, snap, bounds, crossed, gap, replaced, seen>>

-----------------------------------------------------------------------------
(* Failure *)

\* The stream or a fetch fails: Disconnected, and a new session after a while.
Disconnect ==
  /\ pc' = "down"
  /\ sub' = "none" /\ chan' = <<>> /\ wire' = <<>>
  /\ snap' = NoSnap
  /\ gui' = [gui EXCEPT !.connected = FALSE]

Drop ==
  /\ pc # "down" /\ drops < MaxDrops /\ drops' = drops + 1
  /\ Disconnect
  /\ UNCHANGED <<daemon, outbox, changes, hist>>

\* The rules come back from their file, the pause and the connections do not.
DaemonRestarts ==
  /\ drops < MaxDrops /\ drops' = drops + 1
  /\ Disconnect
  /\ dPaused' = FALSE /\ dConns' = <<>> /\ outbox' = {}
  /\ UNCHANGED <<dRules, nextId, changes, hist>>

FetchStep == Connect \/ FetchStatus \/ FetchTop \/ FetchConns \/ FetchRules

SessionNext ==
  \/ \E k \in Keys : \/ \E n \in 0 .. MaxBytes : Updated(k, n) \/ \E e \in AppKeys : Opened(k, e, n)
                     \/ Closed(k)
  \/ \E e \in Executables : AddRule(e)
  \/ \E r \in ToSet(dRules) : RemoveRule(r)
  \/ \E p \in BOOLEAN : SetPaused(p)
  \/ \E o \in outbox : PublishOne(o)
  \/ Subscribed \/ Forward
  \/ FetchStep \/ Receive
  \/ Drop \/ DaemonRestarts

SessionSpec == SessionInit /\ [][SessionNext]_sessionVars

-----------------------------------------------------------------------------
(* Properties *)

\* The GUI has applied everything that the daemon has to say.
Quiet == pc = "stream" /\ sub = "live" /\ chan = <<>> /\ wire = <<>> /\ outbox = {}

\* A session that missed nothing and in which no change overtook another one ends
\* up with the daemon's picture, whatever was replayed to it on top of the
\* snapshot: pause, the connections within the cap, and the rules, to which only
\* replaced ones may be left over.
QuietViewAgrees ==
  Quiet /\ ~gap =>
    /\ gui.connected /\ gui.paused = dPaused
    /\ gui.conns = Restrict(dConns, DOMAIN dConns \ evicted)
    /\ ToSet(dRules) \subseteq ToSet(gui.rules)
    /\ ~replaced => ToSet(gui.rules) = ToSet(dRules)

\* In every session, also one that missed events, each application's switch
\* shows the GUI's own rules, and blocked executables are listed.
SwitchesFollowRules == FlagsFollow(gui)

\* The eviction order is the set of connections, whatever is opened twice,
\* updated before it is opened or closed without having been seen.
EvictionOrderIsSound == OrderFollows(gui)

\* Events that arrive during the fetch are applied idempotently
\* (client.rs:155): the total never exceeds the traffic there has been.
TotalsAreReal == gui.total <= seen

\* The switch of a blocked application names a rule that the daemon has, so
\* that it can be unblocked (gui/src/state.rs:39).
SwitchNamesDaemonRule ==
  Quiet /\ ~gap =>
    \A k \in DOMAIN gui.apps :
      gui.apps[k].rule # NoRule => \E r \in ToSet(dRules) : r.id = gui.apps[k].rule
=============================================================================
