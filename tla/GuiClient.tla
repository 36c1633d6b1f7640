----------------------------- MODULE GuiClient -----------------------------
(***************************************************************************)
(* The GUI as three parties: the client thread (client.rs: one session     *)
(* after another, and the commands of the user), the main loop (app.rs,    *)
(* the pages: messages, ticks, switches) and the tray.  One application    *)
(* that can be blocked, and the pause switch.  The event stream is read in *)
(* pieces, a length and a body, and a command that comes in between makes  *)
(* select! drop the read that had begun.  What a snapshot and an event do  *)
(* to the lists of the GUI is modelled in ClientState and GuiSession; here *)
(* a request and its announcement are one step of the daemon.              *)
(***************************************************************************)
EXTENDS Naturals, Sequences, SequencesExt

CONSTANTS MaxActs,   \* bound: clicks of the user and requests of other clients
          MaxDowns     \* bound: ends of the daemon, and snapshots beyond MAX_FRAME

NoRule == 0

VARIABLES up,        \* the daemon listens
          pausing,   \* state.paused
          rule,      \* id of the Block rule of the application
          nextId,
          big,       \* the answer to GetConnections is longer than MAX_FRAME
          wire,      \* pieces sent to the subscriber and not read yet
          open,      \* the stream is connected to this daemon
          client,    \* where the client thread is
          half,      \* read_frame holds a length whose body is still to come
          cmds,      \* cmd_tx -> cmd_rx
          ui,        \* ClientMsgs for the main loop
          shown,     \* ClientState: connected, paused, ids of the Block rules
          flag,      \* paused_flag, which the tray reads
          switch,    \* positions of the widgets: app (on = allowed), pause
          rowId,     \* AppRow::rule_id
          acts, downs,
          replaced   \* a Block rule was replaced by another one

daemon == <<up, pausing, rule, nextId, big>>
stream == <<wire, open, half>>
widgets == <<shown, flag, switch, rowId>>
bounds == <<acts, downs, replaced>>
guiVars == <<daemon, stream, client, cmds, ui, widgets, bounds>>

GuiInit ==
  /\ up \in BOOLEAN /\ pausing = FALSE /\ rule \in {NoRule, 1} /\ nextId = 2 /\ big = FALSE
  /\ wire = <<>> /\ open = FALSE /\ half = FALSE
  /\ client = "connect" /\ cmds = <<>> /\ ui = <<>>
  /\ shown = [connected |-> FALSE, paused |-> FALSE, ids |-> <<>>]
  /\ flag = FALSE /\ switch = [app |-> TRUE, pause |-> FALSE] /\ rowId = NoRule
  /\ acts = 0 /\ downs = 0 /\ replaced = FALSE

-----------------------------------------------------------------------------
(* The daemon: a request, and the event that follows from it *)

Event(kind, val) == [kind |-> kind, val |-> val]
Frame(ev) == <<[part |-> "len", ev |-> ev], [part |-> "body", ev |-> ev]>>
Publish(ev) == wire' = IF open THEN wire \o Frame(ev) ELSE wire

DoPause(b) == /\ pausing' = b /\ Publish(Event("paused", b)) /\ UNCHANGED <<rule, nextId, replaced>>
DoBlock == /\ rule' = nextId /\ nextId' = nextId + 1 /\ Publish(Event("added", nextId))
           /\ replaced' = (replaced \/ rule # NoRule) /\ UNCHANGED pausing
DoUnblock == /\ rule' = NoRule /\ Publish(Event("removed", rule))
             /\ UNCHANGED <<pausing, nextId, replaced>>

Act == acts < MaxActs /\ acts' = acts + 1

\* Another client of the daemon, travelmodectl for one.
Other ==
  /\ up /\ Act
  /\ \/ DoPause(~pausing) \/ DoBlock \/ (rule # NoRule /\ DoUnblock)
  /\ UNCHANGED <<up, big, open, half, client, cmds, ui, widgets, downs>>

\* The daemon ends; what it had written can still be read.  A restart keeps the
\* rules and forgets the pause.
Down ==
  /\ up /\ downs < MaxDowns /\ downs' = downs + 1
  /\ up' = FALSE /\ open' = FALSE
  /\ UNCHANGED <<pausing, rule, nextId, big, wire, half, client, cmds, ui, widgets, acts, replaced>>

Up ==
  /\ ~up /\ up' = TRUE /\ pausing' = FALSE
  /\ UNCHANGED <<rule, nextId, big, stream, client, cmds, ui, widgets, bounds>>

Grow ==
  /\ ~big /\ downs < MaxDowns /\ downs' = downs + 1 /\ big' = TRUE
  /\ UNCHANGED <<up, pausing, rule, nextId, stream, client, cmds, ui, widgets, acts, replaced>>

Shrink ==
  /\ big /\ big' = FALSE
  /\ UNCHANGED <<up, pausing, rule, nextId, stream, client, cmds, ui, widgets, bounds>>

-----------------------------------------------------------------------------
(* The client thread *)

Tell(msg) == ui' = Append(ui, msg)
Msg(kind, val) == [kind |-> kind, val |-> val]
Snap == [paused |-> pausing, ids |-> IF rule = NoRule THEN <<>> ELSE <<rule>>]

\* The session is over, whatever was read of a frame is forgotten.  Two
\* Disconnected in a row say no more than one.
EndSession == /\ client' = "backoff"
              /\ IF ui # <<>> /\ Last(ui).kind = "disconnected" THEN UNCHANGED ui
                 ELSE Tell(Msg("disconnected", 0))
              /\ wire' = <<>> /\ open' = FALSE /\ half' = FALSE

Subscribe ==
  /\ client = "connect"
  /\ \/ /\ up /\ client' = "fetch" /\ open' = TRUE /\ wire' = <<>> /\ half' = FALSE /\ UNCHANGED ui
     \/ ~up /\ EndSession
  /\ UNCHANGED <<daemon, cmds, widgets, bounds>>

\* Five requests; an answer that is too long fails like a lost connection.
Fetch ==
  /\ client = "fetch"
  /\ \/ /\ up /\ ~big /\ client' = "stream" /\ Tell(Msg("connected", Snap)) /\ UNCHANGED stream
     \/ (~up \/ big) /\ EndSession
  /\ UNCHANGED <<daemon, cmds, widgets, bounds>>

\* A length, then its body; the body of a frame whose length was lost is taken
\* for a length, and JSON text is one above MAX_FRAME: the session fails.
\* Faulty variant of ReadFrame: any length is accepted, and the read waits for
\* bytes that never come.
ReadFrame_NoLimit ==
  /\ client = "stream" /\ wire # <<>>
  /\ IF half = (Head(wire).part = "body")
     THEN /\ wire' = Tail(wire) /\ half' = ~half /\ UNCHANGED <<open, client>>
          /\ IF half THEN Tell(Msg("event", Head(wire).ev)) ELSE UNCHANGED ui
     ELSE wire' = <<>> /\ half' = TRUE /\ UNCHANGED <<open, client, ui>>
  /\ UNCHANGED <<daemon, cmds, widgets, bounds>>

ReadFrame ==
  /\ client = "stream" /\ wire # <<>>
  /\ IF half = (Head(wire).part = "body")
     THEN /\ wire' = Tail(wire) /\ half' = ~half /\ UNCHANGED <<open, client>>
          /\ IF half THEN Tell(Msg("event", Head(wire).ev)) ELSE UNCHANGED ui
     ELSE EndSession
  /\ UNCHANGED <<daemon, cmds, widgets, bounds>>

StreamEnds ==
  /\ client = "stream" /\ wire = <<>> /\ ~open /\ EndSession
  /\ UNCHANGED <<daemon, cmds, widgets, bounds>>

\* The backoff of two seconds.
Retry == /\ client = "backoff" /\ client' = "connect"
         /\ UNCHANGED <<daemon, stream, cmds, ui, widgets, bounds>>

\* One request on a connection of its own; every failure becomes a toast.
Reported == Tell(Msg("failed", 0)) /\ UNCHANGED <<pausing, rule, nextId, wire, replaced>>
Execute(cmd) ==
  \/ ~up /\ Reported
  \/ up /\ cmd.kind = "pause" /\ DoPause(cmd.val) /\ UNCHANGED ui
  \/ up /\ cmd.kind = "block" /\ DoBlock /\ UNCHANGED ui
  \/ up /\ cmd.kind = "unblock" /\ cmd.val = rule /\ DoUnblock /\ UNCHANGED ui
  \/ up /\ cmd.kind = "unblock" /\ cmd.val # rule /\ Reported

\* Faulty variant of TakeCmd: commands wait until there is a session.
TakeCmd_Connected ==
  /\ client = "stream" /\ cmds # <<>> /\ cmds' = Tail(cmds)
  /\ half' = FALSE
  /\ \/ Head(cmds).kind = "reconnect" /\ UNCHANGED <<client, ui, pausing, rule, nextId, wire, replaced>>
     \/ Head(cmds).kind # "reconnect" /\ Execute(Head(cmds)) /\ UNCHANGED client
  /\ UNCHANGED <<up, big, open, widgets, acts, downs>>

\* select! in the stream and in the backoff: a command wins over a read that has
\* begun, and what that read had consumed is lost.
TakeCmd ==
  /\ client \in {"stream", "backoff"} /\ cmds # <<>> /\ cmds' = Tail(cmds)
  /\ half' = FALSE
  /\ \/ /\ Head(cmds).kind = "reconnect"
        /\ client' = IF client = "backoff" THEN "connect" ELSE client
        /\ UNCHANGED <<ui, pausing, rule, nextId, wire, replaced>>
     \/ Head(cmds).kind # "reconnect" /\ Execute(Head(cmds)) /\ UNCHANGED client
  /\ UNCHANGED <<up, big, open, widgets, acts, downs>>

-----------------------------------------------------------------------------
(* The main loop *)

Blocked(s) == s.ids # <<>>
FirstId(s) == IF Blocked(s) THEN Head(s.ids) ELSE NoRule

\* Faulty variant of Refresh: the row keeps the switch as the user left it.
Refresh_KeepsSwitch(s) ==
  /\ switch' = [switch EXCEPT !.pause = s.paused]
  /\ rowId' = FirstId(s)

\* refresh: every widget is set from the state, without sending a command.
Refresh(s) ==
  /\ switch' = [app |-> ~Blocked(s), pause |-> s.paused]
  /\ rowId' = FirstId(s)

Applied(s, ev) ==
  CASE ev.kind = "paused"  -> [s EXCEPT !.paused = ev.val]
    [] ev.kind = "added"   -> [s EXCEPT !.ids = Append(Remove(@, ev.val), ev.val)]
    [] ev.kind = "removed" -> [s EXCEPT !.ids = Remove(@, ev.val)]

FlagOf(msg) == CASE msg.kind = "connected" -> msg.val.paused
                 [] msg.kind = "event" /\ msg.val.kind = "paused" -> msg.val.val
                 [] OTHER -> flag

Update ==
  /\ ui # <<>> /\ ui' = Tail(ui)
  /\ LET msg == Head(ui)
     IN /\ shown' = CASE msg.kind = "connected" -> [connected |-> TRUE, paused |-> msg.val.paused,
                                                    ids |-> msg.val.ids]
                      [] msg.kind = "disconnected" -> [shown EXCEPT !.connected = FALSE]
                      [] msg.kind = "event" -> Applied(shown, msg.val)
                      [] msg.kind = "failed" -> shown
        /\ flag' = FlagOf(msg)
        /\ IF msg.kind = "failed" THEN UNCHANGED <<switch, rowId>> ELSE Refresh(shown')
  /\ UNCHANGED <<daemon, stream, client, cmds, bounds>>

\* The one-second tick.
Tick == /\ Refresh(shown) /\ UNCHANGED <<daemon, stream, client, cmds, ui, shown, flag, bounds>>

Send(kind, val) == cmds' = Append(cmds, [kind |-> kind, val |-> val])

\* The switch of the row moves at once; without a rule id there is nothing to undo.
ClickApp ==
  /\ Act /\ switch' = [switch EXCEPT !.app = ~@]
  /\ IF switch.app THEN Send("block", 0)
     ELSE IF rowId # NoRule THEN Send("unblock", rowId) ELSE UNCHANGED cmds
  /\ UNCHANGED <<daemon, stream, client, ui, shown, flag, rowId, downs, replaced>>

ClickPause ==
  /\ Act /\ switch' = [switch EXCEPT !.pause = ~@] /\ Send("pause", ~switch.pause)
  /\ UNCHANGED <<daemon, stream, client, ui, shown, flag, rowId, downs, replaced>>

ClickTray ==
  /\ Act /\ Send("pause", ~flag)
  /\ UNCHANGED <<daemon, stream, client, ui, widgets, downs, replaced>>

\* The button of the banner, there while the state says disconnected.
ClickRetry ==
  /\ Act /\ ~shown.connected /\ Send("reconnect", 0)
  /\ UNCHANGED <<daemon, stream, client, ui, widgets, downs, replaced>>

-----------------------------------------------------------------------------
Session == Subscribe \/ Fetch \/ ReadFrame \/ StreamEnds \/ Retry
User == ClickApp \/ ClickPause \/ ClickTray \/ ClickRetry
GuiNext == Other \/ Down \/ Up \/ Grow \/ Shrink \/ Session \/ TakeCmd \/ Update \/ Tick \/ User

\* Both threads run, select! picks at random among what is ready, and the tick
\* comes every second; nobody owes the daemon an end, a restart or a client.
GuiSpec == /\ GuiInit /\ [][GuiNext]_guiVars
           /\ WF_guiVars(Session) /\ SF_guiVars(TakeCmd)
           /\ WF_guiVars(Update) /\ WF_guiVars(Tick)

-----------------------------------------------------------------------------
(* Properties *)

\* With a daemon that stays up and answers that fit a frame, the GUI ends up
\* connected and its widgets show the daemon: commands that cut frames in two,
\* lost sessions, refused commands and clicks on switches that had not caught up
\* yet leave nothing behind.  The switch of a row is left out once a rule has
\* been replaced by another (client.rs:181-198, app.rs:233-310,
\* applications.rs:6-7 and 155-175, settings.rs:146-148).
WidgetsSettle ==
  <>[](up /\ ~big) => <>[](/\ shown.connected
                           /\ shown.paused = pausing /\ switch.pause = pausing /\ flag = pausing
                           /\ ~replaced => switch.app = (rule = NoRule))

\* A click is not lost while the daemon is away: the command behind it is
\* executed or reported, also during the backoff (client.rs:124-136).
CommandsAreTaken == cmds # <<>> ~> cmds = <<>>
=============================================================================
