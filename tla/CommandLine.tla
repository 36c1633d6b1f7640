---------------------------- MODULE CommandLine ----------------------------
(***************************************************************************)
(* The command line client (cli/src/main.rs) against a daemon that may     *)
(* stop and start, processes that come and go and other clients.  A        *)
(* command of the user is resolved, sent over a connection of its own, and *)
(* ends with an exit status.  Files are their canonical paths (Programs)   *)
(* and symbolic links to them.                                             *)
(***************************************************************************)
EXTENDS Naturals, Sequences, SequencesExt, FiniteSetsExt

CONSTANTS Programs,    \* canonical paths of executables
          Plain,       \* paths of files that are not executable
          Links,       \* paths that are symbolic links
          TargetOf,    \* link -> program
          NoFile,      \* a path where nothing is
          Names,       \* names without a slash
          PathHits,    \* name -> what the directories of PATH have under it, in order
          ProcIds,     \* pids of processes that hold sockets
          MaxCommands, \* bound: commands of the user
          MaxWorld     \* bound: changes by others, and stops of the daemon

Paths == Programs \cup Plain \cup Links \cup {NoFile}
Canon(f) == IF f \in Links THEN TargetOf[f] ELSE f

NoInput == [exe |-> NoFile, action |-> "None"]
Command(kind, target, json) == [kind |-> kind, target |-> target, json |-> json]
NoProcess == [p \in {} |-> NoFile]
Process == [name : Names, exe : Programs \cup {NoFile}]   \* NoFile: /proc/<pid>/exe is not readable

VARIABLES served,    \* the daemon listens
          store,     \* its rules
          lastId,
          pausing,   \* state.paused
          running,   \* the processes it knows: pid -> [name, exe]
          cmd, step, \* the command and where it is
          input,     \* the RuleInput that resolve_rule made
          reply,     \* the answer on its way back, or none
          status,    \* exit status of the last command
          heard,     \* ghost: the answer to GetProcesses
          done,      \* ghost: this command has had its effect on the daemon
          commands, othersDone

cliVars == <<served, store, lastId, pausing, running, cmd, step, input, reply, status,
             heard, done, commands, othersDone>>

CliInit ==
  /\ served \in BOOLEAN /\ store = {} /\ lastId = 0 /\ pausing = FALSE
  /\ \E known \in SUBSET ProcIds : running \in [known -> Process]
  /\ cmd = Command("query", NoFile, FALSE) /\ step = "shell"
  /\ input = NoInput /\ reply = "none" /\ status = "success"
  /\ heard = NoProcess /\ done = FALSE /\ commands = 0 /\ othersDone = 0

-----------------------------------------------------------------------------
(* The daemon, its other clients, the processes *)

ByOthers ==
  /\ othersDone < MaxWorld /\ othersDone' = othersDone + 1
  /\ UNCHANGED <<cmd, step, input, status, heard, done, commands>>

Stored(exe, action) ==
  /\ lastId' = lastId + 1
  /\ store' = {r \in store : r.exe # exe \/ r.action # action}
              \cup {[id |-> lastId + 1, exe |-> exe, action |-> action]}

OtherClient ==
  /\ served /\ ByOthers
  /\ \/ \E p \in Programs : Stored(p, "Block")
     \/ \E r \in store : store' = store \ {r} /\ UNCHANGED lastId
  /\ UNCHANGED <<served, pausing, running, reply>>

\* A request or an answer on its way is lost with the daemon; the rules are not.
StopDaemon ==
  /\ served /\ ByOthers /\ served' = FALSE
  /\ reply' = IF step = "wait" THEN "lost" ELSE reply
  /\ UNCHANGED <<store, lastId, pausing, running>>

StartDaemon ==
  /\ ~served /\ ByOthers /\ served' = TRUE /\ pausing' = FALSE
  /\ UNCHANGED <<store, lastId, running, reply>>

\* A process appears, runs another program, or is gone.
ProcessesChange ==
  /\ ByOthers
  /\ \E p \in ProcIds :
       \/ running' = [q \in DOMAIN running \ {p} |-> running[q]]
       \/ \E new \in Process :
            running' = [q \in DOMAIN running \cup {p} |-> IF q = p THEN new ELSE running[q]]
  /\ UNCHANGED <<served, store, lastId, pausing, reply>>

-----------------------------------------------------------------------------
(* The command *)

Daemon == UNCHANGED <<served, store, lastId, pausing, running, othersDone>>

Commands ==
  {Command(k, t, j) : k \in {"block", "allow"}, t \in Paths \cup Names, j \in BOOLEAN}
  \cup {Command("remove", n, j) : n \in 1..MaxCommands, j \in BOOLEAN}
  \cup {Command(k, NoFile, j) : k \in {"pause", "resume", "watch", "query"}, j \in BOOLEAN}

IsRule(c) == c.kind \in {"block", "allow"}

TypeCommand ==
  /\ step = "shell" /\ commands < MaxCommands /\ commands' = commands + 1
  /\ cmd' \in Commands
  /\ step' = IF IsRule(cmd') THEN "resolve" ELSE "send"
  /\ input' = NoInput /\ heard' = NoProcess /\ done' = FALSE /\ reply' = "none"
  /\ UNCHANGED status /\ Daemon

Ends(how) == /\ status' = how /\ step' = "exit"
             /\ UNCHANGED <<cmd, input, reply, heard, done, commands>>

\* resolve_rule; the name and the two flags of the rule are left out.
Resolved(exe) ==
  /\ input' = [exe |-> exe, action |-> IF cmd.kind = "block" THEN "Block" ELSE "Allow"]
  /\ step' = "send" /\ UNCHANGED <<cmd, reply, status, done, commands>>

ResolvePath ==
  /\ step = "resolve" /\ cmd.target \in Paths
  /\ \/ cmd.target # NoFile /\ Resolved(Canon(cmd.target)) /\ UNCHANGED heard
     \/ cmd.target = NoFile /\ Ends("failure")
  /\ Daemon

\* which: the first executable file, by the path it was found under.
InPath(name) == SelectSeq(PathHits[name], LAMBDA f : f \notin Plain)

ResolveWhich ==
  /\ step = "resolve" /\ cmd.target \in Names /\ InPath(cmd.target) # <<>>
  /\ Resolved(Head(InPath(cmd.target))) /\ UNCHANGED heard /\ Daemon

Matches(name) == {p \in DOMAIN running : running[p].name = name}

\* Faulty variant of ResolveProcess: the first match will do.
ResolveProcess_Any ==
  /\ step = "resolve" /\ cmd.target \in Names /\ InPath(cmd.target) = <<>>
  /\ \/ \E p \in Matches(cmd.target) :
          /\ served /\ running[p].exe # NoFile
          /\ heard' = running /\ Resolved(running[p].exe)
     \/ ~served /\ Ends("failure")
  /\ Daemon

\* GetProcesses, and a name that exactly one process has (two of one program are
\* two); whatever else happens is the same failure.
ResolveProcess ==
  /\ step = "resolve" /\ cmd.target \in Names /\ InPath(cmd.target) = <<>>
  /\ LET sure == served /\ \E p \in Matches(cmd.target) :
                             Matches(cmd.target) = {p} /\ running[p].exe # NoFile
     IN \/ /\ sure /\ heard' = running
           /\ Resolved(running[CHOOSE p \in Matches(cmd.target) : TRUE].exe)
        \/ ~sure /\ Ends("failure")
  /\ Daemon

\* connect and write_frame.
SendRequest ==
  /\ step = "send"
  /\ \/ /\ served /\ step' = "wait"
        /\ UNCHANGED <<cmd, input, reply, status, heard, done, commands>>
     \/ ~served /\ Ends("failure")
  /\ Daemon

\* What the request in hand asks for is so.  For pause and resume that is the flag,
\* which is all that Ok says: nft runs after the answer (Firewall, TogglesTakeEffect).
TakesEffect ==
  CASE IsRule(cmd)          -> \E r \in store' : r.exe = input.exe /\ r.action = input.action
    [] cmd.kind = "remove"  -> /\ \E r \in store : r.id = cmd.target
                               /\ \A r \in store' : r.id # cmd.target
    [] cmd.kind = "pause"   -> pausing' = TRUE
    [] cmd.kind = "resume"  -> pausing' = FALSE
    [] OTHER                -> reply' # "Error"

\* The daemon's side of the connection; what else it does for the requests is the
\* subject of other modules.
Serve ==
  /\ step = "wait" /\ served /\ reply = "none"
  /\ \/ IsRule(cmd) /\ Stored(input.exe, input.action) /\ reply' = "Ok" /\ UNCHANGED pausing
     \/ /\ cmd.kind = "remove" /\ UNCHANGED <<lastId, pausing>>
        /\ store' = {r \in store : r.id # cmd.target}
        /\ reply' = IF store' = store THEN "Error" ELSE "Ok"
     \/ /\ cmd.kind \in {"pause", "resume"} /\ pausing' = (cmd.kind = "pause")
        /\ reply' = "Ok" /\ UNCHANGED <<store, lastId>>
     \/ cmd.kind = "query" /\ reply' = "Data" /\ UNCHANGED <<store, lastId, pausing>>
     \/ cmd.kind = "watch" /\ reply' = "Event" /\ UNCHANGED <<store, lastId, pausing>>
  /\ done' = TakesEffect
  /\ UNCHANGED <<served, running, cmd, step, input, status, heard, commands, othersDone>>

\* Faulty variant of SimpleRequest: any answer is taken for Ok.
SimpleRequest_AnyAnswer ==
  /\ step = "wait" /\ cmd.kind \notin {"query", "watch"} /\ reply # "none"
  /\ Ends(IF reply = "lost" THEN "failure" ELSE "success") /\ Daemon

\* With --json the answer is printed, an Error like an Ok.
SimpleRequest ==
  /\ step = "wait" /\ cmd.kind \notin {"query", "watch"} /\ reply # "none"
  /\ Ends(IF reply = "Ok" \/ (cmd.json /\ reply # "lost") THEN "success" ELSE "failure")
  /\ Daemon

Query == /\ step = "wait" /\ cmd.kind = "query" /\ reply # "none"
         /\ Ends(IF reply = "lost" THEN "failure" ELSE "success") /\ Daemon

\* Events until the daemon closes the connection: that is no failure.
WatchEvent == /\ step = "wait" /\ cmd.kind = "watch" /\ reply = "Event" /\ reply' = "none"
              /\ UNCHANGED <<cmd, step, input, status, heard, done, commands>> /\ Daemon

WatchEnds == /\ step = "wait" /\ cmd.kind = "watch" /\ reply = "lost"
             /\ Ends("success") /\ Daemon

Prompt == /\ step = "exit" /\ step' = "shell"
          /\ UNCHANGED <<cmd, input, reply, status, heard, done, commands>> /\ Daemon

-----------------------------------------------------------------------------
CliNext ==
  \/ OtherClient \/ StopDaemon \/ StartDaemon \/ ProcessesChange
  \/ TypeCommand \/ ResolvePath \/ ResolveWhich \/ ResolveProcess \/ SendRequest \/ Serve
  \/ SimpleRequest \/ Query \/ WatchEvent \/ WatchEnds \/ Prompt

CliSpec == CliInit /\ [][CliNext]_cliVars

-----------------------------------------------------------------------------
(* Properties *)

\* PATH has the name as a link to a program.
ThroughLink ==
  /\ cmd.target \in Names /\ InPath(cmd.target) # <<>>
  /\ Head(InPath(cmd.target)) \in Links

\* The program that the user meant, as /proc/<pid>/exe will have it: the file of
\* the path, the file that the shell would run under the name, or the one that
\* the only process of that name runs.
IsMeant(exe) ==
  \/ cmd.target \in Paths /\ exe = Canon(cmd.target)
  \/ /\ cmd.target \in Names /\ InPath(cmd.target) # <<>>
     /\ exe = Canon(Head(InPath(cmd.target)))
  \/ /\ cmd.target \in Names /\ InPath(cmd.target) = <<>>
     /\ \E p \in DOMAIN heard :
          /\ heard[p] = [name |-> cmd.target, exe |-> exe]
          /\ \A q \in DOMAIN heard : heard[q].name = cmd.target => q = p

\* A script can go by the exit status (without --json): after a success the
\* store or the pause flag of the daemon has had what was asked, for the program
\* that was meant, and not on a guess among several processes, although the
\* daemon stops and starts and processes change under way.  A name that PATH has
\* as a link is judged by RuleNamesProgram (cli/src/main.rs:140-160, 171-218).
SuccessMeansDone ==
  step = "exit" /\ status = "success" /\ ~cmd.json
    => /\ done \/ cmd.kind = "watch"
       /\ IsRule(cmd) /\ ~ThroughLink => IsMeant(input.exe)

\* The rule of a name is about the executable: "Absolute path of the executable
\* this rule applies to" (core/src/types.rs:100), also if PATH has a link to it.
RuleNamesProgram ==
  step = "exit" /\ status = "success" /\ IsRule(cmd) => IsMeant(input.exe)
=============================================================================
