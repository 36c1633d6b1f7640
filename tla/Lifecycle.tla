----------------------------- MODULE Lifecycle -----------------------------
(***************************************************************************)
(* The life of travelmoded processes on one machine: what a start takes    *)
(* (nft table, queue, socket file), what a stop gives back, and what the   *)
(* next start, or a second daemon beside the first, makes of the rest.     *)
(* systemd starts the service again when it fails (travelmoded.service);   *)
(* other daemons are started by hand with the same socket path.            *)
(***************************************************************************)
EXTENDS Naturals

CONSTANTS Daemons, Service,  \* Service is the one that systemd runs
          Nobody,
          MaxFailures,       \* bound: steps that fail and deaths
          MaxRuns            \* bound: starts of all daemons

\* Nobody stands for the absence of a daemon.
ASSUME NobodyIsNoDaemon == Nobody \notin Daemons
ASSUME ServiceIsADaemon == Service \in Daemons

VARIABLES table,    \* the nft table is installed
          queue,    \* the daemon that has bound the NFQUEUE
          sock,     \* the daemon that listens on the file at the socket path, or
          stale,    \* ... the file is there and its listener is gone
          pc,       \* where each process is
          last,     \* how it ended the last time
          fw,       \* state.firewall is Some
          thread,   \* the queue worker thread
          active,   \* state.filtering_active
          company,  \* another daemon has lived at the same time as this one
          kept,     \* ghost: what this one has failed to remove: the table, the socket file
          fails, runs

kernel == <<table, queue, sock, stale>>
lifeVars == <<kernel, pc, last, fw, thread, active, company, kept, fails, runs>>

Alive(d) == pc[d] # "off"
Goto(d, l) == pc' = [pc EXCEPT ![d] = l]
Fault == fails < MaxFailures /\ fails' = fails + 1

LifeInit ==
  /\ table = FALSE /\ queue = Nobody /\ sock = Nobody /\ stale = FALSE
  /\ pc = [d \in Daemons |-> "off"] /\ last = [d \in Daemons |-> "clean"]
  /\ fw = [d \in Daemons |-> FALSE] /\ thread = [d \in Daemons |-> "none"]
  /\ active = [d \in Daemons |-> FALSE] /\ company = [d \in Daemons |-> FALSE]
  /\ kept = [d \in Daemons |-> {}] /\ fails = 0 /\ runs = 0

-----------------------------------------------------------------------------
(* Start *)

Started(d) ==
  /\ ~Alive(d) /\ Goto(d, "delete")
  /\ LET others == {o \in Daemons \ {d} : Alive(o)}
     IN company' = [o \in Daemons |-> IF o = d THEN others # {} ELSE company[o] \/ o \in others]
  /\ UNCHANGED <<kernel, last, fw, thread, active, kept, fails>>

StartByHand(d) == runs < MaxRuns /\ runs' = runs + 1 /\ Started(d)

\* Restart=on-failure.
StartAgain == last[Service] = "failed" /\ Started(Service) /\ UNCHANGED runs

Keeps(d, what) == kept' = [kept EXCEPT ![d] = @ \cup {what}]
Clears(d, what) == kept' = [kept EXCEPT ![d] = @ \ {what}]

\* The table of whoever installed one is deleted; if nft fails, it is not, and
\* the result is ignored.
DeleteStale(d) ==
  /\ pc[d] = "delete" /\ Goto(d, "install")
  /\ \/ table' = FALSE /\ kept' = [kept EXCEPT ![d] = {}] /\ UNCHANGED fails
     \/ table /\ Fault /\ kept' = [kept EXCEPT ![d] = {"table"}] /\ UNCHANGED table
  /\ UNCHANGED <<queue, sock, stale, last, fw, thread, active, company, runs>>

\* Without a table (not root, no nft) the daemon runs, without a worker.
Install(d) ==
  /\ pc[d] = "install" /\ Goto(d, "unlink")
  /\ \/ /\ table' = TRUE /\ fw' = [fw EXCEPT ![d] = TRUE] /\ Clears(d, "table")
        /\ thread' = [thread EXCEPT ![d] = "opening"] /\ UNCHANGED fails
     \/ Fault /\ UNCHANGED <<table, fw, kept, thread>>
  /\ UNCHANGED <<queue, sock, stale, last, active, company, runs>>

\* The worker thread: one process can bind the queue.
BindQueue(d) ==
  /\ thread[d] = "opening" /\ Alive(d)
  /\ IF queue = Nobody
     THEN /\ queue' = d /\ thread' = [thread EXCEPT ![d] = "bound"]
          /\ active' = [active EXCEPT ![d] = TRUE]
     ELSE /\ thread' = [thread EXCEPT ![d] = "refused"]
          /\ active' = [active EXCEPT ![d] = FALSE] /\ UNCHANGED queue
  /\ UNCHANGED <<table, sock, stale, pc, last, fw, company, kept, fails, runs>>

\* bind, recv or a verdict fails: the thread ends and drops the queue.
WorkerFails(d) ==
  /\ thread[d] \in {"opening", "bound"} /\ Alive(d) /\ Fault
  /\ queue' = (IF queue = d THEN Nobody ELSE queue) /\ thread' = [thread EXCEPT ![d] = "failed"]
  /\ active' = [active EXCEPT ![d] = FALSE]
  /\ UNCHANGED <<table, sock, stale, pc, last, fw, company, kept, runs>>

\* Faulty variant of RemoveStale: a file that is there is left alone.
RemoveStale_Keeps(d) ==
  /\ pc[d] = "unlink" /\ Goto(d, "listen")
  /\ UNCHANGED <<kernel, last, fw, thread, active, company, kept, fails, runs>>

\* The file goes, whoever listens on it; a failure ends the start.
RemoveStale(d) ==
  /\ pc[d] = "unlink"
  /\ \/ Goto(d, "listen") /\ sock' = Nobody /\ stale' = FALSE /\ UNCHANGED fails
     \/ Goto(d, "giving up") /\ Fault /\ UNCHANGED <<sock, stale>>
  /\ UNCHANGED <<table, queue, last, fw, thread, active, company, kept, runs>>

\* bind needs the path to be free; without a socket the daemon shuts down.
Listen(d) ==
  /\ pc[d] = "listen"
  /\ \/ /\ sock = Nobody /\ ~stale /\ sock' = d /\ Goto(d, "serving") /\ UNCHANGED fails
     \/ /\ \/ sock # Nobody /\ UNCHANGED fails
           \/ stale /\ UNCHANGED fails
           \/ Fault
        /\ Goto(d, "giving up") /\ UNCHANGED sock
  /\ UNCHANGED <<table, queue, stale, last, fw, thread, active, company, kept, runs>>

-----------------------------------------------------------------------------
(* Stop *)

Signal(d) ==
  /\ pc[d] = "serving" /\ Goto(d, "stopping")
  /\ UNCHANGED <<kernel, last, fw, thread, active, company, kept, fails, runs>>

\* nft deletes the table, or fails, which is logged.
Teardown(d) ==
  /\ pc[d] \in {"stopping", "giving up"}
  /\ Goto(d, IF pc[d] = "stopping" THEN "unsocket" ELSE "exit 1")
  /\ fw' = [fw EXCEPT ![d] = FALSE]
  /\ \/ ~fw[d] /\ UNCHANGED <<table, kept, fails>>
     \/ fw[d] /\ table' = FALSE /\ Clears(d, "table") /\ UNCHANGED fails
     \/ fw[d] /\ table /\ Fault /\ Keeps(d, "table") /\ UNCHANGED table
  /\ UNCHANGED <<queue, sock, stale, last, thread, active, company, runs>>

\* Faulty variant of Unsocket: the file stays.
Unsocket_Keeps(d) ==
  /\ pc[d] = "unsocket" /\ Goto(d, "exit 0")
  /\ UNCHANGED <<kernel, last, fw, thread, active, company, kept, fails, runs>>

\* remove_file goes by the path: it may be the socket of another daemon by now.
\* A failure is logged.
Unsocket(d) ==
  /\ pc[d] = "unsocket" /\ Goto(d, "exit 0")
  /\ \/ sock' = Nobody /\ stale' = FALSE /\ Clears(d, "socket") /\ UNCHANGED fails
     \/ /\ sock # Nobody \/ stale
        /\ Fault /\ Keeps(d, "socket") /\ UNCHANGED <<sock, stale>>
  /\ UNCHANGED <<table, queue, last, fw, thread, active, company, runs>>

\* The end of a process: the kernel takes back its queue and its listener.
Gone(d, how) ==
  /\ Goto(d, "off") /\ last' = [last EXCEPT ![d] = how]
  /\ queue' = IF queue = d THEN Nobody ELSE queue
  /\ sock' = IF sock = d THEN Nobody ELSE sock
  /\ stale' = (stale \/ sock = d)
  /\ fw' = [fw EXCEPT ![d] = FALSE] /\ thread' = [thread EXCEPT ![d] = "none"]
  /\ active' = [active EXCEPT ![d] = FALSE]
  /\ UNCHANGED <<table, company, kept, runs>>

\* Faulty variant of Exit: main returns, and the process waits for the thread
\* that is parked in recv.
Exit_Returns(d) ==
  /\ pc[d] \in {"exit 0", "exit 1"}
  /\ Goto(d, "off") /\ last' = [last EXCEPT ![d] = "clean"]
  /\ UNCHANGED <<kernel, fw, thread, active, company, kept, fails, runs>>

\* The rules are saved, then process::exit ends the parked worker as well.
Exit(d) ==
  /\ pc[d] \in {"exit 0", "exit 1"}
  /\ Gone(d, IF pc[d] = "exit 0" THEN "clean" ELSE "failed") /\ UNCHANGED fails

Die(d) == Alive(d) /\ Fault /\ Gone(d, "failed")

-----------------------------------------------------------------------------
Runs(d) == \/ DeleteStale(d) \/ Install(d) \/ RemoveStale(d) \/ Listen(d)
           \/ Teardown(d) \/ Unsocket(d) \/ Exit(d)

LifeNext ==
  \/ StartAgain
  \/ \E d \in Daemons : StartByHand(d) \/ Runs(d) \/ BindQueue(d)
                        \/ Signal(d) \/ WorkerFails(d) \/ Die(d)

\* A live process and its threads run, and systemd restarts; nobody has to start
\* a daemon, to stop one, or to let a step fail.
LifeSpec == /\ LifeInit /\ [][LifeNext]_lifeVars
            /\ WF_lifeVars(StartAgain)
            /\ \A d \in Daemons : WF_lifeVars(Runs(d)) /\ WF_lifeVars(BindQueue(d))

-----------------------------------------------------------------------------
(* Properties *)

\* A daemon that has been the only one since it started is in control, whatever
\* earlier daemons, crashes and overlaps have left: clients reach it, its table
\* is the one in the kernel, and the queue is not kept from it (main.rs:62-68,
\* 93-112; ipc.rs:31-35; firewall.rs:34-37).
AloneIsInControl ==
  \A d \in Daemons : Alive(d) /\ ~company[d] =>
    /\ pc[d] = "serving" => sock = d
    /\ fw[d] => table
    /\ thread[d] # "refused"
    /\ active[d] => queue = d

\* A daemon that was alone and stopped in good order leaves nothing behind but
\* what nft or remove_file has failed to remove in its own life, and did not get
\* rid of later; its exit status does not tell (main.rs:115-128, firewall.rs:35,
\* 66-73).
StopLeavesOnlyWhatFailed ==
  [][\A d \in Daemons : pc[d] = "exit 0" /\ pc'[d] = "off" /\ ~company[d]
       => /\ (table' <=> "table" \in kept[d]) /\ queue' = Nobody
          /\ sock' = Nobody /\ (stale' <=> "socket" \in kept[d])]_lifeVars

\* After a death or a failed start the service is back, with or without the help
\* of the queue, and reachable unless another daemon took its socket over
\* (travelmoded.service; ipc.rs:31-35, main.rs:93-99).
ServiceComesBack == last[Service] = "failed" /\ ~Alive(Service) ~> pc[Service] = "serving"
=============================================================================
