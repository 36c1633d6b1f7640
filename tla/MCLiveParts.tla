---------------------------- MODULE MCLiveParts ----------------------------
(***************************************************************************)
(* Small instances, for TLC, of three components with liveness of their    *)
(* own: packets and kills, the daemons' lives, the GUI's.  Each behaviour  *)
(* is one of the part it begins with; the others rest in an initial state, *)
(* the GUI without a daemon.                                               *)
(***************************************************************************)
EXTENDS Enforcement, Lifecycle, GuiClient, TLC

VARIABLE part

CONSTANTS f1, f2, e1, c1, d1

\* A TCP and a UDP flow of one executable.
MCFlows == {f1, f2}
MCExes == {e1}
MCTcp == {f1}
MCOwners == f1 :> e1 @@ f2 :> e1
MCNoMates == f1 :> {} @@ f2 :> {}

MCDaemons == {d1, Service}

partsVars == <<part, vars, lifeVars, guiVars>>

PartsInit ==
  /\ part \in {"traffic", "life", "gui"}
  /\ Init /\ (part # "traffic" => blocked = {})
  /\ LifeInit
  /\ GuiInit /\ (up <=> part = "gui") /\ (part # "gui" => rule = NoRule)

PartsNext ==
  /\ UNCHANGED part
  /\ \/ part = "traffic" /\ Next /\ UNCHANGED <<lifeVars, guiVars>>
     \/ part = "life" /\ LifeNext /\ UNCHANGED <<vars, guiVars>>
     \/ part = "gui" /\ GuiNext /\ UNCHANGED <<vars, lifeVars>>

\* The fairness of each component, in the behaviours of its part.
TrafficIsFair ==
  /\ WF_vars(part = "traffic" /\ StartStep) /\ WF_vars(part = "traffic" /\ WorkerStep)
  /\ WF_vars(part = "traffic" /\ PollStep) /\ WF_vars(part = "traffic" /\ ToggleChain)
  /\ \A k \in Killers : WF_vars(part = "traffic" /\ KillStep(k))

LifeIsFair ==
  /\ WF_lifeVars(part = "life" /\ StartAgain)
  /\ \A d \in Daemons : /\ WF_lifeVars(part = "life" /\ Runs(d))
                        /\ WF_lifeVars(part = "life" /\ BindQueue(d))

GuiIsFair ==
  /\ WF_guiVars(part = "gui" /\ Session) /\ SF_guiVars(part = "gui" /\ TakeCmd)
  /\ WF_guiVars(part = "gui" /\ Update) /\ WF_guiVars(part = "gui" /\ Tick)

PartsSpec == /\ PartsInit /\ [][PartsNext]_partsVars
             /\ TrafficIsFair /\ LifeIsFair /\ GuiIsFair
=============================================================================
