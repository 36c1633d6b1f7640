-------------------------- MODULE MCStoreAndSwitch --------------------------
(***************************************************************************)
(* Small instances, for TLC, of the rule store under fairness and of the   *)
(* pause switch with the nftables table.  Each behaviour is one of the     *)
(* part it begins with; the other rests in its initial state.              *)
(***************************************************************************)
EXTENDS RuleStore, Firewall, TLC

VARIABLE part

CONSTANTS c1, c2, e1

\* Rules for one tick, so that the reaper has work.
MCInputs == [exe : {e1}, action : {"Block"}, persistent : {FALSE}, ttl : {1}]
MCExes == {e1}

partsVars == <<part, vars, switchVars>>

PartsInit == part \in {"store", "switch"} /\ Init /\ SwitchInit

PartsNext ==
  /\ UNCHANGED part
  /\ \/ part = "store" /\ Next /\ UNCHANGED switchVars
     \/ part = "switch" /\ SwitchNext /\ UNCHANGED vars

\* The fairness of each component, in the behaviours of its part: a condition
\* of one stands with a condition of the other, so that TLC has half as many.
Step(store, switch) ==
  /\ UNCHANGED part
  /\ \/ part = "store" /\ store /\ UNCHANGED switchVars
     \/ part = "switch" /\ switch /\ UNCHANGED vars

Turn == <<c1, Reaper, Main>>

PartsAreFair ==
  /\ \A i \in TaskIds : /\ SF_partsVars(Step(Acquire(Turn[i]), Lock(i)))
                        /\ WF_partsVars(Step(Save(Turn[i]), Toggle(i)))
  /\ WF_partsVars(Step(Publish(c1), Answer(c1)))
  /\ WF_partsVars(Step(Publish(Reaper), Answer(c2)))
  /\ WF_partsVars(Step(Publish(Main), Install))
  /\ WF_partsVars(Step(BeginReap, Bind))
  /\ SF_partsVars(Step(FALSE, Take))
  /\ WF_partsVars(Step(FALSE, Teardown)) /\ WF_partsVars(Step(FALSE, ExitProcess))

PartsSpec == PartsInit /\ [][PartsNext]_partsVars /\ PartsAreFair
=============================================================================
