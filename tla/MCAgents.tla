------------------------------- MODULE MCAgents -------------------------------
(***************************************************************************)
(* How the server learns of what agents do besides their hooks, checked in *)
(* one run: Claude's listings and the DeepSeek Harness plugin; and how     *)
(* there comes to be one server that learns it.  They share no state;      *)
(* `part` says which of them moves.                                        *)
(***************************************************************************)
EXTENDS ClaudeDiscovery, DshReporter, ServerStart, TLC

CONSTANTS c1, c2

VARIABLE part

MCPidOf   == c1 :> "p1" @@ c2 :> "p2"
MCTurns   == c1 :> 9 @@ c2 :> 9
MCBudgets == {c1 :> 4 @@ c2 :> 0, c1 :> 0 @@ c2 :> 4, c1 :> 2 @@ c2 :> 1}

vars == <<part, discoveryVars, dshVars, startVars>>

AgentsInit ==
  /\ part \in {"claude", "dsh", "start"}
  /\ DiscoveryInit /\ DshInit /\ StartInit
  /\ part # "claude" => left = CHOOSE b \in MCBudgets : TRUE
  /\ part # "dsh" => shelved = {} /\ \A d \in DshSession : ~dsh[d].open

AgentsNext ==
  /\ UNCHANGED part
  /\ \/ part = "claude" /\ DiscoveryNext /\ UNCHANGED <<dshVars, startVars>>
     \/ part = "dsh" /\ DshNext /\ UNCHANGED <<discoveryVars, startVars>>
     \/ part = "start" /\ StartNext /\ UNCHANGED <<discoveryVars, dshVars>>

\* DiscoveryFairness, DshFairness and StartFairness, of the part that moves.
Claude(action) == part = "claude" /\ action
Dsh(action)    == part = "dsh" /\ action
Starts(action) == part = "start" /\ action

Fairness ==
  /\ WF_discoveryVars(Claude(DiscoverFirst)) /\ WF_discoveryVars(Claude(Discover))
  /\ SF_discoveryVars(Claude(Read)) /\ SF_discoveryVars(Claude(Store))
  /\ SF_dshVars(Dsh(Flush(shelved)))
  /\ \A d \in DshSession : SF_dshVars(Dsh(DeliverOne(d)))
  /\ \A p \in Process : WF_startVars(Starts(Serves(p)))
  /\ WF_startVars(Starts(UnitStarts)) /\ \A c \in Client : WF_startVars(Starts(UseFile(c)))

AgentsSpec == AgentsInit /\ [][AgentsNext]_vars /\ Fairness
===============================================================================
