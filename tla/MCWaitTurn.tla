------------------------------ MODULE MCWaitTurn ------------------------------
(***************************************************************************)
(* A script and two sessions that may share one process.  Subagents are    *)
(* left to MCSessions: `wait` treats them as sessions that left.  The     *)
(* sessions are alike, so the script works with the first.                 *)
(***************************************************************************)
EXTENDS WaitTurn, TLC

CONSTANTS r1, r2

MCParentOf == <<>>
MCMaxTurns == r1 :> 2 @@ r2 :> 1
MCInit == WaitInit /\ target = r1
MCSpec == MCInit /\ [][WaitNext]_vars /\ WF_vars(Poll)
===============================================================================
