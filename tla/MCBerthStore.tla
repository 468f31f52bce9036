----------------------------- MODULE MCBerthStore -----------------------------
(***************************************************************************)
(* One session and two processes: an agent with a TUI that hosts it, or    *)
(* two agents; `pair` says which.  The store's maps are keyed by session   *)
(* and its handlers treat the sessions of a report independently, so a     *)
(* second session would add no behaviour of the first.  A report is fresh  *)
(* for two ticks (0, 1), stale at 2 and past the retention at 3.           *)
(***************************************************************************)
EXTENDS BerthStore

CONSTANTS w1, w2, h1

VARIABLE pair

MCVars == <<pair, vars>>

MCInit == Init /\ pair \in {{w1, h1}, {w1, w2}} /\ alive \subseteq pair

\* Only the agents of a pair of agents archive, to keep the run short.
MCNext == /\ Next /\ UNCHANGED pair
          /\ alive' \subseteq pair /\ (h1 \in pair => UNCHANGED quiet)

MCSpec == MCInit /\ [][MCNext]_MCVars /\ WF_vars(Tick) /\ WF_vars(Prune)
===============================================================================
