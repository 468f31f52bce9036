------------------------------ MODULE MCSessions ------------------------------
(***************************************************************************)
(* What agents say of themselves as they go, and what commands make of it, *)
(* checked in one run: hooks, the events that the OpenCode 2 plugin sees,  *)
(* the reader of a log, the turns of one, and the pane commands.  They     *)
(* share no state; `part` says which of them moves.                        *)
(*                                                                         *)
(* Hooks: two sessions that may share a process, the first of which runs a *)
(* subagent and has a second turn, so that it may come back after its end. *)
(* OpenCode 2: any two of three sessions; events of the third would be     *)
(* those of one more stranger to each of them.  Logs: a frame that cannot  *)
(* be decoded is a malformed row where there are no frames, and written    *)
(* there as one.                                                           *)
(***************************************************************************)
EXTENDS HookSessions, OpencodeReporter, LogReader, ConversationTurns, PaneCommands, TLC

CONSTANTS r1, r2, c1, m1, m2

VARIABLE part

MCParentOf == c1 :> r1
MCMaxTurns == r1 :> 2 @@ r2 :> 1 @@ c1 :> 1
MCShape == {[key |-> m1, size |-> 1], [key |-> m2, size |-> 2], [key |-> m1, size |-> 3],
            [key |-> Bad, size |-> 1], [key |-> Marker, size |-> 1], [key |-> Corrupt, size |-> 1]}

TwoOfThem == \E o \in OcSession : oc[o].state = "none"
Framed == compressed \/ \A i \in DOMAIN log.blocks : log.blocks[i].key # Corrupt

vars == <<part, sessions, ocVars, logVars, turnsVars, paneVars>>

MCInit ==
  /\ part \in {"hooks", "opencode", "log", "turns", "panes"}
  /\ Init /\ OcInit /\ TwoOfThem /\ LogInit /\ TurnsInit /\ PaneInit
  /\ part # "opencode" => \A o \in OcSession : oc[o].state # "alive"
  /\ part # "log" => ~compressed
  /\ part # "turns" => harness = "claude"

MCNext ==
  /\ UNCHANGED part
  /\ \/ part = "hooks" /\ Next /\ UNCHANGED <<ocVars, logVars, turnsVars, paneVars>>
     \/ /\ part = "opencode" /\ OcNext /\ TwoOfThem'
        /\ UNCHANGED <<sessions, logVars, turnsVars, paneVars>>
     \/ /\ part = "log" /\ LogNext /\ Framed'
        /\ UNCHANGED <<sessions, ocVars, turnsVars, paneVars>>
     \/ part = "turns" /\ TurnsNext /\ UNCHANGED <<sessions, ocVars, logVars, paneVars>>
     \/ part = "panes" /\ PaneNext /\ UNCHANGED <<sessions, ocVars, logVars, turnsVars>>

MCSpec == MCInit /\ [][MCNext]_vars
===============================================================================
