----------------------------- MODULE TurnCounter ------------------------------
(***************************************************************************)
(* What a script may rely on when it counts turns (`turns_started`,        *)
(* `turns_ended` of `list`, and `wait`, which compares them), whatever     *)
(* provider tracks the session: the counters move by one, with the level   *)
(* of the session, and are there as long as its row is.  HookSessions and  *)
(* BerthStore, which fold very different reports into them, implement it.  *)
(*                                                                         *)
(* Many sessions may move in one step: a plugin's report and the retention *)
(* name any number of them.                                                *)
(***************************************************************************)
EXTENDS Naturals, Maps

CONSTANT Session

VARIABLES
  shown,  \* sessions that have a row, listed or not
  count   \* session -> [started, ended, busy], for those that are counted

turnVars == <<shown, count>>

Count(started, ended, busy) == [started |-> started, ended |-> ended, busy |-> busy]

NoTurn == Count(0, 0, FALSE)

Begins(old, new) ==
  ~old.busy /\ new = Count(old.started + 1, old.ended, TRUE)

\* An end counts even if the start was missed, and it leaves the session at rest.
Ends(old, new) == new = Count(old.started, old.ended + 1, FALSE)

\* A session may stop working without the end of a turn: it was closed.
Lapses(old, new) ==
  old.busy /\ new = Count(old.started, old.ended, FALSE)

Moves(old, new) == new = old \/ Begins(old, new) \/ Ends(old, new) \/ Lapses(old, new)

\* Nothing is counted of a session before its row: the first report of it is
\* no end of a turn.
Appears(new) == new = NoTurn \/ Begins(NoTurn, new)

-------------------------------------------------------------------------------
Init == shown = {} /\ count = EmptyMap

Next ==
  /\ shown' \subseteq DOMAIN count' /\ DOMAIN count' \subseteq Session
  /\ \A s \in DOMAIN count \cap DOMAIN count' : Moves(count[s], count'[s])
  /\ \A s \in DOMAIN count' \ DOMAIN count : Appears(count'[s])

Spec == Init /\ [][Next]_turnVars
===============================================================================
