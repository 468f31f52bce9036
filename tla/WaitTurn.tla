------------------------------- MODULE WaitTurn -------------------------------
(***************************************************************************)
(* A script that delegates to a hook session and waits for its answer:     *)
(* `send`, `new` or `wait` takes a baseline from the session's turns_ended *)
(* counter, and `wait` then polls the server's stored listing until a turn *)
(* ended past the baseline, the session blocks, or it goes away.           *)
(*                                                                         *)
(* The server is HookSessions: its hooks interleave with the polls, and so *)
(* do the deaths of agent processes and the server's retention, which      *)
(* forgets the rows of dead processes.                                     *)
(***************************************************************************)
EXTENDS HookSessions

VARIABLES
  alive,     \* the processes that run (process::pid_alive)
  target,    \* the session the script works with
  phase,     \* what the script is doing
  baseline,  \* the turns_ended it compares against
  turned,    \* history: a Stop of target reached its row after the baseline
  kept       \* history: the server never dropped target's row after the baseline

Outcome == {"done", "waiting", "gone", "timeout"}
Phase   == {"off", "sent", "polling"} \cup Outcome
Armed   == {"sent", "polling"}

script == <<target, phase, baseline, turned, kept>>
vars   == <<sessions, alive, script>>

-------------------------------------------------------------------------------
(***************************************************************************)
(* What a listed row says.                                                 *)
(***************************************************************************)
Active(s) ==
  LET row == sessions[s]
  IN  /\ ~row.exited /\ s \in Root
      /\ row.status \in Busy \/ row.pid \in alive \/ row.source = "desktop"

\* Mutants: off by one, either way.
TurnEndedEarly(s, n) == sessions[s].ended >= n /\ sessions[s].status \notin Busy
TurnEndedLate(s, n)  == sessions[s].ended > n + 1 /\ sessions[s].status \notin Busy

TurnEnded(s, n) == sessions[s].ended > n /\ sessions[s].status \notin Busy

\* Mutant: an exited session is gone, whatever its last turn left to read.
VerdictExitedFirst(s, n) ==
  CASE s \notin DOMAIN sessions -> "gone"
    [] s \in DOMAIN sessions /\ ~Active(s) -> "gone"
    [] s \in DOMAIN sessions /\ Active(s) /\ TurnEnded(s, n) -> "done"
    [] s \in DOMAIN sessions /\ Active(s) /\ sessions[s].status = "waiting" -> "waiting"
    [] OTHER -> "none"

\* check: the first of these that holds settles a poll.
Verdict(s, n) ==
  CASE s \notin DOMAIN sessions -> "gone"
    [] s \in DOMAIN sessions /\ TurnEnded(s, n) -> "done"
    [] s \in DOMAIN sessions /\ ~TurnEnded(s, n) /\ ~Active(s) -> "gone"
    [] s \in DOMAIN sessions /\ Active(s) /\ sessions[s].status = "waiting" -> "waiting"
    [] OTHER -> "none"

-------------------------------------------------------------------------------
WaitInit ==
  /\ Init
  /\ alive \in SUBSET Pid
  /\ target \in Sid
  /\ phase = "off" /\ baseline = 0
  /\ turned = FALSE /\ kept = TRUE

Arm(n, p) == /\ phase = "off"
             /\ phase' = p
             /\ baseline' = n
             /\ turned' = FALSE /\ kept' = TRUE
             /\ UNCHANGED <<sessions, alive, target>>

\* `send` reads the counter of an active session, delivers the message, and
\* prints the count for a later `wait --after`, or with --wait polls at once.
Send == /\ target \in DOMAIN sessions /\ Active(target)
        /\ \E p \in Armed : Arm(sessions[target].ended, p)

\* `new` starts an agent the server has not heard of: --after 0.
New == target \in Root \ DOMAIN sessions /\ Arm(0, "sent")

\* `wait` without --after takes the count of the stored row as it is.
WaitNow == target \in DOMAIN sessions /\ Arm(sessions[target].ended, "polling")

\* `wait --after N` wants a stored row to begin with (pick::by_id).
WaitAfter ==
  /\ phase = "sent" /\ target \in DOMAIN sessions
  /\ phase' = "polling"
  /\ UNCHANGED <<sessions, alive, target, baseline, turned, kept>>

Poll ==
  /\ phase = "polling" /\ Verdict(target, baseline) # "none"
  /\ phase' = Verdict(target, baseline)
  /\ UNCHANGED <<sessions, alive, target, baseline, turned, kept>>

\* The deadline is looked at only after a poll that settled nothing.
Timeout ==
  /\ phase = "polling" /\ Verdict(target, baseline) = "none"
  /\ phase' = "timeout"
  /\ UNCHANGED <<sessions, alive, target, baseline, turned, kept>>

Return ==
  /\ phase \in Outcome
  /\ phase' = "off" /\ baseline' = 0 /\ turned' = FALSE /\ kept' = TRUE
  /\ UNCHANGED <<sessions, alive, target>>

-------------------------------------------------------------------------------
\* The script does not move while the server works; the history notes what
\* happened to its session.
\* What happens between an outcome and the end of the script does not matter to
\* it: Return comes first.
Bystander == phase \notin Outcome /\ UNCHANGED <<target, phase, baseline>>

Watched == kept' = (kept /\ (phase \in Armed /\ target \in DOMAIN sessions
                               => target \in DOMAIN sessions'))

Hook(e) ==
  /\ Report(e)
  /\ Bystander /\ Watched
  /\ turned' = (turned \/ /\ phase \in Armed /\ e.sid = target
                          /\ EndsTurn(e) /\ target \in DOMAIN sessions)
  /\ UNCHANGED alive

\* Store::prune, on start and on every heartbeat: a row goes once its process
\* is dead and its last report older than the retention.  Ages are left open.
Retire(s) ==
  /\ s \in DOMAIN sessions /\ sessions[s].pid \notin alive
  /\ sessions' = Without(sessions, {s})
  /\ Bystander /\ Watched
  /\ UNCHANGED <<alive, turned>>

\* An agent starts, or dies without a SessionEnd hook; ids are reused.
Fork(p) == /\ p \notin alive /\ alive' = alive \cup {p}
           /\ Bystander /\ UNCHANGED <<sessions, turned, kept>>
Die(p)  == /\ p \in alive /\ alive' = alive \ {p}
           /\ Bystander /\ UNCHANGED <<sessions, turned, kept>>

WaitNext ==
  \/ Send \/ New \/ WaitNow \/ WaitAfter \/ Poll \/ Timeout \/ Return
  \/ \E e \in Event : Hook(e)
  \/ \E s \in Sid : Retire(s)
  \/ \E p \in Pid : Fork(p) \/ Die(p)

\* The poll loop runs every 500 ms as long as the script lives.  The deadline
\* may be far: nothing is assumed of it.
WaitSpec == WaitInit /\ [][WaitNext]_vars /\ WF_vars(Poll)

-------------------------------------------------------------------------------
WaitTypeOK ==
  /\ TypeOK
  /\ alive \subseteq Pid /\ target \in Sid /\ phase \in Phase
  /\ baseline \in Nat /\ turned \in BOOLEAN /\ kept \in BOOLEAN

\* `wait` says done only when a Stop of the session was heard after the
\* baseline, even if the row was dropped and began counting anew meanwhile.
DoneIsATurn == phase = "done" => turned

\* As long as the server keeps the row, the counter says exactly whether a turn
\* ended since the baseline: neither a short turn between two polls, nor a
\* lost start, nor the end of the session makes a poller miss one.
CounterTellsTurns ==
  phase \in Armed /\ kept /\ target \in DOMAIN sessions
    => (turned <=> sessions[target].ended > baseline)

\* A poll gives up on a session (gone, timeout) only if no turn of it ended
\* since the baseline, or a new one runs.
NoTurnIsMissed ==
  [][phase = "polling" /\ phase' \in {"gone", "timeout"} /\ kept
       /\ target \in DOMAIN sessions /\ turned
     => sessions[target].status \in Busy]_vars

\* The end of a turn is reported unless the session becomes busy again or its
\* row is dropped first.
EndedTurnIsReported ==
  phase = "polling" /\ turned /\ kept
    ~> \/ phase # "polling" \/ ~kept
       \/ target \in DOMAIN sessions /\ sessions[target].status \in Busy

\* README.md:316: the counters of a session never go back below one a caller
\* has read.
CountsAreMonotonic ==
  phase \in Armed /\ target \in DOMAIN sessions
    => sessions[target].ended >= baseline

\* wait.rs:90-91: a dead session wins over a stale waiting level that no
\* process will ever answer.
DeadWinsOverWaiting ==
  [][phase = "polling" /\ phase' = "waiting"
     => sessions[target].pid \in alive \cup {NoPid}]_vars
===============================================================================
