---------------------------- MODULE WaitTurnProofs ----------------------------
(***************************************************************************)
(* What `wait` may say, for any sessions, processes and bounds.            *)
(***************************************************************************)
EXTENDS WaitTurn, HookSessionsProofs

Tracked == target \in DOMAIN sessions
Ended   == sessions[target].ended

\* A counter past the baseline was moved there by a Stop, even if the row was
\* dropped in between, for a row begins at zero; and while the row is kept the
\* counter never falls behind.  Before a new session's first report there is
\* nothing to tell.
CounterInv ==
  /\ phase \in Armed /\ Tracked /\ Ended > baseline => turned
  /\ phase \in Armed /\ Tracked /\ kept => /\ Ended >= baseline
                                           /\ turned => Ended > baseline
  /\ phase \in Armed /\ ~Tracked /\ kept => baseline = 0 /\ ~turned

ScriptType ==
  /\ alive \subseteq Pid /\ target \in Sid /\ phase \in Phase
  /\ baseline \in Nat /\ turned \in BOOLEAN /\ kept \in BOOLEAN

WaitInv == HookInv /\ ScriptType /\ CounterInv /\ DoneIsATurn

-------------------------------------------------------------------------------
(***************************************************************************)
(* The hooks and the counter of the session they name.                     *)
(***************************************************************************)

\* A tracked row's counter moves with a Stop that ends the turn and with
\* nothing else; a new row's counter is zero.
LEMMA EndedByStops ==
  ASSUME NEW e \in Event, HookInv, Report(e), e.sid \in DOMAIN sessions'
  PROVE  sessions'[e.sid].ended =
           IF e.sid \notin DOMAIN sessions THEN 0
           ELSE IF EndsTurn(e) THEN sessions[e.sid].ended + 1
           ELSE sessions[e.sid].ended
<1> DEFINE row == Apply(RowOf(sessions, e.sid), e)
<1>1. e.sid \in Sid
  BY EventType
<1>2. Good(sessions) /\ IsBucket(sessions)
  BY DEF HookInv, Good
<1>3. CASE IgnoreLate(e)
  BY <1>3 DEF IgnoreLate
<1>4. row.ended = IF e.sid \notin DOMAIN sessions
                    THEN (IF EndsTurn(e) THEN 1 ELSE 0)
                  ELSE IF EndsTurn(e) THEN sessions[e.sid].ended + 1
                  ELSE sessions[e.sid].ended
  BY DEF Apply, RowOf, FreshRow
<1> HIDE DEF row
<1>5. CASE TrackRoot(e)
  <2> DEFINE next == Put(sessions, e.sid, row)
  <2>1. next[e.sid] = row
    BY DEF Put
  <2>2. sessions' \in {next, PruneIdle(next, e.sid, row.source, row.pid)}
    BY <1>5 DEF TrackRoot, row
  <2>3. PruneIdle(next, e.sid, row.source, row.pid)[e.sid] = next[e.sid]
    <3>1. e.sid \in DOMAIN next \ Prunable(next, e.sid, row.source, row.pid)
      BY DEF Prunable, Put
    <3>2. QED
      BY <3>1 DEF PruneIdle, Without, Restrict
  <2>4. e.sid \notin DOMAIN sessions => ~EndsTurn(e)
    BY <1>5 DEF TrackRoot, OpensRow
  <2> HIDE DEF next
  <2>5. QED
    BY <1>4, <2>1, <2>2, <2>3, <2>4
<1>6. CASE TrackChild(e)
  <2>1. sessions' \in {Without(sessions, {e.sid}), Put(sessions, e.sid, row)}
    BY <1>6 DEF TrackChild, row
  <2>2. DOMAIN Without(sessions, {e.sid}) = DOMAIN sessions \ {e.sid}
    BY <1>2, WithoutMap
  <2>3. sessions'[e.sid] = row
    BY <2>1, <2>2 DEF Put
  <2>4. e.sid \notin DOMAIN sessions => ~EndsTurn(e)
    BY <1>6 DEF TrackChild, OpensRow
  <2>5. QED
    BY <1>4, <2>3, <2>4
<1>7. CASE e.sid \notin DOMAIN sessions /\ (StartSession(e) \/ EndSession(e) \/ StopChild(e) \/ Touch(e))
  <2>1. \A S : e.sid \notin DOMAIN Without(sessions, S)
    BY <1>7 DEF Without, Restrict
  <2>2. CASE StartSession(e)
    <3>1. sessions' = Without(sessions, Prunable(sessions, e.sid, e.source,
                                          OrElse(e.pid, RowOf(sessions, e.sid).pid)))
      BY <1>7, <2>2 DEF StartSession, PruneIdle
    <3>2. QED
      BY <2>1, <3>1
  <2>3. CASE EndSession(e)
    <3>1. sessions' = Without(sessions, {e.sid} \cup Subagents(e.sid))
      BY <1>7, <2>3 DEF EndSession
    <3>2. QED
      BY <2>1, <3>1
  <2>4. CASE StopChild(e)
    BY <2>1, <2>4 DEF StopChild
  <2>5. CASE Touch(e)
    BY <1>7, <2>5 DEF Touch
  <2>6. QED
    BY <1>7, <2>2, <2>3, <2>4, <2>5
<1>8. CASE e.sid \in DOMAIN sessions /\ (StartSession(e) \/ EndSession(e) \/ StopChild(e) \/ Touch(e))
  <2>1. ~EndsTurn(e)
    BY <1>8, HookConstants DEF StartSession, EndSession, StopChild, Touch, EndsTurn
  <2>2. DOMAIN Without(sessions, {e.sid}) = DOMAIN sessions \ {e.sid}
    BY <1>2, WithoutMap
  <2>3. \A b, r : Put(b, e.sid, r)[e.sid] = r
    BY DEF Put
  <2>4. sessions[e.sid] \in Row
    BY <1>2, <1>8 DEF IsBucket
  <2>5. CASE StartSession(e)
    <3> DEFINE r == [sessions[e.sid] EXCEPT !.pid = OrElse(e.pid, RowOf(sessions, e.sid).pid),
                                            !.exited = FALSE]
    <3>1. r.ended = sessions[e.sid].ended
      BY <2>4 DEF Row
    <3>2. PICK b : sessions' = Put(b, e.sid, r)
      BY <1>8, <2>5 DEF StartSession
    <3> HIDE DEF r
    <3>3. QED
      BY <1>8, <2>1, <2>3, <3>1, <3>2
  <2>6. CASE EndSession(e)
    <3> DEFINE r == [sessions[e.sid] EXCEPT !.status = "done", !.exited = TRUE,
                                            !.pid = OrElse(e.pid, sessions[e.sid].pid)]
    <3>1. r.ended = sessions[e.sid].ended
      BY <2>4 DEF Row
    <3>2. \/ sessions' = Put(Without(sessions, {e.sid} \cup Subagents(e.sid)), e.sid, r)
          \/ sessions' = Without(sessions, {e.sid} \cup Subagents(e.sid))
      BY <1>8, <2>6 DEF EndSession
    <3>3. e.sid \notin DOMAIN Without(sessions, {e.sid} \cup Subagents(e.sid))
      BY DEF Without, Restrict
    <3> HIDE DEF r
    <3>4. QED
      BY <1>8, <2>1, <2>3, <3>1, <3>2, <3>3
  <2>7. CASE StopChild(e)
    BY <2>2, <2>7 DEF StopChild
  <2>8. CASE Touch(e)
    <3> DEFINE r == [sessions[e.sid] EXCEPT !.pid = OrElse(e.pid, sessions[e.sid].pid),
                                            !.exited = FALSE]
    <3>1. r.ended = sessions[e.sid].ended
      BY <2>4 DEF Row
    <3>2. sessions' = Put(sessions, e.sid, r)
      BY <1>8, <2>8 DEF Touch
    <3> HIDE DEF r
    <3>3. QED
      BY <1>8, <2>1, <2>3, <3>1, <3>2
  <2>9. QED
    BY <1>8, <2>5, <2>6, <2>7, <2>8
<1>9. QED
  BY <1>3, <1>5, <1>6, <1>7, <1>8 DEF Report

-------------------------------------------------------------------------------
(***************************************************************************)
(* The steps of the script and of what runs beside it.                     *)
(***************************************************************************)

\* A baseline is taken from the row as it is, or is zero when there is none.
LEMMA ArmStep ==
  ASSUME WaitInv, NEW n \in Nat, NEW p \in Armed, Arm(n, p),
         IF Tracked THEN n = Ended ELSE n = 0
  PROVE  WaitInv'
<1>1. /\ sessions' = sessions /\ alive' = alive /\ target' = target
      /\ phase' = p /\ baseline' = n /\ turned' = FALSE /\ kept' = TRUE
  BY DEF Arm
<1>2. HookInv'
  BY <1>1 DEF WaitInv, HookInv
<1>3. ScriptType'
  BY <1>1 DEF WaitInv, ScriptType, Armed, Phase
<1>4. Tracked => Ended \in Nat
  BY DEF WaitInv, HookInv, Good, IsBucket, Row, Tracked, Ended
<1>5. CounterInv'
  BY <1>1, <1>4 DEF CounterInv, Tracked, Ended
<1>6. DoneIsATurn'
  BY <1>1 DEF DoneIsATurn, Armed
<1>7. QED
  BY <1>2, <1>3, <1>5, <1>6 DEF WaitInv

\* A poll that says done has seen the counter past the baseline.
LEMMA PollStep ==
  ASSUME WaitInv, Poll
  PROVE  WaitInv'
<1>1. /\ phase = "polling" /\ phase' = Verdict(target, baseline) /\ phase' # "none"
      /\ UNCHANGED <<sessions, alive, target, baseline, turned, kept>>
  BY DEF Poll
<1>2. Verdict(target, baseline) \in {"gone", "done", "waiting", "none"}
  BY DEF Verdict
<1>3. Verdict(target, baseline) = "done" => Tracked /\ Ended > baseline
  BY DEF Verdict, TurnEnded, Tracked, Ended
<1>4. HookInv'
  BY <1>1 DEF WaitInv, HookInv
<1>5. ScriptType'
  BY <1>1, <1>2 DEF WaitInv, ScriptType, Phase, Outcome
<1>6. CounterInv'
  BY <1>1, <1>2 DEF CounterInv, Armed
<1>7. DoneIsATurn'
  BY <1>1, <1>3 DEF WaitInv, CounterInv, DoneIsATurn, Armed
<1>8. QED
  BY <1>4, <1>5, <1>6, <1>7 DEF WaitInv

\* The script's other steps change nothing the counter tells.
LEMMA PhaseStep ==
  ASSUME WaitInv, WaitAfter \/ Timeout \/ Return
  PROVE  WaitInv'
<1>1. HookInv'
  BY DEF WaitInv, HookInv, WaitAfter, Timeout, Return
<1>2. ScriptType'
  <2>1. /\ alive' = alive /\ target' = target /\ phase' \in {"polling", "timeout", "off"}
        /\ baseline' \in {baseline, 0} /\ turned' \in {turned, FALSE} /\ kept' \in {kept, TRUE}
    BY DEF WaitAfter, Timeout, Return
  <2>2. ScriptType
    BY DEF WaitInv
  <2>3. baseline' \in Nat /\ phase' \in Phase
    BY <2>1, <2>2 DEF ScriptType, Phase, Outcome
  <2>4. turned' \in BOOLEAN /\ kept' \in BOOLEAN
    BY <2>1, <2>2, Zenon DEF ScriptType
  <2>5. QED
    BY <2>1, <2>2, <2>3, <2>4 DEF ScriptType
<1>3. CounterInv'
  BY DEF WaitInv, CounterInv, Tracked, Ended, Armed, Outcome, WaitAfter, Timeout, Return
<1>4. DoneIsATurn'
  BY DEF DoneIsATurn, WaitAfter, Timeout, Return
<1>5. QED
  BY <1>1, <1>2, <1>3, <1>4 DEF WaitInv

\* A hook moves the counter of the session it names, and the history with it.
LEMMA HookStep ==
  ASSUME WaitInv, NEW e \in Event, Hook(e)
  PROVE  WaitInv'
<1> DEFINE heard == phase \in Armed /\ e.sid = target /\ EndsTurn(e) /\ Tracked
<1>1. /\ Report(e) /\ Bystander /\ Watched /\ alive' = alive
      /\ turned' \in BOOLEAN
      /\ turned' <=> turned \/ heard
  BY DEF Hook, Tracked
<1>2. /\ phase \notin Outcome
      /\ target' = target /\ phase' = phase /\ baseline' = baseline
      /\ kept' = (kept /\ (phase \in Armed /\ Tracked => Tracked'))
  BY <1>1 DEF Bystander, Watched, Tracked
<1>3. HookInv /\ HookInv'
  <2>1. HookInv /\ Next
    BY <1>1 DEF WaitInv, Next
  <2>2. QED
    BY <2>1, StepInv
<1>4. Untouched(e.sid)
  BY <1>1, <1>3, ReportStep DEF StepOf
<1>5. ScriptType'
  BY <1>1, <1>2 DEF WaitInv, ScriptType, Watched
<1>6. DoneIsATurn'
  BY <1>2 DEF DoneIsATurn, Outcome
<1>7. Tracked' => Ended' = IF ~Tracked THEN 0
                          ELSE IF e.sid = target /\ EndsTurn(e) THEN Ended + 1 ELSE Ended
  <2>1. CASE e.sid = target
    BY <1>1, <1>2, <1>3, <2>1, EndedByStops DEF Tracked, Ended
  <2>2. CASE e.sid # target
    BY <1>2, <1>4, <2>2 DEF Untouched, Tracked, Ended
  <2>3. QED
    BY <2>1, <2>2
<1>8. Tracked => Ended \in Nat
  BY <1>3 DEF HookInv, Good, IsBucket, Row, Tracked, Ended
<1>9. baseline \in Nat /\ turned \in BOOLEAN /\ kept \in BOOLEAN
  BY DEF WaitInv, ScriptType
<1>10. CounterInv'
  <2>1. CounterInv
    BY DEF WaitInv
  <2>2. kept' => kept /\ (phase \in Armed /\ Tracked => Tracked')
    BY <1>2
  <2>3. Tracked' /\ Tracked => Ended' = IF e.sid = target /\ EndsTurn(e) THEN Ended + 1 ELSE Ended
    BY <1>7
  <2>4. Tracked' /\ ~Tracked => Ended' = 0 /\ ~heard
    BY <1>7
  <2>5. /\ phase \in Armed /\ Tracked => (heard <=> e.sid = target /\ EndsTurn(e))
        /\ ~Tracked => ~heard
    OBVIOUS
  <2> HIDE DEF heard
  <2>6. phase' \in Armed /\ Tracked' /\ Ended' > baseline' => turned'
    BY <1>1, <1>2, <1>8, <1>9, <2>1, <2>3, <2>4, <2>5 DEF CounterInv
  <2>7. phase' \in Armed /\ Tracked' /\ kept' => /\ Ended' >= baseline'
                                                 /\ turned' => Ended' > baseline'
    BY <1>1, <1>2, <1>8, <1>9, <2>1, <2>2, <2>3, <2>4, <2>5 DEF CounterInv
  <2>8. phase' \in Armed /\ ~Tracked' /\ kept' => baseline' = 0 /\ ~turned'
    <3>1. SUFFICES ASSUME phase' \in Armed, ~Tracked', kept'
                   PROVE  baseline' = 0 /\ ~turned'
      OBVIOUS
    <3>2. phase \in Armed /\ ~Tracked /\ kept
      BY <1>2, <2>2, <3>1
    <3>3. baseline = 0 /\ ~turned /\ ~heard
      BY <2>1, <2>5, <3>2 DEF CounterInv
    <3>4. QED
      BY <1>1, <1>2, <3>3
  <2>9. QED
    BY <2>6, <2>7, <2>8 DEF CounterInv
<1>11. QED
  BY <1>3, <1>5, <1>6, <1>10 DEF WaitInv

\* Retention may drop the row, which the history notes.
LEMMA RetireStep ==
  ASSUME WaitInv, NEW s \in Sid, Retire(s)
  PROVE  WaitInv'
<1>1. /\ sessions' = Without(sessions, {s}) /\ Bystander /\ Watched
      /\ alive' = alive /\ turned' = turned
  BY DEF Retire
<1>2. /\ phase \notin Outcome
      /\ target' = target /\ phase' = phase /\ baseline' = baseline
      /\ kept' = (kept /\ (phase \in Armed /\ Tracked => Tracked'))
  BY <1>1 DEF Bystander, Watched, Tracked
<1>3. HookInv' /\ IsBucket(sessions)
  BY <1>1, WithoutGood DEF WaitInv, HookInv, Good
<1>4. (Tracked' => Tracked) /\ (Tracked' => Ended' = Ended)
  <2>1. /\ DOMAIN sessions' = DOMAIN sessions \ {s}
        /\ \A t \in DOMAIN sessions \ {s} : sessions'[t] = sessions[t]
    BY <1>1, <1>3, WithoutMap
  <2>2. QED
    BY <1>2, <2>1 DEF Tracked, Ended
<1>5. ScriptType'
  BY <1>1, <1>2 DEF WaitInv, ScriptType, Watched
<1>6. CounterInv'
  BY <1>1, <1>2, <1>4 DEF WaitInv, CounterInv
<1>7. DoneIsATurn'
  BY <1>2 DEF DoneIsATurn, Outcome
<1>8. QED
  BY <1>3, <1>5, <1>6, <1>7 DEF WaitInv

\* Processes come and go beside the script.
LEMMA ProcessStep ==
  ASSUME WaitInv, NEW p \in Pid, Fork(p) \/ Die(p)
  PROVE  WaitInv'
<1>1. /\ UNCHANGED <<sessions, target, phase, baseline, turned, kept>>
      /\ alive' \subseteq Pid
  BY DEF WaitInv, ScriptType, Fork, Die, Bystander
<1>2. QED
  BY <1>1 DEF WaitInv, HookInv, ScriptType, CounterInv, Tracked, Ended, DoneIsATurn

LEMMA WaitNextStep ==
  ASSUME WaitInv, WaitNext
  PROVE  WaitInv'
<1>1. Tracked => Ended \in Nat
  BY DEF WaitInv, HookInv, Good, IsBucket, Row, Tracked, Ended
<1>2. CASE Send
  BY <1>1, <1>2, ArmStep DEF Send, Tracked, Ended
<1>3. CASE New
  BY <1>3, ArmStep DEF New, Tracked, Armed
<1>4. CASE WaitNow
  BY <1>1, <1>4, ArmStep DEF WaitNow, Tracked, Ended, Armed
<1>5. CASE Poll
  BY <1>5, PollStep
<1>6. CASE WaitAfter \/ Timeout \/ Return
  BY <1>6, PhaseStep
<1>7. CASE \E e \in Event : Hook(e)
  BY <1>7, HookStep
<1>8. CASE \E s \in Sid : Retire(s)
  BY <1>8, RetireStep
<1>9. CASE \E p \in Pid : Fork(p) \/ Die(p)
  BY <1>9, ProcessStep
<1>10. QED
  BY <1>2, <1>3, <1>4, <1>5, <1>6, <1>7, <1>8, <1>9 DEF WaitNext

-------------------------------------------------------------------------------
(***************************************************************************)
(* The theorems.                                                           *)
(***************************************************************************)

LEMMA WaitInitInv == WaitInit => WaitInv
<1>1. WaitInit => HookInv
  BY InitInv DEF WaitInit
<1>2. WaitInit => ScriptType
  <2>1. WaitInit => /\ alive \subseteq Pid /\ target \in Sid /\ phase \in Phase
                    /\ baseline \in Nat
    BY DEF WaitInit, Phase
  <2>2. WaitInit => turned \in BOOLEAN /\ kept \in BOOLEAN
    BY Zenon DEF WaitInit
  <2>3. QED
    BY <2>1, <2>2 DEF ScriptType
<1>3. WaitInit => CounterInv /\ DoneIsATurn
  BY DEF WaitInit, CounterInv, DoneIsATurn, Armed
<1>4. QED
  BY <1>1, <1>2, <1>3 DEF WaitInv

LEMMA WaitStepInv == WaitInv /\ [WaitNext]_vars => WaitInv'
<1>1. ASSUME WaitInv, WaitNext PROVE WaitInv'
  BY <1>1, WaitNextStep
<1>2. ASSUME WaitInv, UNCHANGED vars PROVE WaitInv'
  BY <1>2 DEF WaitInv, HookInv, ScriptType, CounterInv, Tracked, Ended, DoneIsATurn, vars, script
<1>3. QED
  BY <1>1, <1>2

\* The counter and the history agree in every reachable state.
THEOREM WaitInvariant == WaitSpec => []WaitInv
  BY WaitInitInv, WaitStepInv, PTL DEF WaitSpec

\* The script's state is well typed.
THEOREM WaitTypeCorrect == WaitSpec => []WaitTypeOK
<1>1. WaitInv => WaitTypeOK
  BY DEF WaitInv, HookInv, Good, ScriptType, WaitTypeOK, TypeOK
<1>2. QED
  BY <1>1, WaitInvariant, PTL

\* wait.rs: `done` is said only of a session that ended a turn.
THEOREM DoneIsAlwaysATurn == WaitSpec => []DoneIsATurn
<1>1. WaitInv => DoneIsATurn
  BY DEF WaitInv
<1>2. QED
  BY <1>1, WaitInvariant, PTL

\* The counter a poll compares says exactly whether a turn ended.
THEOREM CounterAlwaysTells == WaitSpec => []CounterTellsTurns
<1>1. WaitInv => CounterTellsTurns
  BY DEF WaitInv, ScriptType, CounterInv, CounterTellsTurns, Tracked, Ended
<1>2. QED
  BY <1>1, WaitInvariant, PTL

\* A poll gives up on a session only if no turn ended or a new one runs.
THEOREM NoTurnIsEverMissed == WaitSpec => NoTurnIsMissed
<1> DEFINE Missed == /\ phase = "polling" /\ phase' \in {"gone", "timeout"} /\ kept
                     /\ target \in DOMAIN sessions /\ turned
           Fair   == Missed => sessions[target].status \in Busy
<1>1. ASSUME WaitInv, WaitNext, Missed PROVE sessions[target].status \in Busy
  <2>1. sessions[target].ended > baseline
    BY <1>1 DEF WaitInv, CounterInv, Tracked, Ended, Armed
  <2>2. Poll \/ Timeout
    BY <1>1 DEF WaitNext, Send, New, WaitNow, WaitAfter, Return, Arm, Armed, Outcome,
                Hook, Retire, Fork, Die, Bystander
  <2>3. Verdict(target, baseline) \in {"gone", "none"}
    BY <1>1, <2>2 DEF Poll, Timeout, Verdict
  <2>4. ~TurnEnded(target, baseline)
    BY <1>1, <2>3 DEF Verdict
  <2>5. QED
    BY <2>1, <2>4 DEF TurnEnded
<1>2. WaitInv /\ [WaitNext]_vars => [Fair]_vars
  BY <1>1
<1>3. QED
  BY <1>2, WaitInvariant, PTL DEF WaitSpec, NoTurnIsMissed
===============================================================================
