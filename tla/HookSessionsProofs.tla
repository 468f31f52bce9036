-------------------------- MODULE HookSessionsProofs --------------------------
(***************************************************************************)
(* What holds of a hook bucket for any sessions, subagents, processes and  *)
(* any bound: the type invariant, the three state invariants of            *)
(* HookSessions, and its two action properties.                            *)
(***************************************************************************)
EXTENDS HookSessions, TLAPS

\* The row-level invariant: each conjunct speaks of one row, so it is enough to
\* show it of every row a step writes.
GoodRow(s, row) ==
  /\ s \in Child => row.status \in Busy
  /\ row.exited => row.status = "done"
  /\ row.status \in Busy => row.started > 0

Good(b) == /\ IsBucket(b)
           /\ \A s \in DOMAIN b : GoodRow(s, b[s])

HookInv == Good(sessions)

-------------------------------------------------------------------------------
(***************************************************************************)
(* The map operators.                                                      *)
(***************************************************************************)

\* Dropping keys keeps the other rows as they were.
LEMMA WithoutMap ==
  ASSUME NEW b, NEW S, IsBucket(b)
  PROVE  /\ IsBucket(Without(b, S))
         /\ DOMAIN Without(b, S) = DOMAIN b \ S
         /\ \A t \in DOMAIN b \ S : Without(b, S)[t] = b[t]
  BY DEF IsBucket, Without, Restrict

\* Dropping keys of a good bucket leaves a good bucket.
LEMMA WithoutGood ==
  ASSUME NEW b, NEW S, Good(b)
  PROVE  Good(Without(b, S))
<1>1. IsBucket(b) /\ \A s \in DOMAIN b : GoodRow(s, b[s])
  BY DEF Good
<1>2. /\ IsBucket(Without(b, S))
      /\ DOMAIN Without(b, S) = DOMAIN b \ S
      /\ \A t \in DOMAIN b \ S : Without(b, S)[t] = b[t]
  BY <1>1, WithoutMap
<1>3. QED
  BY <1>1, <1>2 DEF Good

\* Writing a row changes that key alone.
LEMMA PutMap ==
  ASSUME NEW b, NEW s \in Sid, NEW row \in Row, IsBucket(b)
  PROVE  /\ IsBucket(Put(b, s, row))
         /\ DOMAIN Put(b, s, row) = DOMAIN b \cup {s}
         /\ Put(b, s, row)[s] = row
         /\ \A t \in DOMAIN b \ {s} : Put(b, s, row)[t] = b[t]
  BY DEF IsBucket, Put

\* Writing a good row in a good bucket leaves a good bucket.
LEMMA PutGood ==
  ASSUME NEW b, NEW s \in Sid, NEW row \in Row, Good(b), GoodRow(s, row)
  PROVE  Good(Put(b, s, row))
<1>1. IsBucket(b) /\ \A t \in DOMAIN b : GoodRow(t, b[t])
  BY DEF Good
<1>2. /\ IsBucket(Put(b, s, row))
      /\ DOMAIN Put(b, s, row) = DOMAIN b \cup {s}
      /\ Put(b, s, row)[s] = row
      /\ \A t \in DOMAIN b \ {s} : Put(b, s, row)[t] = b[t]
  BY <1>1, PutMap
<1>3. SUFFICES ASSUME NEW t \in DOMAIN b \cup {s}
               PROVE  GoodRow(t, Put(b, s, row)[t])
  BY <1>2 DEF Good
<1>4. CASE t = s
  BY <1>2, <1>4
<1>5. CASE t \in DOMAIN b \ {s}
  BY <1>1, <1>2, <1>5
<1>6. QED
  BY <1>4, <1>5

\* The row an event starts from, new or tracked, satisfies the row invariant but
\* for being idle when new.
LEMMA RowOfGood ==
  ASSUME NEW b, NEW s \in Sid, Good(b)
  PROVE  /\ RowOf(b, s) \in Row
         /\ RowOf(b, s).status \in Busy => RowOf(b, s).started > 0
<1>1. CASE s \in DOMAIN b
  <2>1. RowOf(b, s) = b[s] /\ b[s] \in Row /\ GoodRow(s, b[s])
    BY <1>1 DEF RowOf, Good, IsBucket
  <2>2. QED
    BY <2>1 DEF GoodRow
<1>2. CASE s \notin DOMAIN b
  BY <1>2 DEF RowOf, FreshRow, Row, Status, Source, MaybePid, Busy
<1>3. QED
  BY <1>1, <1>2

\* What the levels are, for the provers.
LEMMA StatusType ==
  ASSUME NEW s \in Status, NEW e \in Event
  PROVE  StatusAfter(s, e) \in Status
  BY DEF StatusAfter, Status, Busy, Event

\* A tracked event writes a well-typed row that is not exited, with its turn
\* counted: the ledger of one row.
LEMMA ApplyRow ==
  ASSUME NEW row \in Row, NEW e \in Event, e.kind \in TrackKind
  PROVE  /\ Apply(row, e) \in Row
         /\ ~Apply(row, e).exited
         /\ Apply(row, e).started =
              IF row.status \notin Busy /\ Apply(row, e).status \in Busy
                THEN row.started + 1 ELSE row.started
         /\ Apply(row, e).ended \in {row.ended, row.ended + 1}
         /\ Apply(row, e).ended # row.ended => Apply(row, e).status = "done"
         /\ row.status \in Busy /\ Apply(row, e).status \notin Busy
              => Apply(row, e).ended = row.ended + 1
         /\ Apply(row, e).status = "idle"
              => row.status = "idle" /\ e.kind = "ToolComplete"
<1>1. StatusAfter(row.status, e) \in Status
  BY StatusType DEF Row
<1>2. row.started \in Nat /\ row.ended \in Nat /\ row.pid \in MaybePid
      /\ e.pid \in MaybePid /\ e.source \in Source
  BY DEF Row, Event
<1>3. Apply(row, e) \in Row
  BY <1>1, <1>2 DEF Apply, Row, OrElse
<1>4. EndsTurn(e) => StatusAfter(row.status, e) = "done"
  BY DEF EndsTurn, StatusAfter
<1>5. row.status \in Busy /\ StatusAfter(row.status, e) \notin Busy => EndsTurn(e)
  BY DEF EndsTurn, StatusAfter, Busy, TrackKind
<1>6. StatusAfter(row.status, e) = "idle"
        => row.status = "idle" /\ e.kind = "ToolComplete"
  BY DEF StatusAfter, TrackKind, Busy
<1>7. QED
  BY <1>2, <1>3, <1>4, <1>5, <1>6 DEF Apply, Busy

\* Pruning only drops rows, never a busy one nor the session that reports.
LEMMA PruneMap ==
  ASSUME NEW b, NEW keep, NEW source, NEW pid, Good(b)
  PROVE  LET p == PruneIdle(b, keep, source, pid)
         IN  /\ Good(p)
             /\ DOMAIN p \subseteq DOMAIN b
             /\ \A t \in DOMAIN p : p[t] = b[t]
             /\ \A t \in DOMAIN b : b[t].status \in Busy \/ t = keep => t \in DOMAIN p
<1> DEFINE S == Prunable(b, keep, source, pid)
<1>1. Good(Without(b, S))
  BY WithoutGood
<1>2. IsBucket(b)
  BY DEF Good
<1>3. /\ DOMAIN Without(b, S) = DOMAIN b \ S
      /\ \A t \in DOMAIN b \ S : Without(b, S)[t] = b[t]
  BY <1>2, WithoutMap
<1>4. \A t \in S : b[t].status \notin Busy /\ t # keep
  BY DEF Prunable
<1>5. QED
  BY <1>1, <1>3, <1>4 DEF PruneIdle

-------------------------------------------------------------------------------
(***************************************************************************)
(* The steps.  Frame(A, s) says what a step did but for the row it is      *)
(* about: it may have dropped rows, and left the others as they were.      *)
(***************************************************************************)
Untouched(s) ==
  \A t \in DOMAIN sessions' \ {s} : t \in DOMAIN sessions /\ sessions'[t] = sessions[t]

BusyKept(s) ==
  \A t \in (DOMAIN sessions \cap Root) \ {s} :
    sessions[t].status \in Busy => t \in DOMAIN sessions'

LedgerOf(old, new) ==
  /\ new.started = IF old.status \notin Busy /\ new.status \in Busy
                     THEN old.started + 1 ELSE old.started
  /\ new.ended \in {old.ended, old.ended + 1}
  /\ new.ended # old.ended => new.status = "done"
  /\ old.status \in Busy /\ new.status \notin Busy
       => new.ended = old.ended + 1 \/ new.exited

\* What every step of the bucket guarantees, and what the theorems need of it.
StepOf(e) ==
  /\ HookInv'
  /\ Untouched(e.sid)
  /\ BusyKept(e.sid)
  /\ e.sid \in DOMAIN sessions /\ e.sid \in Root
       => e.sid \in DOMAIN sessions' \/ Forgets(e.sid)
  /\ e.sid \in DOMAIN sessions /\ e.sid \in DOMAIN sessions'
       => LedgerOf(sessions[e.sid], sessions'[e.sid])

LEMMA EventType ==
  ASSUME NEW e \in Event
  PROVE  /\ e.sid \in Sid /\ e.source \in Source /\ e.pid \in MaybePid
         /\ e.kind \in EndNames \cup {"SessionStart"} => e.sid \in Root
         /\ e.kind = "SubagentStop" => e.sid \in Child
  BY HookConstants DEF Event, RootKind, ChildKind, TrackKind, Sid

\* A row that is left alone satisfies the ledger.
LEMMA LedgerRefl ==
  ASSUME NEW row \in Row
  PROVE  LedgerOf(row, row)
  BY DEF LedgerOf, Row

LEMMA IgnoreLateStep ==
  ASSUME NEW e \in Event, HookInv, IgnoreLate(e)
  PROVE  StepOf(e)
<1>1. sessions' = sessions /\ e.sid \notin DOMAIN sessions
  BY DEF IgnoreLate
<1>2. QED
  BY <1>1 DEF StepOf, HookInv, Untouched, BusyKept

\* The row a tracked event writes is a good one, for the session itself.
LEMMA TrackedRow ==
  ASSUME NEW e \in Event, HookInv, e.kind \in TrackKind
  PROVE  LET row == Apply(RowOf(sessions, e.sid), e)
         IN  /\ row \in Row
             /\ ~row.exited
             /\ row.status \in Busy => row.started > 0
             /\ e.sid \in DOMAIN sessions => LedgerOf(sessions[e.sid], row)
<1> DEFINE old == RowOf(sessions, e.sid)
           row == Apply(old, e)
<1>1. e.sid \in Sid
  BY EventType
<1>2. old \in Row /\ (old.status \in Busy => old.started > 0)
  BY <1>1, RowOfGood DEF HookInv
<1> HIDE DEF old
<1>3. /\ row \in Row
      /\ ~row.exited
      /\ row.started = IF old.status \notin Busy /\ row.status \in Busy
                         THEN old.started + 1 ELSE old.started
      /\ row.ended \in {old.ended, old.ended + 1}
      /\ row.ended # old.ended => row.status = "done"
      /\ old.status \in Busy /\ row.status \notin Busy => row.ended = old.ended + 1
  BY <1>2, ApplyRow
<1> HIDE DEF row
<1>4. LedgerOf(old, row)
  BY <1>3 DEF LedgerOf
<1>5. old.started \in Nat
  BY <1>2 DEF Row
<1>6. row.status \in Busy => row.started > 0
  BY <1>2, <1>3, <1>5
<1>7. e.sid \in DOMAIN sessions => old = sessions[e.sid]
  BY DEF old, RowOf
<1>8. QED
  BY <1>3, <1>4, <1>6, <1>7 DEF row, old

LEMMA TrackRootStep ==
  ASSUME NEW e \in Event, HookInv, TrackRoot(e)
  PROVE  StepOf(e)
<1> DEFINE row  == Apply(RowOf(sessions, e.sid), e)
           next == Put(sessions, e.sid, row)
<1>1. e.sid \in Sid /\ e.sid \notin Child /\ e.kind \in TrackKind
  BY HookConstants, EventType DEF TrackRoot
<1>2. /\ row \in Row
      /\ ~row.exited
      /\ row.status \in Busy => row.started > 0
      /\ e.sid \in DOMAIN sessions => LedgerOf(sessions[e.sid], row)
  BY <1>1, TrackedRow
<1>3. sessions' \in {next, PruneIdle(next, e.sid, row.source, row.pid)}
  BY DEF TrackRoot
<1> HIDE DEF row
<1>4. GoodRow(e.sid, row)
  BY <1>1, <1>2 DEF GoodRow
<1>5. Good(sessions) /\ IsBucket(sessions)
  BY DEF HookInv, Good
<1>6. Good(next)
  BY <1>1, <1>2, <1>4, <1>5, PutGood
<1>7. /\ DOMAIN next = DOMAIN sessions \cup {e.sid}
      /\ next[e.sid] = row
      /\ \A t \in DOMAIN sessions \ {e.sid} : next[t] = sessions[t]
  BY <1>5 DEF IsBucket, Put
<1> HIDE DEF next
<1>8. /\ Good(sessions')
      /\ DOMAIN sessions' \subseteq DOMAIN next
      /\ \A t \in DOMAIN sessions' : sessions'[t] = next[t]
      /\ \A t \in DOMAIN next :
           next[t].status \in Busy \/ t = e.sid => t \in DOMAIN sessions'
  <2>1. CASE sessions' = next
    BY <1>6, <2>1
  <2>2. CASE sessions' = PruneIdle(next, e.sid, row.source, row.pid)
    BY <1>6, <2>2, PruneMap
  <2>3. QED
    BY <1>3, <2>1, <2>2
<1>9. QED
  BY <1>2, <1>7, <1>8 DEF StepOf, HookInv, Untouched, BusyKept

LEMMA TrackChildStep ==
  ASSUME NEW e \in Event, HookInv, TrackChild(e)
  PROVE  StepOf(e)
<1> DEFINE old == RowOf(sessions, e.sid)
           row == Apply(old, e)
<1>1. e.sid \in Sid /\ e.sid \notin Root /\ e.kind \in TrackKind
  BY HookConstants, EventType DEF TrackChild
<1>2. /\ row \in Row
      /\ ~row.exited
      /\ row.status \in Busy => row.started > 0
      /\ e.sid \in DOMAIN sessions => LedgerOf(sessions[e.sid], row)
  BY <1>1, TrackedRow
<1>3. Good(sessions) /\ IsBucket(sessions)
  BY DEF HookInv, Good
<1>4. old \in Row
  BY <1>1, <1>3, RowOfGood
<1>5. row.status # "idle"
  <2>1. row.status = "idle" => old.status = "idle" /\ e.kind = "ToolComplete"
    BY <1>1, <1>4, ApplyRow
  <2>2. e.kind = "ToolComplete" => e.sid \in DOMAIN sessions
    BY DEF TrackChild, OpensRow
  <2>3. e.sid \in DOMAIN sessions => old.status \in Busy
    BY <1>3 DEF RowOf, Good, GoodRow, TrackChild
  <2>4. QED
    BY <2>1, <2>2, <2>3 DEF Busy
<1>6. CASE row.status = "done"
  <2>1. sessions' = Without(sessions, {e.sid})
    BY <1>6 DEF TrackChild
  <2>2. /\ Good(sessions')
        /\ DOMAIN sessions' = DOMAIN sessions \ {e.sid}
        /\ \A t \in DOMAIN sessions \ {e.sid} : sessions'[t] = sessions[t]
    BY <1>3, <2>1, WithoutMap, WithoutGood
  <2>3. QED
    BY <1>1, <2>2 DEF StepOf, HookInv, Untouched, BusyKept
<1>7. CASE row.status # "done"
  <2>1. sessions' = Put(sessions, e.sid, row)
    BY <1>7 DEF TrackChild
  <2>2. row.status \in Busy
    BY <1>2, <1>5, <1>7 DEF Row, Status, Busy
  <2>3. GoodRow(e.sid, row)
    BY <1>2, <2>2 DEF GoodRow
  <2> HIDE DEF row
  <2>4. Good(sessions')
    BY <1>1, <1>2, <1>3, <2>1, <2>3, PutGood
  <2>5. /\ DOMAIN sessions' = DOMAIN sessions \cup {e.sid}
        /\ sessions'[e.sid] = row
        /\ \A t \in DOMAIN sessions \ {e.sid} : sessions'[t] = sessions[t]
    BY <1>3, <2>1 DEF IsBucket, Put
  <2>6. QED
    BY <1>2, <2>4, <2>5 DEF StepOf, HookInv, Untouched, BusyKept
<1>8. QED
  BY <1>6, <1>7

\* A row put back, with its counters and level kept or ended.
LEMMA StartSessionStep ==
  ASSUME NEW e \in Event, HookInv, StartSession(e)
  PROVE  StepOf(e)
<1> DEFINE pid    == OrElse(e.pid, RowOf(sessions, e.sid).pid)
           pruned == PruneIdle(sessions, e.sid, e.source, pid)
           row    == [sessions[e.sid] EXCEPT !.pid = pid, !.exited = FALSE]
<1>1. e.sid \in Sid /\ e.sid \notin Child /\ e.pid \in MaybePid
  BY HookConstants, EventType DEF StartSession
<1>2. Good(sessions) /\ IsBucket(sessions)
  BY DEF HookInv, Good
<1>3. pid \in MaybePid
  <2>1. RowOf(sessions, e.sid) \in Row
    BY <1>1, <1>2, RowOfGood
  <2>2. QED
    BY <1>1, <2>1 DEF Row, OrElse
<1>4. sessions' = IF e.sid \in DOMAIN sessions THEN Put(pruned, e.sid, row) ELSE pruned
  BY DEF StartSession
<1> HIDE DEF pid
<1>5. /\ Good(pruned)
      /\ DOMAIN pruned \subseteq DOMAIN sessions
      /\ \A t \in DOMAIN pruned : pruned[t] = sessions[t]
      /\ \A t \in DOMAIN sessions :
           sessions[t].status \in Busy \/ t = e.sid => t \in DOMAIN pruned
  BY <1>2, PruneMap
<1> HIDE DEF pruned
<1>6. CASE e.sid \notin DOMAIN sessions
  BY <1>4, <1>5, <1>6 DEF StepOf, HookInv, Untouched, BusyKept
<1>7. CASE e.sid \in DOMAIN sessions
  <2>1. sessions[e.sid] \in Row /\ GoodRow(e.sid, sessions[e.sid])
    BY <1>2, <1>7 DEF Good, IsBucket
  <2>2. row \in Row /\ GoodRow(e.sid, row) /\ LedgerOf(sessions[e.sid], row)
    BY <1>1, <1>3, <2>1 DEF Row, GoodRow, LedgerOf
  <2>3. sessions' = Put(pruned, e.sid, row) /\ IsBucket(pruned)
    BY <1>4, <1>5, <1>7 DEF Good
  <2> HIDE DEF row
  <2>4. Good(sessions')
    BY <1>1, <1>5, <2>2, <2>3, PutGood
  <2>5. /\ DOMAIN sessions' = DOMAIN pruned \cup {e.sid}
        /\ sessions'[e.sid] = row
        /\ \A t \in DOMAIN pruned \ {e.sid} : sessions'[t] = pruned[t]
    BY <2>3 DEF IsBucket, Put
  <2>6. QED
    BY <1>5, <2>2, <2>4, <2>5 DEF StepOf, HookInv, Untouched, BusyKept
<1>8. QED
  BY <1>6, <1>7

LEMMA EndSessionStep ==
  ASSUME NEW e \in Event, HookInv, EndSession(e)
  PROVE  StepOf(e)
<1> DEFINE gone == {e.sid} \cup Subagents(e.sid)
           rest == Without(sessions, gone)
           row  == [sessions[e.sid] EXCEPT !.status = "done", !.exited = TRUE,
                                           !.pid = OrElse(e.pid, sessions[e.sid].pid)]
<1>1. e.sid \in Sid /\ e.sid \notin Child /\ e.pid \in MaybePid
  BY HookConstants, EventType DEF EndSession
<1>2. Good(sessions) /\ IsBucket(sessions)
  BY DEF HookInv, Good
<1>3. /\ sessions' = IF e.kind = "SessionEnd" /\ e.sid \in DOMAIN sessions
                        THEN Put(rest, e.sid, row) ELSE rest
      /\ e.kind # "SessionEnd" => "session_end" \in EndNames
  BY HookConstants DEF EndSession
<1>4. gone \cap Root \subseteq {e.sid} /\ e.sid \in gone
  BY HookConstants DEF Subagents
<1>5. e.kind # "SessionEnd" => Forgets(e.sid)
  BY <1>3 DEF Forgets
<1> HIDE DEF gone
<1>6. /\ Good(rest)
      /\ DOMAIN rest = DOMAIN sessions \ gone
      /\ \A t \in DOMAIN sessions \ gone : rest[t] = sessions[t]
  BY <1>2, WithoutMap, WithoutGood
<1> HIDE DEF rest
<1>7. CASE ~(e.kind = "SessionEnd" /\ e.sid \in DOMAIN sessions)
  BY <1>3, <1>4, <1>5, <1>6, <1>7 DEF StepOf, HookInv, Untouched, BusyKept
<1>8. CASE e.kind = "SessionEnd" /\ e.sid \in DOMAIN sessions
  <2>1. sessions[e.sid] \in Row
    BY <1>2, <1>8 DEF IsBucket
  <2>2. row \in Row /\ GoodRow(e.sid, row) /\ LedgerOf(sessions[e.sid], row)
    BY <1>1, <2>1 DEF Row, Status, Busy, OrElse, GoodRow, LedgerOf
  <2>3. sessions' = Put(rest, e.sid, row) /\ IsBucket(rest)
    BY <1>3, <1>6, <1>8 DEF Good
  <2> HIDE DEF row
  <2>4. Good(sessions')
    BY <1>1, <1>6, <2>2, <2>3, PutGood
  <2>5. /\ DOMAIN sessions' = DOMAIN rest \cup {e.sid}
        /\ sessions'[e.sid] = row
        /\ \A t \in DOMAIN rest \ {e.sid} : sessions'[t] = rest[t]
    BY <2>3 DEF IsBucket, Put
  <2>6. QED
    BY <1>4, <1>6, <2>2, <2>4, <2>5 DEF StepOf, HookInv, Untouched, BusyKept
<1>9. QED
  BY <1>7, <1>8

LEMMA StopChildStep ==
  ASSUME NEW e \in Event, HookInv, StopChild(e)
  PROVE  StepOf(e)
<1>1. e.sid \notin Root
  BY HookConstants, EventType DEF StopChild
<1>2. Good(sessions) /\ IsBucket(sessions) /\ sessions' = Without(sessions, {e.sid})
  BY DEF HookInv, Good, StopChild
<1>3. /\ Good(sessions')
      /\ DOMAIN sessions' = DOMAIN sessions \ {e.sid}
      /\ \A t \in DOMAIN sessions \ {e.sid} : sessions'[t] = sessions[t]
  BY <1>2, WithoutMap, WithoutGood
<1>4. QED
  BY <1>1, <1>3 DEF StepOf, HookInv, Untouched, BusyKept

LEMMA TouchStep ==
  ASSUME NEW e \in Event, HookInv, Touch(e)
  PROVE  StepOf(e)
<1> DEFINE row == [sessions[e.sid] EXCEPT !.pid = OrElse(e.pid, sessions[e.sid].pid),
                                          !.exited = FALSE]
<1>1. e.sid \in Sid /\ e.pid \in MaybePid
  BY EventType
<1>2. Good(sessions) /\ IsBucket(sessions)
  BY DEF HookInv, Good
<1>3. CASE e.sid \notin DOMAIN sessions
  BY <1>2, <1>3 DEF Touch, StepOf, HookInv, Untouched, BusyKept
<1>4. CASE e.sid \in DOMAIN sessions
  <2>1. sessions[e.sid] \in Row /\ GoodRow(e.sid, sessions[e.sid])
    BY <1>2, <1>4 DEF Good, IsBucket
  <2>2. row \in Row /\ GoodRow(e.sid, row) /\ LedgerOf(sessions[e.sid], row)
    BY <1>1, <2>1 DEF Row, OrElse, GoodRow, LedgerOf
  <2>3. sessions' = Put(sessions, e.sid, row)
    BY <1>4 DEF Touch
  <2> HIDE DEF row
  <2>4. Good(sessions')
    BY <1>1, <1>2, <2>2, <2>3, PutGood
  <2>5. /\ DOMAIN sessions' = DOMAIN sessions \cup {e.sid}
        /\ sessions'[e.sid] = row
        /\ \A t \in DOMAIN sessions \ {e.sid} : sessions'[t] = sessions[t]
    BY <1>2, <2>3 DEF IsBucket, Put
  <2>6. QED
    BY <2>2, <2>4, <2>5 DEF StepOf, HookInv, Untouched, BusyKept
<1>5. QED
  BY <1>3, <1>4

LEMMA ReportStep ==
  ASSUME NEW e \in Event, HookInv, Report(e)
  PROVE  StepOf(e)
<1>1. CASE IgnoreLate(e)
  BY <1>1, IgnoreLateStep
<1>2. CASE TrackRoot(e)
  BY <1>2, TrackRootStep
<1>3. CASE TrackChild(e)
  BY <1>3, TrackChildStep
<1>4. CASE StartSession(e)
  BY <1>4, StartSessionStep
<1>5. CASE EndSession(e)
  BY <1>5, EndSessionStep
<1>6. CASE StopChild(e)
  BY <1>6, StopChildStep
<1>7. CASE Touch(e)
  BY <1>7, TouchStep
<1>8. QED
  BY <1>1, <1>2, <1>3, <1>4, <1>5, <1>6, <1>7 DEF Report

LEMMA NextStep ==
  ASSUME HookInv, Next
  PROVE  \E e \in Event : StepOf(e)
  BY ReportStep DEF Next

-------------------------------------------------------------------------------
(***************************************************************************)
(* The theorems.                                                           *)
(***************************************************************************)

LEMMA InitInv == Init => HookInv
  BY DEF Init, HookInv, Good, IsBucket, EmptyMap

LEMMA StepInv == HookInv /\ [Next]_sessions => HookInv'
<1>1. ASSUME HookInv, Next PROVE HookInv'
  BY <1>1, NextStep DEF StepOf
<1>2. ASSUME HookInv, UNCHANGED sessions PROVE HookInv'
  BY <1>2 DEF HookInv
<1>3. QED
  BY <1>1, <1>2

\* The bucket satisfies its row invariant in every reachable state.
THEOREM HookInvariant == Spec => []HookInv
  BY InitInv, StepInv, PTL DEF Spec

\* apply_event keeps the bucket well typed.
THEOREM TypeCorrect == Spec => []TypeOK
<1>1. HookInv => TypeOK
  BY DEF HookInv, Good, TypeOK
<1>2. QED
  BY <1>1, HookInvariant, PTL

\* A subagent is listed only while it works.
THEOREM SubagentsAlwaysBusy == Spec => []SubagentsAreBusy
<1>1. HookInv => SubagentsAreBusy
  BY DEF HookInv, Good, GoodRow, SubagentsAreBusy
<1>2. QED
  BY <1>1, HookInvariant, PTL

\* An exited session is done.
THEOREM ExitedAlwaysDone == Spec => []ExitedIsDone
<1>1. HookInv => ExitedIsDone
  BY DEF HookInv, Good, GoodRow, ExitedIsDone
<1>2. QED
  BY <1>1, HookInvariant, PTL

\* A busy session has counted the turn it is in.
THEOREM BusyTurnAlwaysCounted == Spec => []BusyTurnIsCounted
<1>1. HookInv => BusyTurnIsCounted
  BY DEF HookInv, Good, GoodRow, BusyTurnIsCounted
<1>2. QED
  BY <1>1, HookInvariant, PTL

\* No hook makes the server forget a busy session, but for an end of its own
\* that Store::update does not know.
THEOREM BusyRootsAlwaysSurvive == Spec => BusyRootsSurvive
<1> DEFINE Kept == \A s \in DOMAIN sessions \cap Root :
                     sessions[s].status \in Busy
                       => s \in DOMAIN sessions' \/ Forgets(s)
<1>1. ASSUME HookInv, Next PROVE Kept
  BY <1>1, NextStep DEF StepOf, BusyKept
<1>2. HookInv /\ [Next]_sessions => [Kept]_sessions
  BY <1>1
<1>3. QED
  BY <1>2, HookInvariant, PTL DEF Spec, BusyRootsSurvive

\* While a row stays, its counters account for every change of its level.
THEOREM TurnLedgerAlways == Spec => TurnLedger
<1> DEFINE Accounted == \A s \in DOMAIN sessions \cap DOMAIN sessions' :
                          LedgerOf(sessions[s], sessions'[s])
<1>1. ASSUME HookInv, Next PROVE Accounted
  <2>1. PICK e \in Event : StepOf(e)
    BY <1>1, NextStep
  <2>2. SUFFICES ASSUME NEW s \in DOMAIN sessions \cap DOMAIN sessions'
                 PROVE  LedgerOf(sessions[s], sessions'[s])
    OBVIOUS
  <2>3. CASE s = e.sid
    BY <2>1, <2>3 DEF StepOf
  <2>4. CASE s # e.sid
    <3>1. sessions'[s] = sessions[s]
      BY <2>1, <2>4 DEF StepOf, Untouched
    <3>2. sessions[s] \in Row
      BY <1>1 DEF HookInv, Good, IsBucket
    <3>3. QED
      BY <3>1, <3>2, LedgerRefl
  <2>5. QED
    BY <2>3, <2>4
<1>2. HookInv /\ [Next]_sessions => [Accounted]_sessions
  BY <1>1
<1>3. [][Accounted]_sessions => TurnLedger
  BY PTL DEF TurnLedger, LedgerOf
<1>4. QED
  BY <1>2, <1>3, HookInvariant, PTL DEF Spec
-------------------------------------------------------------------------------
(***************************************************************************)
(* The bucket implements the turn counter.                                 *)
(***************************************************************************)

\* What a row's ledger allows, TurnCounter does.
LEMMA LedgerMoves ==
  ASSUME NEW old \in Row, NEW new \in Row, LedgerOf(old, new)
  PROVE  Counter!Moves(CountOf(old), CountOf(new))
<1>1. /\ new.started = IF old.status \notin Busy /\ new.status \in Busy
                        THEN old.started + 1 ELSE old.started
      /\ new.ended \in {old.ended, old.ended + 1}
      /\ new.ended # old.ended => new.status \notin Busy
  BY DEF LedgerOf, Busy
<1>2. CASE new.ended # old.ended
  <2>1. /\ new.started = old.started /\ new.ended = old.ended + 1
        /\ (new.status \in Busy) = FALSE
    BY <1>1, <1>2
  <2>2. CountOf(new) = Counter!Count(CountOf(old).started, CountOf(old).ended + 1, FALSE)
    BY <2>1 DEF CountOf, Counter!Count
  <2>3. QED
    BY <2>2 DEF Counter!Moves, Counter!Ends
<1>3. CASE new.ended = old.ended /\ old.status \in Busy /\ new.status \notin Busy
  <2>1. /\ new.started = old.started
        /\ (new.status \in Busy) = FALSE
    BY <1>1, <1>3
  <2>2. CountOf(new) = Counter!Count(CountOf(old).started, CountOf(old).ended, FALSE)
    BY <1>3, <2>1 DEF CountOf, Counter!Count
  <2>3. CountOf(old).busy
    BY <1>3 DEF CountOf
  <2>4. QED
    BY <2>2, <2>3 DEF Counter!Moves, Counter!Lapses
<1>4. CASE new.ended = old.ended /\ old.status \notin Busy /\ new.status \in Busy
  <2>1. /\ new.started = old.started + 1
        /\ (new.status \in Busy) = TRUE
    BY <1>1, <1>4
  <2>2. CountOf(new) = Counter!Count(CountOf(old).started + 1, CountOf(old).ended, TRUE)
    BY <1>4, <2>1 DEF CountOf, Counter!Count
  <2>3. ~CountOf(old).busy
    BY <1>4 DEF CountOf
  <2>4. QED
    BY <2>2, <2>3 DEF Counter!Moves, Counter!Begins
<1>5. CASE new.ended = old.ended /\ (old.status \in Busy <=> new.status \in Busy)
  <2>1. /\ new.started = old.started
        /\ (new.status \in Busy) = (old.status \in Busy)
    BY <1>1, <1>5
  <2>2. CountOf(new) = CountOf(old)
    BY <1>5, <2>1 DEF CountOf
  <2>3. QED
    BY <2>2 DEF Counter!Moves
<1>6. QED
  BY <1>2, <1>3, <1>4, <1>5

\* A row appears with an event that may open it.
LEMMA NewRow ==
  ASSUME NEW e \in Event, HookInv, Report(e),
         e.sid \notin DOMAIN sessions, e.sid \in DOMAIN sessions'
  PROVE  e.kind \in TrackKind /\ OpensRow(e) /\ sessions'[e.sid] = Apply(FreshRow, e)
<1> DEFINE row == Apply(FreshRow, e)
<1>1. e.sid \in Sid /\ RowOf(sessions, e.sid) = FreshRow
  BY EventType DEF RowOf
<1>2. CASE TrackRoot(e)
  <2>1. /\ e.kind \in TrackKind /\ OpensRow(e)
        /\ sessions' = IF e.kind \in {"PromptSubmit", "Stop"}
                         THEN PruneIdle(Put(sessions, e.sid, row), e.sid, row.source, row.pid)
                         ELSE Put(sessions, e.sid, row)
    BY <1>1, <1>2 DEF TrackRoot
  <2>2. Put(sessions, e.sid, row)[e.sid] = row
    BY DEF Put
  <2>3. sessions'[e.sid] = Put(sessions, e.sid, row)[e.sid]
    BY <2>1 DEF PruneIdle, Prunable, Without, Restrict, Put
  <2>4. QED
    BY <2>1, <2>2, <2>3
<1>3. CASE TrackChild(e)
  <2>1. /\ e.kind \in TrackKind /\ OpensRow(e)
        /\ sessions' = IF row.status = "done" THEN Without(sessions, {e.sid})
                                              ELSE Put(sessions, e.sid, row)
    BY <1>1, <1>3 DEF TrackChild
  <2>2. sessions' = Put(sessions, e.sid, row)
    BY <2>1 DEF Without, Restrict
  <2>3. QED
    BY <2>1, <2>2 DEF Put
<1>4. CASE IgnoreLate(e) \/ StartSession(e) \/ EndSession(e) \/ StopChild(e) \/ Touch(e)
  BY <1>4 DEF IgnoreLate, StartSession, EndSession, StopChild, Touch, PruneIdle, Without, Restrict
<1>5. QED
  BY <1>2, <1>3, <1>4 DEF Report

\* Whose counters are those of a session that begins, or rests.
LEMMA NewRowAppears ==
  ASSUME NEW e \in Event, OpensRow(e)
  PROVE  Counter!Appears(CountOf(Apply(FreshRow, e)))
<1> DEFINE row == Apply(FreshRow, e)
<1>1. /\ row.ended = 0
      /\ row.started = IF row.status \in Busy THEN 0 + 1 ELSE 0
  BY DEF Apply, FreshRow, OpensRow, Busy
<1> HIDE DEF row
<1>2. CASE row.status \in Busy
  <2>1. (row.status \in Busy) = TRUE
    BY <1>2
  <2>2. CountOf(row) = Counter!Count(0 + 1, 0, TRUE)
    BY <1>1, <2>1 DEF CountOf, Counter!Count
  <2>3. QED
    BY <2>2 DEF Counter!Appears, Counter!Begins, Counter!NoTurn, Counter!Count, row
<1>3. CASE row.status \notin Busy
  <2>1. (row.status \in Busy) = FALSE
    BY <1>3
  <2>2. CountOf(row) = Counter!Count(0, 0, FALSE)
    BY <1>1, <2>1 DEF CountOf, Counter!Count
  <2>3. QED
    BY <2>2 DEF Counter!Appears, Counter!NoTurn, row
<1>4. QED
  BY <1>2, <1>3

\* A hook moves the counters as TurnCounter says.
LEMMA HookCounts ==
  ASSUME HookInv, Next
  PROVE  Counter!Next
<1>1. PICK e \in Event : StepOf(e) /\ Report(e)
  BY ReportStep DEF Next
<1>2. DOMAIN sessions' \subseteq Sid
  BY <1>1 DEF StepOf, HookInv, Good, IsBucket
<1>3. ASSUME NEW s \in DOMAIN sessions \cap DOMAIN sessions'
      PROVE  Counter!Moves(CountOf(sessions[s]), CountOf(sessions'[s]))
  <2>1. sessions[s] \in Row /\ sessions'[s] \in Row
    BY <1>1 DEF StepOf, HookInv, Good, IsBucket
  <2>2. LedgerOf(sessions[s], sessions'[s])
    <3>1. CASE s = e.sid
      BY <1>1, <3>1 DEF StepOf
    <3>2. CASE s # e.sid
      <4>1. sessions'[s] = sessions[s]
        BY <1>1, <3>2 DEF StepOf, Untouched
      <4>2. QED
        BY <4>1, <2>1, LedgerRefl
    <3>3. QED
      BY <3>1, <3>2
  <2>3. QED
    BY <2>1, <2>2, LedgerMoves
<1>4. ASSUME NEW s \in DOMAIN sessions' \ DOMAIN sessions
      PROVE  Counter!Appears(CountOf(sessions'[s]))
  <2>1. s = e.sid
    BY <1>1, <1>4 DEF StepOf, Untouched
  <2>2. OpensRow(e) /\ sessions'[s] = Apply(FreshRow, e)
    BY <1>1, <1>4, <2>1, NewRow
  <2>3. QED
    BY <2>2, NewRowAppears
<1>5. QED
  BY <1>2, <1>3, <1>4 DEF Counter!Next, CountOf

\* Any order, loss and repetition of hooks moves the counters as TurnCounter says.
THEOREM HooksCountTurns == Spec => CountsTurns
<1>1. Init => Counter!Init
  BY DEF Init, Counter!Init, EmptyMap, Counter!EmptyMap
<1>2. HookInv /\ [Next]_sessions => [Counter!Next]_(Counter!turnVars)
  BY HookCounts DEF Counter!turnVars
<1>3. QED
  BY <1>1, <1>2, HookInvariant, PTL DEF Spec, CountsTurns, Counter!Spec
===============================================================================
