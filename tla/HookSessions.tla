----------------------------- MODULE HookSessions -----------------------------
(***************************************************************************)
(* One hook provider's bucket of sessions: what the server knows about     *)
(* each session of Claude Code, Codex, CodeBuddy or Grok, folded from the  *)
(* hook events those agents pipe to `agent-berth notify`.                  *)
(*                                                                         *)
(* An action is one call of Store::update on the hook path: the provider   *)
(* translates the payload to an event, apply_event folds it into the       *)
(* bucket, an ending session is put back as done, and touch_session stamps *)
(* the row.  Hooks are separate short-lived processes, most of them run in *)
(* the background, so any event may be lost, and any two may arrive in     *)
(* either order: every event is possible in every state.                   *)
(***************************************************************************)
EXTENDS Naturals, Maps

CONSTANTS
  Root,      \* native session ids
  Child,     \* keys "sid:agent" of the subagents a session runs
  ParentOf,  \* the session that runs each subagent (AgentSession.parent_id)
  Pid,       \* process ids a hook can report
  NoPid,     \* the payload or the row carries no pid
  EndNames,  \* how the provider's hooks spell the end of a session
  MaxTurns   \* bound of each session's turn counters: the model is finite

Sid == Root \cup Child

ASSUME HookConstants ==
  /\ Root \cap Child = {}
  /\ ParentOf \in [Child -> Root]
  /\ NoPid \notin Pid
  /\ EndNames \subseteq {"SessionEnd", "session_end"}
  /\ MaxTurns \in [Sid -> Nat]

VARIABLE sessions   \* the bucket: session key -> row, for the tracked keys

Status == {"idle", "running", "waiting", "done"}
Source == {"cli", "desktop"}
MaybePid == Pid \cup {NoPid}

Row == [status : Status, source : Source, pid : MaybePid, exited : BOOLEAN,
        started : Nat, ended : Nat]

IsBucket(b) == DOMAIN b \subseteq Sid /\ b \in [DOMAIN b -> Row]

Busy == {"running", "waiting"}

FreshRow == [status |-> "idle", source |-> "cli", pid |-> NoPid,
             exited |-> FALSE, started |-> 0, ended |-> 0]

(***************************************************************************)
(* What a provider makes of a payload.  A subagent's hooks carry the key   *)
(* of the subagent; none of them starts or ends a session or submits a     *)
(* prompt, but Codex's SubagentStop ends the subagent.  Only a Stop of     *)
(* Claude's may leave background work running.  A question is a permission *)
(* request here: the bucket treats the two alike.  The providers make no   *)
(* event of an "Other" hook, such as a notification that asks nothing.     *)
(* Grok may spell its hooks in snake case and reads either spelling; the   *)
(* server, which looks for an end of its own, knows only SessionEnd.       *)
(***************************************************************************)
TrackKind == {"PromptSubmit", "PermissionReview", "ToolStart", "ToolComplete",
              "PermissionRequest", "Stop"}
RootKind  == TrackKind \cup EndNames \cup {"SessionStart", "Other"}
ChildKind == (TrackKind \ {"PromptSubmit"}) \cup {"SubagentStop", "Other"}

Event ==
  {e \in [sid : Sid, kind : RootKind \cup ChildKind, source : Source,
          pid : MaybePid, background : BOOLEAN] :
     /\ e.kind \in (IF e.sid \in Root THEN RootKind ELSE ChildKind)
     /\ e.background => e.kind = "Stop"}

EndsTurn(e) == e.kind = "Stop" /\ ~e.background

(***************************************************************************)
(* AgentSession::apply                                                     *)
(***************************************************************************)
OrElse(pid, other) == IF pid = NoPid THEN other ELSE pid

StatusAfter(s, e) ==
  CASE e.kind \in {"PromptSubmit", "PermissionReview"} -> "running"
    [] e.kind = "PermissionRequest" -> "waiting"
    [] e.kind = "ToolStart" -> IF s \in Busy THEN s ELSE "running"
    [] e.kind = "ToolComplete" -> IF s = "waiting" THEN "running" ELSE s
    [] e.kind = "Stop" -> IF e.background THEN "running" ELSE "done"
    [] OTHER -> s

\* Mutant: a report does not tell that the session came back.
ApplyStaysExited(row, e) ==
  LET s == StatusAfter(row.status, e)
  IN  [row EXCEPT !.status = s, !.source = e.source, !.pid = OrElse(e.pid, @),
                  !.started = IF s \in Busy /\ row.status \notin Busy THEN @ + 1 ELSE @,
                  !.ended = IF EndsTurn(e) THEN @ + 1 ELSE @]

\* Mutant: only a prompt starts a turn.
ApplyCountsPrompts(row, e) ==
  LET s == StatusAfter(row.status, e)
  IN  [row EXCEPT !.status = s, !.source = e.source, !.pid = OrElse(e.pid, @),
                  !.exited = FALSE,
                  !.started = IF e.kind = "PromptSubmit" THEN @ + 1 ELSE @,
                  !.ended = IF EndsTurn(e) THEN @ + 1 ELSE @]

\* Mutant: a turn whose start edge was missed does not end either.
ApplyCountsSeenTurns(row, e) ==
  LET s == StatusAfter(row.status, e)
  IN  [row EXCEPT !.status = s, !.source = e.source, !.pid = OrElse(e.pid, @),
                  !.exited = FALSE,
                  !.started = IF s \in Busy /\ row.status \notin Busy THEN @ + 1 ELSE @,
                  !.ended = IF EndsTurn(e) /\ row.status \in Busy THEN @ + 1 ELSE @]

\* Mutant: started counts the open turns, and every event at rest takes one back.
ApplyCountsOpenTurns(row, e) ==
  LET s == StatusAfter(row.status, e)
  IN  [row EXCEPT !.status = s, !.source = e.source, !.pid = OrElse(e.pid, @),
                  !.exited = FALSE,
                  !.started = IF s \notin Busy THEN @ - 1
                              ELSE IF row.status \notin Busy THEN @ + 1 ELSE @,
                  !.ended = IF EndsTurn(e) THEN @ + 1 ELSE @]

Apply(row, e) ==
  LET s == StatusAfter(row.status, e)
  IN  [status  |-> s,
       source  |-> e.source,
       pid     |-> OrElse(e.pid, row.pid),
       exited  |-> FALSE,
       started |-> IF s \in Busy /\ row.status \notin Busy
                     THEN row.started + 1 ELSE row.started,
       ended   |-> IF EndsTurn(e) THEN row.ended + 1 ELSE row.ended]

(***************************************************************************)
(* Rows of the bucket.                                                     *)
(***************************************************************************)
RowOf(b, s) == IF s \in DOMAIN b THEN b[s] ELSE FreshRow
Subagents(s) == {c \in Child : ParentOf[c] = s}

\* prune: a process shows one session at a time, so when `keep` reports the
\* sessions at rest that the same process ran before are forgotten.
\* Mutant: a busy session of the same process goes too.
PrunableBusy(b, keep, source, pid) ==
  {t \in DOMAIN b : t # keep /\ b[t].source = source /\ b[t].pid = pid}

Prunable(b, keep, source, pid) ==
  {t \in DOMAIN b : /\ t # keep
                    /\ b[t].status \notin Busy
                    /\ b[t].source = source
                    /\ b[t].pid = pid}
PruneIdle(b, keep, source, pid) == Without(b, Prunable(b, keep, source, pid))

-------------------------------------------------------------------------------
(***************************************************************************)
(* The hook path of Store::update, one action per branch of apply_event.   *)
(***************************************************************************)
Init == sessions = EmptyMap

\* A late tool event, or the end of a turn, of a session nobody tracks.
OpensRow(e) == e.kind # "ToolComplete" /\ ~EndsTurn(e)

IgnoreLate(e) ==
  /\ e.kind \in TrackKind
  /\ e.sid \notin DOMAIN sessions
  /\ ~OpensRow(e)
  /\ UNCHANGED sessions

TrackRoot(e) ==
  LET row  == Apply(RowOf(sessions, e.sid), e)
      next == Put(sessions, e.sid, row)
  IN  /\ e.sid \in Root /\ e.kind \in TrackKind
      /\ e.sid \in DOMAIN sessions \/ OpensRow(e)
      /\ sessions' = IF e.kind \in {"PromptSubmit", "Stop"}
                       THEN PruneIdle(next, e.sid, row.source, row.pid)
                       ELSE next

\* Mutant: a finished subagent stays listed.
TrackChildDone(e) ==
  /\ e.sid \in Child /\ e.kind \in TrackKind
  /\ e.sid \in DOMAIN sessions \/ OpensRow(e)
  /\ sessions' = Put(sessions, e.sid, Apply(RowOf(sessions, e.sid), e))

\* A finished subagent is not kept.
TrackChild(e) ==
  LET row == Apply(RowOf(sessions, e.sid), e)
  IN  /\ e.sid \in Child /\ e.kind \in TrackKind
      /\ e.sid \in DOMAIN sessions \/ OpensRow(e)
      /\ sessions' = IF row.status = "done"
                       THEN Without(sessions, {e.sid})
                       ELSE Put(sessions, e.sid, row)

\* A start only prunes: the row appears with the first prompt or tool.
StartSession(e) ==
  LET pid    == OrElse(e.pid, RowOf(sessions, e.sid).pid)
      pruned == PruneIdle(sessions, e.sid, e.source, pid)
  IN  /\ e.kind = "SessionStart"
      /\ sessions' = IF e.sid \in DOMAIN sessions
                       THEN Put(pruned, e.sid, [sessions[e.sid] EXCEPT
                                                  !.pid = pid, !.exited = FALSE])
                       ELSE pruned

\* The row and its subagents go; the server puts the row back as done, so a
\* finished session stays resumable, if it knows the hook for an end.
EndSession(e) ==
  LET rest == Without(sessions, {e.sid} \cup Subagents(e.sid))
  IN  /\ e.kind \in EndNames
      /\ sessions' = IF e.kind = "SessionEnd" /\ e.sid \in DOMAIN sessions
                       THEN Put(rest, e.sid, [sessions[e.sid] EXCEPT
                                 !.status = "done", !.exited = TRUE,
                                 !.pid = OrElse(e.pid, sessions[e.sid].pid)])
                       ELSE rest

StopChild(e) ==
  /\ e.kind = "SubagentStop"
  /\ sessions' = Without(sessions, {e.sid})

\* A hook that is no event still stamps the row it names: the session reports,
\* so it has not exited.
Touch(e) ==
  /\ e.kind = "Other"
  /\ sessions' = IF e.sid \in DOMAIN sessions
                   THEN Put(sessions, e.sid, [sessions[e.sid] EXCEPT
                             !.pid = OrElse(e.pid, sessions[e.sid].pid),
                             !.exited = FALSE])
                   ELSE sessions

WithinBound == \A s \in DOMAIN sessions : /\ sessions[s].started <= MaxTurns[s]
                                          /\ sessions[s].ended <= MaxTurns[s]

Report(e) ==
  /\ \/ IgnoreLate(e)   \/ TrackRoot(e)  \/ TrackChild(e)
     \/ StartSession(e) \/ EndSession(e) \/ StopChild(e) \/ Touch(e)
  /\ WithinBound'

Next == \E e \in Event : Report(e)

Spec == Init /\ [][Next]_sessions

-------------------------------------------------------------------------------
TypeOK == IsBucket(sessions)

\* A subagent's row exists only while the subagent works: it is never listed
\* idle or done (apply_event removes a child that is done, status.rs:307-313).
SubagentsAreBusy ==
  \A c \in DOMAIN sessions \cap Child : sessions[c].status \in Busy

\* A session marked exited is done, whatever arrives after its end: `wait`
\* and the active listing read the two fields without looking at each other.
ExitedIsDone ==
  \A s \in DOMAIN sessions : sessions[s].exited => sessions[s].status = "done"

\* A busy row has counted the start of the turn it is in, even if the prompt
\* that began it never reached the server.
BusyTurnIsCounted ==
  \A s \in DOMAIN sessions : sessions[s].status \in Busy => sessions[s].started > 0

\* An end the server does not know takes the session and its subagents, no more.
Forgets(s) ==
  "session_end" \in EndNames /\ sessions' = Without(sessions, {s} \cup Subagents(s))

\* No hook makes the server forget a session that is busy, in whatever order the
\* hooks of the sessions of one process arrive: a known end leaves the row
\* behind, done, for `resume`.  Only the session's own end, spelled as Grok
\* does, forgets it (store.rs:285-291 puts back what SessionEnd alone ended).
BusyRootsSurvive ==
  [][\A s \in DOMAIN sessions \cap Root :
       sessions[s].status \in Busy => s \in DOMAIN sessions' \/ Forgets(s)]_sessions

\* While a row stays, its counters are the ledger of its level: a start for
\* every move into a busy status and only then, and no way out of one but a
\* counted end or the end of the session.  A poller that compares counters
\* (`wait`) therefore misses no turn of a session the server keeps.
TurnLedger ==
  [][\A s \in DOMAIN sessions \cap DOMAIN sessions' :
       LET old == sessions[s]
           new == sessions'[s]
       IN  /\ new.started = IF old.status \notin Busy /\ new.status \in Busy
                              THEN old.started + 1 ELSE old.started
           /\ new.ended \in {old.ended, old.ended + 1}
           /\ new.ended # old.ended => new.status = "done"
           /\ old.status \in Busy /\ new.status \notin Busy
                => new.ended = old.ended + 1 \/ new.exited]_sessions

\* What `wait` counts on, of a hook's sessions: lost starts, background work and
\* pruning included, the counters are those of a TurnCounter.
CountOf(row) ==
  [started |-> row.started, ended |-> row.ended, busy |-> row.status \in Busy]

Counter == INSTANCE TurnCounter WITH
  Session <- Sid,
  shown   <- DOMAIN sessions,
  count   <- [s \in DOMAIN sessions |-> CountOf(sessions[s])]

CountsTurns == Counter!Spec
===============================================================================
