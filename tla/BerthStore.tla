------------------------------ MODULE BerthStore ------------------------------
(***************************************************************************)
(* The server's store for one plugin provider (OpenCode, Pi, DeepSeek      *)
(* Harness): what it keeps of the snapshots the agents' plugins report,    *)
(* and what it lists.                                                      *)
(*                                                                         *)
(* A worker is an agent process: it reports the status of the sessions it  *)
(* has seen, again and again, as a heartbeat.  A host is a TUI whose tabs  *)
(* show sessions that run elsewhere; it reports its tabs and no status,    *)
(* and only hosts report tabs.                                             *)
(* The user removes sessions (`rm`), resumes them, and archives them in    *)
(* the agent; processes die without a word; and time passes between any    *)
(* two reports, so a snapshot may outlive what it says.                    *)
(*                                                                         *)
(* Every handler runs under the store's mutex: an action is one request or *)
(* one beat of the heartbeat thread.                                       *)
(***************************************************************************)
EXTENDS Naturals, FiniteSets, Maps

CONSTANTS
  Sid,         \* the provider's native session ids
  Worker,      \* agent processes; a process and its instance id are the same
  Host,        \* TUI processes that host sessions as tabs
  Archivable,  \* sessions the agent can archive (DeepSeek Harness)
  Stale,       \* PLUGIN_STALE, in ticks
  Retention,   \* SESSION_RETENTION, in ticks
  MaxTurns     \* bound of the turn counters

Instance == Worker \cup Host

ASSUME StoreConstants ==
  /\ Worker \cap Host = {}
  /\ Archivable \subseteq Sid
  /\ Stale \in Nat /\ Retention \in Nat /\ Stale < Retention
  /\ MaxTurns \in Nat

VARIABLES
  alive,      \* instances whose process runs
  snapshots,  \* instance -> [status, tabs, age], the last report of each
  removed,    \* session -> [manual, age]: hidden by `rm`, or until a report
  revived,    \* user removals that have been busy since
  quiet,      \* archived sessions, read from the agent's files
  hosted,     \* sessions ever reported as a tab
  turns       \* session -> [started, ended, busy]

store == <<snapshots, removed, revived, quiet, hosted, turns>>
vars  == <<alive, store>>

\* A session is waiting when the snapshot lists it as blocking.
Level == {"idle", "running", "waiting"}
Busy  == {"running", "waiting"}

\* Milliseconds since a report, in ticks; older than the retention is all one.
Age == 0 .. Retention + 1
Older(age) == IF age > Retention THEN age ELSE age + 1

Statuses == UNION {[S -> Level] : S \in SUBSET Sid}

Turns == [started : Nat, ended : Nat, busy : BOOLEAN]
NoTurns == [started |-> 0, ended |-> 0, busy |-> FALSE]

-------------------------------------------------------------------------------
(***************************************************************************)
(* What the snapshots say.  The operators take the map, for a report is    *)
(* judged by what they say before and after it.                            *)
(***************************************************************************)
Mentions(b, s) == {i \in DOMAIN b : s \in DOMAIN b[i].status}
Fresh(b, s)    == {i \in Mentions(b, s) : b[i].age <= Stale}

\* snapshot_status: live instances only, and waiting wins over running.
SnapshotStatus(b, s) ==
  LET levels == {b[i].status[s] : i \in Fresh(b, s)}
  IN  IF "waiting" \in levels THEN "waiting"
      ELSE IF "running" \in levels THEN "running" ELSE "idle"

Manual(s) == s \in DOMAIN removed /\ removed[s].manual

\* Mutant: an archive is looked at before the removal.
KeepQuietFirst(i, s) ==
  LET busy == snapshots[i].status[s] \in Busy
  IN  IF s \in quiet THEN busy
      ELSE IF Manual(s) THEN busy /\ s \in revived
      ELSE s \notin DOMAIN removed

\* Mutant: any busy snapshot shows a removed session, revived or not.
KeepBusy(i, s) ==
  LET busy == snapshots[i].status[s] \in Busy
  IN  IF Manual(s) THEN busy
      ELSE IF s \in quiet THEN busy
      ELSE s \notin DOMAIN removed

\* keep: judged for each snapshot's own entry of the session.
Keep(i, s) ==
  LET busy == snapshots[i].status[s] \in Busy
  IN  IF Manual(s) THEN busy /\ s \in revived
      ELSE IF s \in quiet THEN busy
      ELSE s \notin DOMAIN removed

\* reporting_hosts asks whether the process lives, not how old its report is.
LiveHosts == Host \cap DOMAIN snapshots \cap alive
Hosting(s) == {h \in LiveHosts : s \in snapshots[h].tabs}

\* listed_sessions: of the entries kept, the latest report speaks for the
\* session, and an idle one is a closed tab when tabs are what shows sessions.
Kept(s) == {i \in Mentions(snapshots, s) : Keep(i, s)}
Best(s) == {i \in Kept(s) : \A j \in Kept(s) : snapshots[i].age <= snapshots[j].age}
\* Mutant: a tab is closed only while some host runs.
ClosedTabForgotten(s) == Hosting(s) = {} /\ LiveHosts # {}
ClosedTab(s) == Hosting(s) = {} /\ (s \in hosted \/ LiveHosts # {})
ListedBy(s)  == {i \in Best(s) : snapshots[i].status[s] \in Busy \/ ~ClosedTab(s)}
Listed(s)    == ListedBy(s) # {}
Active(s)    == \E i \in ListedBy(s) : snapshots[i].age <= Stale

-------------------------------------------------------------------------------
Init ==
  /\ alive \in SUBSET Instance
  /\ snapshots = EmptyMap /\ removed = EmptyMap /\ turns = EmptyMap
  /\ revived = {} /\ quiet = {} /\ hosted = {}

TurnsOf(s) == IF s \in DOMAIN turns THEN turns[s] ELSE NoTurns

\* Mutant: every idle report is the end of a turn.
TurnsAfterEveryIdle(t, busy) ==
  [started |-> IF busy /\ ~t.busy THEN t.started + 1 ELSE t.started,
   ended   |-> IF busy THEN t.ended ELSE t.ended + 1,
   busy    |-> busy]

\* TurnCounts::report
TurnsAfter(t, busy) ==
  [started |-> IF busy /\ ~t.busy THEN t.started + 1 ELSE t.started,
   ended   |-> IF t.busy /\ ~busy THEN t.ended + 1 ELSE t.ended,
   busy    |-> busy]

\* note_revival, for a removed session whose status goes from before to after.
Revives(before, after) ==
  CASE after = "waiting" -> before # "waiting"
    [] after = "running" -> before \notin Busy
    [] OTHER -> FALSE

\* Mutant: a report stamps every snapshot of the provider.
UpdateStampsAll(i, status, tabs) ==
  LET next == Put(snapshots, i, [status |-> status, tabs |-> tabs, age |-> 0])
  IN  /\ i \in alive
      /\ snapshots' = [j \in DOMAIN next |-> [next[j] EXCEPT !.age = 0]]
      /\ turns' = [s \in DOMAIN turns \cup DOMAIN status |->
                    IF s \in DOMAIN status
                      THEN TurnsAfter(TurnsOf(s), status[s] \in Busy) ELSE turns[s]]
      /\ hosted' = hosted \cup tabs
      /\ UNCHANGED <<alive, removed, revived, quiet>>

\* update, on the plugin path.
Update(i, status, tabs) ==
  LET next      == Put(snapshots, i, [status |-> status, tabs |-> tabs, age |-> 0])
      reported  == DOMAIN status
      before(s) == SnapshotStatus(snapshots, s)
      after(s)  == SnapshotStatus(next, s)
      back      == {s \in reported : Manual(s) /\ Revives(before(s), after(s))}
      over      == {s \in reported : Manual(s) /\ after(s) \notin Busy}
  IN  /\ i \in alive
      /\ snapshots' = next
      /\ removed' = Without(removed, {s \in reported : ~Manual(s)})
      /\ revived' = (revived \cup back) \ over
      /\ turns' = [s \in DOMAIN turns \cup reported |->
                    IF s \in reported THEN TurnsAfter(TurnsOf(s), status[s] \in Busy)
                                      ELSE turns[s]]
      /\ hosted' = hosted \cup tabs
      /\ UNCHANGED <<alive, quiet>>

WithinBound == \A s \in DOMAIN turns : turns[s].started <= MaxTurns

WorkerReport(w, status) == Update(w, status, {}) /\ WithinBound'
HostReport(h, tabs)     == Update(h, EmptyMap, tabs)

\* note_removal.  `rm` and `resume` name a session some listing showed them,
\* which may have changed since.
MarkRemoved(s) ==
  /\ removed' = Put(removed, s, [manual |-> TRUE, age |-> 0])
  /\ revived' = revived \ {s}
  /\ UNCHANGED <<alive, snapshots, quiet, hosted, turns>>

MarkResumed(s) ==
  /\ removed' = Put(removed, s, [manual |-> FALSE, age |-> 0])
  /\ UNCHANGED <<alive, snapshots, revived, quiet, hosted, turns>>

\* The agent archives a session, or restores it (read_quiet).
Archive(s) ==
  /\ quiet' = IF s \in quiet THEN quiet \ {s} ELSE quiet \cup {s}
  /\ UNCHANGED <<alive, snapshots, removed, revived, hosted, turns>>

\* Mutant: the counters go with the processes, before their rows do.
PruneDeadTurns ==
  LET gone == {i \in DOMAIN snapshots : i \notin alive /\ snapshots[i].age > Retention}
  IN  /\ snapshots' = Without(snapshots, gone)
      /\ turns' = [s \in {t \in DOMAIN turns : Mentions(snapshots, t) \cap alive # {}}
                     |-> turns[s]]
      /\ UNCHANGED <<alive, removed, revived, quiet, hosted>>

\* Mutant: a snapshot that says busy is kept, as a busy row is by a hook.
PruneKeepsBusy ==
  LET gone == {i \in DOMAIN snapshots :
                 /\ i \notin alive /\ snapshots[i].age > Retention
                 /\ \A s \in DOMAIN snapshots[i].status : snapshots[i].status[s] \notin Busy}
  IN  /\ snapshots' = Without(snapshots, gone)
      /\ UNCHANGED <<alive, removed, revived, quiet, hosted, turns>>

\* prune: snapshots of dead processes age out, and with the sessions that only
\* they mentioned goes what the store kept about them.
Prune ==
  LET gone == {i \in DOMAIN snapshots : i \notin alive /\ snapshots[i].age > Retention}
      next == Without(snapshots, gone)
      live == {s \in Sid : Mentions(next, s) # {}}
      lost == {s \in DOMAIN removed :
                 s \notin live /\ ~(removed[s].manual /\ removed[s].age <= Retention)}
  IN  /\ snapshots' = next
      /\ removed' = Without(removed, lost)
      /\ revived' = revived \cap (DOMAIN removed \ lost)
      /\ hosted'  = hosted \cap live
      /\ turns'   = Without(turns, Sid \ live)
      /\ UNCHANGED <<alive, quiet>>

\* Time passes: snapshots and user removals age, a resume's hide has no age.
AgedRows(b)  == [i \in DOMAIN b |-> [b[i] EXCEPT !.age = Older(@)]]
AgedMarks(b) == [s \in DOMAIN b |-> [b[s] EXCEPT !.age = IF b[s].manual THEN Older(@) ELSE @]]

Tick ==
  /\ snapshots' = AgedRows(snapshots) /\ removed' = AgedMarks(removed)
  /\ UNCHANGED <<alive, revived, quiet, hosted, turns>>

Start(i) == i \notin alive /\ alive' = alive \cup {i} /\ UNCHANGED store
Die(i)   == i \in alive /\ alive' = alive \ {i} /\ UNCHANGED store

Next ==
  \/ \E w \in Worker, status \in Statuses : WorkerReport(w, status)
  \/ \E h \in Host, tabs \in SUBSET Sid : HostReport(h, tabs)
  \/ \E s \in Sid : MarkRemoved(s) \/ MarkResumed(s)
  \/ \E s \in Archivable : Archive(s)
  \/ Prune \/ Tick
  \/ \E i \in Instance : Start(i) \/ Die(i)

Spec == Init /\ [][Next]_vars

\* The heartbeat thread prunes every 5 s, and time passes.
FairSpec == Spec /\ WF_vars(Tick) /\ WF_vars(Prune)

-------------------------------------------------------------------------------
TypeOK ==
  /\ alive \subseteq Instance
  /\ DOMAIN snapshots \subseteq Instance
  /\ \A i \in DOMAIN snapshots :
       /\ DOMAIN snapshots[i] = {"status", "tabs", "age"}
       /\ DOMAIN snapshots[i].status \subseteq Sid
       /\ \A s \in DOMAIN snapshots[i].status : snapshots[i].status[s] \in Level
       /\ snapshots[i].tabs \subseteq Sid /\ (snapshots[i].tabs # {} => i \in Host)
       /\ snapshots[i].age \in Age
  /\ DOMAIN removed \subseteq Sid
  /\ removed \in [DOMAIN removed -> [manual : BOOLEAN, age : Age]]
  /\ revived \subseteq Sid /\ quiet \subseteq Archivable /\ hosted \subseteq Sid
  /\ DOMAIN turns \subseteq Sid /\ turns \in [DOMAIN turns -> Turns]

\* Every start the store counted was ended or is the turn that runs: reports
\* that repeat a level, and resets by retention, never unbalance the counters
\* `wait` compares.
TurnsArePaired ==
  \A s \in DOMAIN turns :
    turns[s].started = turns[s].ended + (IF turns[s].busy THEN 1 ELSE 0)

\* What `wait` counts on, of a plugin's sessions: they have their counters as
\* long as a snapshot mentions them, whatever the order in which retention drops
\* the snapshots of their processes, and no report moves them twice.
Counter == INSTANCE TurnCounter WITH
  Session <- Sid,
  shown   <- {s \in Sid : Mentions(snapshots, s) # {}},
  count   <- turns

CountsTurns == Counter!Spec

\* README.md:413-415: an idle report, a heartbeat, the passing of time, an
\* archive, a closed tab or the retention never brings back a session the user
\* removed; only a live report that shows it busy does.
RemovalSticks ==
  [][\A s \in Sid : Manual(s) /\ Manual(s)' /\ ~Listed(s) /\ Listed(s)'
       => SnapshotStatus(snapshots', s) \in Busy]_vars

\* README.md:413-415: a removed session that came back hides again with the
\* report that ends its turn.
RemovalHidesAgain ==
  [][\A s \in DOMAIN turns \cap DOMAIN turns' :
       /\ Manual(s)
       /\ turns'[s].ended > turns[s].ended
       /\ SnapshotStatus(snapshots', s) \notin Busy
       => ~Listed(s)']_vars

\* A tab that was closed stays out of the list as long as the store remembers
\* that it was one, until it is opened again or works.  (Of a session that one
\* process reports: when the later of two rows goes, an older one speaks again.
\* And an archive shows a busy row that a resume hid.)
ClosedTabStaysHidden ==
  [][\A s \in hosted \cap hosted', i \in Instance :
       /\ ~Listed(s) /\ Listed(s)' /\ UNCHANGED <<removed, quiet>>
       /\ Mentions(snapshots, s) \cup Mentions(snapshots', s) \subseteq {i}
       => \/ Hosting(s)' # {}
          \/ SnapshotStatus(snapshots', s) \in Busy]_vars

\* A process that died without a word leaves the active list: its last
\* snapshot may say busy for days, but it goes stale.
DeadAgentsLeave ==
  \A s \in Sid : (alive \cap Worker = {}) ~> (~Active(s) \/ alive \cap Worker # {})

\* And the store forgets it in the end.
DeadAgentsAreForgotten ==
  \A i \in Instance : (i \notin alive) ~> (i \notin DOMAIN snapshots \/ i \in alive)

===============================================================================
