# Verification of agent-berth

`agent-berth` keeps track of coding agents that run in terminals, desktop
applications and background servers. One server process collects what the
agents report, keeps it in memory and in a redb database, and answers the command line
(`list`, `wait`, `send`, `new`, `resume`, `rm`, `stop`) and the TUI. This
directory holds TLA+ models of that program, the TLC runs that check them and
proofs checked by TLAPS. Line numbers are those of `src/` at this commit.

## The system

| Part | State | Operations | What is hard |
| --- | --- | --- | --- |
| Hook sessions (`status.rs`, `providers/{claude,codex,codebuddy,grok}.rs`) | per provider, session key -> row with status, source, pid, `exited`, turn counters | one per hook event: prompt, tool, permission, stop, session start and end, subagent stop | each hook is a short-lived process, often in the background: hooks are lost and overtake each other |
| Claude discovery (`providers/claude.rs`) | the cached listing of `claude agents`, Desktop's files | a background fetch, folding the listing into the rows every 5 s | the listing is older than the rows it changes |
| Plugin store (`store.rs`) | snapshots per reporting instance, hidden and revived sessions, archived sessions, sessions seen as tabs, turn counters | report, `rm`, `resume`, archive, prune, listing | heartbeats repeat old news; processes die silently; several processes report one session; removal must outlive all of it |
| Reporters (`providers/hooks/dsh.mjs`, `opencode-v2/`) | status maps, what was cleared, events that wait for a location | event handlers, flush on a heartbeat, replay | a clear is sent once; events are replayed after later ones |
| `wait`, `send --wait`, `new` (`wait.rs`, `send.rs`, `new.rs`) | baseline counter, deadline | poll every 500 ms, give a verdict | turns shorter than the poll interval, ends and restarts between polls, dead sessions |
| Server and database (`server.rs`, `db.rs`, `ipc.rs`) | the store under a mutex, the tables of a redb file | a thread per request, a heartbeat thread every 5 s, persistence in several transactions | crash between transactions, failed writes, restart |
| Start and service (`server.rs`, `ipc.rs`, `service.rs`) | the file's lock, the socket, the pid file, the systemd unit | start, signal, `service start/stop/restart`, clients with and without a server | two servers at once, what a killed one leaves behind |
| `rm`, `resume`, `memo` | none of their own | list, act, mark | what they listed has changed when they act |
| `send`, `stop`, `attach` with the hubs and tmux (`hubs/`, `tmux.rs`, `process.rs`) | none of their own | list sessions, list panes, type, kill or switch | tabs are switched, agents end and ids are reused in between |
| TUI (`tui.rs`) | rows, selection, dialog, fetches in flight; preview, caches, reader | keys, refresh every second, answers of worker threads | late results, rows that move under an open dialog |
| Transcripts, `logs` (`transcript.rs`, `logs.rs`) | the reader's offset, checkpoint, entries; none for `logs` | read on, start over; rows to turns, reply and pending calls | logs are cut, replaced and outrun the reader; rows come in any order |
| `list`, `pick`, `notify`, OpenCode 1 and pi reporters, search, git, doctor, self, setup, paths | none | I/O, parsing, formatting | partial failure of external commands |

The agents send hooks (`notify`) or reports over a local socket; the store's
handlers run one at a time under its mutex, so one handler is one action.
Scripts read the store by polling, the TUI by fetching. Agent processes start
and die on their own.

## Modules

| Module | Models |
| --- | --- |
| `Maps` | the maps of the store: entries written and removed |
| `TurnCounter` | abstract: what a script may rely on when it counts turns |
| `HookSessions` | one provider's bucket of hook sessions; implements `TurnCounter` |
| `ClaudeDiscovery` | the listings of `claude agents` folded into that bucket, which it extends |
| `WaitTurn` | a script waiting on a session of `HookSessions`, with process deaths and retention; it extends `HookSessions` and uses its `Report` as the server's step |
| `BerthStore` | the store for one plugin provider; implements `TurnCounter` |
| `DshReporter`, `OpencodeReporter` | the plugins inside DeepSeek's app and the OpenCode 2 server |
| `BerthServer` | the server around the store of `BerthStore`, which it extends: memory, the database file, crashes and restarts |
| `ServerStart` | how one server comes to serve: lock, socket, pid file, service commands, clients |
| `TuiList`, `TuiPreview` | the dashboard's list and its preview |
| `LogReader` | the reader of a live preview |
| `ConversationTurns` | the turns of a log, and what `logs --final` prints |
| `PaneCommands` | `send`, `stop` and `attach` in tmux |
| `HookSessionsProofs`, `WaitTurnProofs` | theorems about the modules of those names |
| `BerthServerProofs` | theorems about `BerthStore` and `BerthServer` |
| `AgentsProofs` | theorems about `ClaudeDiscovery`, `ServerStart` and `OpencodeReporter` |
| `TuiProofs` | theorems about `TuiList` and `TuiPreview` |
| `ClientsProofs` | theorems about `PaneCommands` and `LogReader` |
| `TurnsProofs` | theorems about `ConversationTurns` |
| `FoldLemmas` | induction over numbers and over folds, for the proofs |
| `MC*` | instances for TLC |

Each module starts with a comment on what it takes over from the code and what
it abstracts; below is what a reader needs to follow it. Definitions marked
*Mutant* are single faults of the definition after them: the runs were seen to
notice each.

### TurnCounter

A pair of counters and a level per session, which a step may move by one:
begin a turn, end it (a start that was missed is no obstacle), or stop without
an end. Counters exist as long as the row does, and a new row begins at zero.
`HookSessions!CountsTurns` and `BerthStore!CountsTurns` are
`INSTANCE TurnCounter WITH ...`: rows with their statuses map to it directly
(under hooks alone, and with the listings of `ClaudeDiscovery`), the
store's counters with the sessions that any snapshot mentions. It is a property
of the server's memory; after a crash between the transactions of a snapshot
and of its counters the file has a row without counters until the next report.

### HookSessions

`sessions` is a partial map from keys to rows; a missing key is a session nobody
tracks. `Event` is what `apply_hook` of the four providers can make of a
payload; an event of any kind may arrive in any state, which covers lost,
repeated and reordered hooks. `Apply` is `AgentSession::apply` (status, pid,
counters) with the stamp `touch_session` puts on the row afterwards
(`exited`, pid). One action per branch of `apply_event`: `IgnoreLate` (a late
tool event or end of a turn of an untracked session), `TrackRoot`,
`TrackChild`, `StartSession`, `EndSession`, `StopChild`, and `Touch` for hooks that are no event.
`PruneIdle` is the pruning in the same handler, never an action of its own.

`EndNames` says how a provider's hooks spell the end of a session. `EndSession` removes the
row under either name (`grok.rs:114-133` makes `SessionEnd` of Grok's `session_end`),
but `Store::update` compares the name in the payload (`store.rs:285-291`) and
puts the row back as done for `SessionEnd` alone: the end of a Grok session forgets it, and its turn
if one runs. `BusyRootsSurvive` excepts that by name (`Forgets`).

Data left out because no decision in these functions reads it: titles, working
directories, command lines, transcripts, delegators, memos, `front`, times.
A question and a permission prompt are one kind of event, `SessionStart`'s
sources are one, and `Notification`, which no provider makes, is absent.
Claude's `background_only` flag is written and never read for a decision.

### WaitTurn

`phase` follows one script: a baseline is taken by `Send`, `New` or `WaitNow`;
`WaitAfter` is the separate `wait --after N` command of a script that kept the
number; `Poll` and `Timeout` are an iteration of `wait_for`, with `Verdict`
being `check`. `turned` and `kept` are history variables: whether a Stop of the
session reached its row since the baseline, and whether the row was in the
store all along. `Retire` is `Store::prune` for the rows of dead processes.
Their age is left open: a row of a dead process may go at any time, which
includes every schedule of the real seven days.

### BerthStore

`snapshots` maps a reporting process to its last report. An entry's level
folds `status` and `blocking`. `SnapshotStatus`, `Keep`, `Listed`, `Active`,
`Update`, `Prune` follow the functions of `store.rs` with those names. Times are
ages in ticks: `Tick` ages every snapshot and user removal, saturating just past
the retention. `Archive` changes the agent's files, which the server reads before every
listing. A worker reports status and never tabs, a host tabs and never status,
as the OpenCode 2 plugin parts do. A report that is on its way while its
process dies is a report before the death. Left out: memos, delegators, fronts, the listing's
other fields, and `resumable`.

### BerthServer

The variables of `BerthStore` are the server's memory. `disk` has the tables of
the file, `phase` tells where in `serve` the process is, and `writing` lists the
transactions that the holder of the mutex has yet to commit. A request
(`ServeWorker`, `ServeHost`, `ServeRemove`, `ServeResume`) or a heartbeat
(`Beat`) is the handler of `BerthStore` followed by those transactions:
`ReportJobs` is `persist_change`, `SyncJobs` is `persist_all`. Nobody else runs
until they are written (`Commit`) or one fails (`Fail`, which gives up the rest
and, as in the code, leaves memory as it is). Only agents and the clock move
meanwhile. `Crash` may come at any point of any phase; it is also the end of the
server by a signal, which calls `exit` without waiting for a writer.
`Load` is `db::load` with `seed_revived`, `Restore` the rest of the start,
and `OfflineMark` what `rm` and `resume` do to the file when no server answers.
The file's times are times of day, so `Clock` ages its rows as well.
A provider's set of tabs that is empty may or may not be an entry of the map,
which decides whether it is written: `Served` leaves that open.

`promised`, `seen` and `lagging` are history: removals that were acknowledged,
what clients could last read (from memory, or from the file when no server
runs), and whether a report's counters failed to be written since the last
that were.

Left out: the tables of hooks, memos and delegators, heartbeat stamps, which
decide nothing here; discovery; the migration from JSON. Sockets and second
servers are `ServerStart`. The archives are current at every listing (the code
reads them outside the lock, `server.rs:136`, so that of two listings the older
read may win until the next one).

### ClaudeDiscovery

`agent` is what `claude agents` would say of each session, `cache` the last
listing the server has and `fetch` the one under way: started, then `Read`, then
`Store`d or `Miss`ed. `Discover` is the heartbeat's part under the lock: serve the
cache, start the next fetch, fold the listing into `sessions`. `Merged` follows
`apply_agents` with `Settle` as its rule for a row that hooks report too, and
`Followed` its rule for one that they do not. Hooks (`HookReports`) arrive at any point.
Times are never read but compared: a listing carries in `newer` the sessions
whose last report came after its fetch began. `rested` is history: the agents
that were at rest at some time since their last report. Left out: titles and
directories, Desktop's helper sessions and the cache of its files.

### DshReporter and OpencodeReporter

`DshReporter` has the app's sessions and archive set, what the plugin keeps of
them (`tracked`, `cleared`, `lastStored`), the reports on their way and the rows
that berth makes of them. `Flush` is the heartbeat, `SessionEvent` one event with its
handler: turns, approvals (several at once, within a turn or without one) and
titles, any of which may begin the entry of a session. Each report is a `notify` process of its
own, so `Deliver` takes any of those on their way and `Lose` drops one. What that
costs is `cleared_rows`; what holds in spite of it is that rows of the sessions that the app
shows become what it shows (`RowsFollowTheApp`), for they are reported again and again. One
archive set fits one `CLEAR_BATCH`.

`OpencodeReporter` has the sessions of an OpenCode 2 server and one instance of
the plugin: what it has seen, what runs and asks, the locations it knows, and the
events that wait for one. `Handle` is `apply`, `LookedUp` the answer of a lookup, which sets the
location (`index.js:73`), and `Catchup` the replay, two promise hops later (`:78-79`), with events
of any session in between. `overtaken` is history: the sessions of which such an
event was applied before older ones. A lookup that throws before it returns a promise
(`:80-83`) is left out.

### ServerStart

Two processes may serve: the unit's and one run by hand. `step` says where in
`serve` each is; `lock`, `sock` and `pidFile` are whose the database lock, the
socket file and the pid file are (`Stale` if nobody's). `Killed` may come at any step and leaves the
files. redb's lock on the file is exclusive and ends with the process
(external). A client connects or is refused, is answered or loses its
connection with the server, and then opens the file itself, which fails while
another process has it; a ping or a connection may time out even if somebody
listens. `service stop` and `restart` are as many actions as they take steps, and a
SIGTERM makes the unit stop without a failure, so systemd does not start it again.
Ids of dead processes are not reused. Windows is left out.

`Careful` assumes that nobody runs `service stop` while a server run by hand is
starting. Without it `ServerComesBack` is violated: the command's cleanup
(`service.rs:76-90`) removes the pid file and the socket without asking whose they are, and
a server that has just bound it goes on with no socket; it holds the database
lock, so every other server gives up.

### TuiList and TuiPreview

`TuiList` has one action per key and per message of a worker thread; a handler
that leaves the list dirty asks for new rows in the same action (`Refresh`), and
`Answer` and `Handle` are the two halves of the fetch. `gone` and `pointed` are
history: removals the user was told of, and the session under the cursor when
the open dialog was opened. `TuiPreview` takes for a selection whatever
`update_selection` may resolve it to, and has the two caches, the reader that
goes with a log's fetch and comes back with its answer, and the generations that
tell answers apart. Debounce and refresh interval are left open. Left out:
drawing, the help sheet, scrolling, lazygit, the browser and the status line.

### LogReader

A log is a sequence of blocks of which a row takes one or more. A read is the steps of
`Reader::read`, with writes, cuts and replacements between any two of them, for nothing is
locked: `Open` takes the file's metadata (438-440), `Begin` compares the checkpoint, starts
over if it must, and jumps (441-462), or `Unreadable` fails there; `Take` reads and decodes the bytes
(463-494), and `Sign` takes the next checkpoint (495-499), which may fail and then matches
nothing. `Feed` and `Record` are the handling of lines. For a compressed log `Frames` passes over what
precedes the first start of a frame, so that after a jump the first whole frame is passed over as
well; `NewestIsShown` speaks of what remains. A corrupt frame is passed over too, if
another follows, and waits if none does (`dsh.rs:258-266`, `FeedText`).

Two things the code does not tell, and the properties say so. A corrupt frame is
left out without the note (`dsh.rs:258-262`). And a log that is cut in its place after
the comparison of the checkpoint and before the end of the read (`transcript.rs:444-499`) is read from an
offset of the old text; so is one that is cut just before, if the read then jumps
by the length it had (457). `torn` is history and marks a reader that has gone by what was
there, until it starts over. A cut at any other time, and a replacement at any time, are noticed.

### ConversationTurns

`RowsOf` says for each provider what its parser makes of the rows a harness
writes: the entries and whether the record starts or ends a turn. `FullLog` keeps the
last form of each message, `AddRecord` is the loop of `turns`, `Reply` and `Pending`
are what `logs --final` prints. The harness writes rows in any order, except
that a result needs a call. A row is its meaning; texts are not empty. Claude rows that
hold a result and a prompt at once, and results of several text blocks, are not among those
enumerated; no property tells them apart.

### PaneCommands

Processes are where they run: a pane, outside tmux, or dead. A session either
runs in a process of its own, as its hooks told, or is a tab of a shared server, as
hosts told. A command is three steps, `Ask` (the listing), `Look` (panes and
processes as they are by then) and the act; `Located` is `resolve_session_pane`.
`settled` is history: the sessions the listing was right about and that have not
moved since. That is the property's limit: an agent that moves between the listing
and the act, or whose hook has not arrived, is what the code cannot
know. It also does not know an agent that runs inside another one's pane:
the pane counts as showing both (`hubs/tmux.rs:112`), which is why typing is
claimed for panes with one agent.

## Runs

| Run | Question | Result |
| --- | --- | --- |
| `sessions` | do rows, counters and exits stay consistent under any order and loss of hooks, does the OpenCode 2 plugin tell the truth, is what a reader leaves out said to be missing, does each reply belong to its request, do commands hit their session? | holds, with the exceptions named under HookSessions, OpencodeReporter and LogReader |
| `wait_turn` | is `done` always a turn, and is no ended turn missed while the row is kept? | holds |
| `store` | do counters count turns, do closed tabs and removed sessions stay hidden, do dead agents leave? | holds |
| `server` | does what was acknowledged or read outlive crashes, failed writes and restarts, is a start repeatable; in its dashboard, does the cursor follow its session, do keys act on what they were meant for, is the preview the selected session's and never older? | holds, counters of a report that could not be written excepted |
| `agents` | do listings and hooks of Claude tell one story, do rows of DeepSeek's sessions follow the app, and does one server come to serve in the end? | holds |
| `counts_monotonic` | are the counters monotonic, as README.md:316 says? | violated: pruning and re-creation reset them |
| `dead_waiting` | does a dead session win over a waiting level, as wait.rs:90-91 says? | violated: a busy row is active whether its process lives or not |
| `tui_resume` | does `r` resume resumable sessions only, as README.md:160 says? | violated: after a change of view the rows are still those of the other one |
| `oc_deleted` | is what the OpenCode 2 plugin reports alive, as its comment at index.js:144 says? | violated: an event that waited is replayed after the session was deleted |
| `ended_kept` | are gracefully ended sessions kept for `resume`, as README.md:389-390 says? | violated for a session that discovery found before its first hook |
| `oc_idle` | do the OpenCode 2 plugin's lookups gate the events of their sessions, as index.js:54-55 says? | violated: an event between the answer and the replay is applied before older ones, and a finished session runs again |
| `cleared_rows` | does a clear remove a session's row, as dsh.mjs:152-153 says? | violated: it may arrive before an earlier report, and is not sent again |

Some runs check modules that share no state side by side: a variable `part` of `MCSessions`,
`MCServer` and `MCAgents` says which of them moves, and nothing is lost by not
interleaving them.

Disagreements between code and documents that no run is spent on; the models
have them as behaviours:

- A heartbeat after a gap longer than `PLUGIN_STALE` brings a removed session back
  (`store.rs:531`), while `store.rs:557-559` says that only a change into running or waiting does.
- Two processes that report one session alternate its edge detector, so the idle report of one
  ends the turn of the other (`store.rs:394`; `wait.rs:1-3` speaks of the end of a turn).
- Retention forgets that a session was a tab (`store.rs:874`), and it is listed again
  although `store.rs:122-124` says closed tabs stay out for good.
- The lift of a resume's hide by the next report (`store.rs:469`) is not written
  (`db.rs:235-261`), and a restart hides the session again.
- `logs --final` is said to print the calls that still wait for a result
  (`README.md:243-245`). It prints those at the very end of the log: after the first result of two
  calls made together, or after text that follows a call, none of the waiting
  ones. A result without text blocks leaves its call shown as pending.
- A stale listing that says a session has stopped removes its row even if a
  newer hook has revived it (`providers/claude.rs:603`); the next listing or hook brings it
  back, with counters at zero.
- `discover` reports changes of the archive only (`providers/mod.rs:144-145`), so rows that a
  listing changed are written with the next hook's.
- `service stop` may leave a server without a socket, as told under ServerStart.

Bounds. `sessions`, hooks: two sessions and one subagent of the first, one
process id and the absence of one (so the sessions may share a process or not),
two turns for the first session (so it may come back after its end and be
prompted again) and one for the others: every pair of events on one row, on two rows of one process, and
on a row and its subagent occurs, and a third session only repeats what the
second does to the first. `wait_turn`: two turns of the session waited on, so a
turn before the baseline and one after it, and one of the other. `store`: one
session, and an agent with a host or two agents; a snapshot is fresh at ages 0 and
1, stale at 2 and past the retention at 3, which is each side of both limits;
two counted turns, beyond which a report that would start another is not
taken (`WithinBound`), so that one turn may end before a removal or a gap and
another start after it; `MaxTurns` bounds the models, not the code. In the
pair with a host nobody archives.
`server`: one session and one worker, and a host in the part `tabs`,
because the transactions are per table and the question is which
of them a crash separates. Ages are 0, 1 and 2 (`Stale` = 0, `Retention` = 1), so
a snapshot is fresh, stale or past the retention, and can change from one to
the other while the server is down; one counted turn, whose start and end are
written apart, and none in the part with the host, where the questions do not depend
on it and `TabsNext` leaves out `rm`, `resume` and archiving, which touch no tab. The number
of crashes, failures and restarts is not bounded.

`server`, its dashboard: two sessions, both in tmux, and one superseded fetch that may
answer late besides the current one; two logs, a pane, caches of one entry
(so that they are emptied) and three fetches: one given up, one newer, one
after both. `sessions`, the plugin: any two of three OpenCode sessions, one of
another location and one a subagent's, with two events that wait, which is enough
for a replay to be overtaken and for events that still wait after one; a third session at once would
only repeat what the second is to the first. The reader: four rows of up to three
blocks, malformed, corrupt and marker rows among them, in two files with five changes;
reads of three blocks, records of two and one entry kept, so that every
limit is met, passed and met exactly, and a read may be cut or replaced at each of its steps.
Turns: four lines of each provider's log, enough for a prompt, work, a
marker or second prompt, and work after it. Commands: two sessions of each kind, two agents, two
hosts and two panes, with three steps of agents and users besides the hooks and
reports, which are not bounded: two of them before a command and one within it
make every swap of two tabs, panes or process ids. `agents`: two Claude sessions, one of
Desktop, with four moves of agent and hooks for one, for the other, or shared
(`Budgets`); one DeepSeek session, for sessions do not meet in the plugin, with two requests
and three reports on their way, so that a report may be overtaken by two others; one client
that changes the file and one that reads it, one kill and one start
by hand. A deadlock check is made in every run but those of `MCAgents` and
`MCSessions`, where scripts of bounded moves end. No symmetry is used, for the
instances are small and several runs have liveness properties.

Fairness. `WF(Poll)`: a script that polls does so every 500 ms, `wait_for` has
no other way out; nothing is assumed of its deadline or of the agents.
`WF(Tick)` and `WF(Prune)`: time passes, and the heartbeat thread prunes every
5 s. Of the agents nothing is assumed: they may die or fall silent at any point.
`WF(DiscoverFirst)`, `WF(Discover)`: discovery runs on every heartbeat.
`SF(Read)`, `SF(Store)`: some of the calls of `claude agents` succeed, though any of
them may fail. `SF(Flush(shelved))`: the plugin's heartbeat goes on for ever (strong, for the bound
on reports disables it now and then) and some of its reads of the archive
set are not torn; `SF(DeliverOne(id))`: of a session that is reported at every
heartbeat some report gets through, though any one may be lost. In `ServerStart` each server process runs
on (`WF(Serves(p))`) unless it is killed, systemd starts an active unit (`WF(UnitStarts)`), and a client that holds the
file finishes (`WF(UseFile(c))`); nobody has to run a command, and
`ServerComesBack` speaks of the time after the last of them.

## Proofs

All theorems hold for every value of the constants that satisfies the named
assumptions: `HookConstants`, `StoreConstants`, `DiscoveryConstants`,
`ServerStartAssumption`, `ListConstants`, `PreviewConstants`, `PaneConstants`,
`OcConstants`, `ReaderConstants` and `TurnsAssumption`. They say that kinds of keys and processes do
not overlap and that bounds are numbers; beyond that, that a dashboard has finitely
many sessions, that a log's limits are at least one block, that a record may be
no longer than a read (256 KiB and 1 MiB, `transcript.rs:17-18`), and that logs are those of
the six providers that have parsers.

`HookSessionsProofs`. `HookInv`, a conjunction of the type, of `SubagentsAreBusy`,
`ExitedIsDone` and `BusyTurnIsCounted`, is inductive because each part is about
single rows: lemmas say what `Apply` does to a row (`Put` and `Without` carry
the parts of the invariant from one bucket to the next), and one step per
action applies them. `BusyRootsSurvive` and `TurnLedger` are action properties
derived from the type part alone: the two lemmas about pruning say that it
keeps its own session, takes no busy one and changes no row; what is left is an end
of a session that the server does not put back, `session_end`. `HooksCountTurns` is the
refinement of `TurnCounter`: a row's ledger allows only the moves the abstract
counter has (`LedgerMoves`), and a row appears with an event that may open it
(`NewRow`). `TurnLedger` is proved and not checked by a run, for `CountsTurns` says the
same with less.

`AgentsProofs`, Claude's discovery, reuses both. `DiscoveryInv` adds to `HookInv` that only hooks
mark a session as exited (otherwise a listing could raise it from done), what the agents'
levels say of `rested`, and `Known`: a listing that names an agent at rest, and is not
older than its last report, names one that rested since. A hook that takes a session
out of `rested` also stamps it in both listings, which is why this is inductive.
`StaleRowsNeverEndTurns` and `DiscoveryCountsTurns` follow: a row made by a listing
satisfies the ledger as one made by a hook does.

`WaitTurnProofs`. `WaitInv` joins `HookInv` to three parts about the script:
its type, that a counter past the baseline implies `turned`, and that a verdict
`done` was reached on a counted turn. The second needs both halves of the life
of the row: while it is kept, its counter never falls below the baseline; once
it was dropped a later row begins at zero, so exceeding the baseline again takes
a Stop that reached the row, which is what `turned` records. `NoTurnIsEverMissed`
is the other direction: as long as the row is kept, an end the script has not
seen is still visible to its next poll. The handler is used as a black box, by
the lemmas of `HookSessionsProofs` about one report.

`BerthServerProofs`, the store. `StoreInv` is the type of the store together with the
pairing of every counter with its session, kept by each handler. The two
removal theorems say that a removed session is listed only if it is marked as
revived and some live snapshot is busy, that only a report creates either, and
that losing either hides it again: for any number of workers, hosts and
sessions. They need the newest of the live entries to exist, which is the one
place where the argument goes by the well-foundedness of the naturals.
`ClosedTabAlwaysHidden` speaks of a session that a single process reports, before and
after the step. With two rows, the newer of them may go and the older, of another
process that works, shows the session; that is what the code means to do. Then
the one row either speaks for the session in both states alike, or a report makes it
busy or an agent opens the tab. `StoreCountsTurns` is the refinement of `TurnCounter`: retention drops a counter only
with the last row that mentions its session.

`BerthServerProofs`, the server. `ServerInv` joins `StoreInv` to five parts: the same types
and pairing for the tables of the file (without it a restart could load
counters that memory may not have), the shape of `writing`, its control (rows to
be written are in memory, and transactions exist only while a server starts or
serves), the types of the history, and `PromisesKept`. A promise is made by the
commit of its own row, so the row is in memory when it reaches the file; a later
commit of the whole table writes memory, which has it too; a restart loads it
from the file; only retention and `resume` drop it, and both end the promise.
`RestartedTurnsPaired` follows from the parts about memory and file.

Four more properties each add what their argument needs. `PendingOK` says which lists of
transactions there are: what is left of all tables, of a report, or one mark; a
server that starts writes all tables. `TabsOK`: the tabs of memory are in the file
unless the holder of the mutex is about to write them, so `TabsAreDurable` needs
nothing of when the server dies. `SeenOK` follows the counters that clients read:
they are the file's while no server runs, memory's while one is up and no report is half
written, never above memory's, and never above the file's unless a report's
counters failed to be written (`lagging`). The order of a report's transactions, rows before
counters, is where this could fail: between the two the file has the new row and the counters
of before the report, or none, and no client has read later ones. `RevivedOK` relates
the sessions shown again by a start to live busy snapshots of the file it loaded.
`StartOK` says of a server that is starting that the half-written file agrees with memory:
the same rows, tabs, counters and marks but for those that the prune of the next start
drops again. Two lemmas, `RestoreAgrees` and `AgreeRecovers`, lead to it and from it:
the prune and the marks of a start computed from either give the same result.

`AgentsProofs`, starting servers. `StartInv` has two parts beside the types: whoever is past the step
that takes the database lock holds it, so that at most one process has a store; and
an acknowledged removal is in the file and in the store of the process that holds the
lock. A client without a server may write the file only while nobody holds the lock,
and a process reads the file only after it has it, so neither can miss what
the other did. `ListingsAlwaysShowRemovals` follows for any number of processes and
clients, killed or stopped at any step.

`TuiProofs`, the list. `ListInv`: a dialog acts on the session that was under the cursor when
it opened, removed sessions are hidden from the server's listings, and an answer that
will still be shown was read after every removal. The last part is what the
generation numbers are for; `RefreshIsClean` says that asking anew makes every answer
that was read before stale. `RemovesWhatWasAlwaysPointedAt` and
`RemovedAlwaysStaysOffScreen` follow.

`ShapeInv` is about the rows themselves: each session once, and the cursor on one of the
visible ones. The places that a filter leaves are a set, and the cursor is a rank
among them; `RanksCount` says that ranks number any set of places without a gap
(by induction over the places), `RestoredFollows` that looking up the session that was
under the cursor gives its rank, and `ClampInBounds` the rest. `SelectionAlwaysFollows` then
holds for lists of any length, any order of new rows, and any filter.

`TuiProofs`, the preview. The invariant keys each cached, shown or travelling text by
the question it answers, says that nothing is newer than the last question, and that
`inFlight` is either free or that question. `PreviewIsAlwaysOfSelected`,
`InFlightIsAlwaysOutstanding` and `LogPreviewIsAlwaysSteady` follow for caches of any size.

`ClientsProofs`, the commands in tmux. `PaneInv` has three parts: the scene (a process that is
gone has no tabs), the server's record of it, and `CmdOK`, what a command knows of the
settled sessions. After the listing their rows are right (`RowRight`); after the look at
panes and processes, either every other settled session outlives the pane that
`stop` found (`Spared`: it is a tab that another host has, too, or is not in the pane),
or the session that `send` types for is on show there. `OthersAreSpared` and
`FoundIsOnShow` are the two arguments from the first to the second; `HappensKeepsCmd`
says that agents and users can only unsettle a session.

`ClientsProofs`, the reader of a live preview. `LogInv` holds at every step of a read. Of a reader of
the file at the path that was not torn it says, while no read has passed the comparison, that
it either *agrees* with the file or is *outdated*, and from there to the new checkpoint that what
it has read is of this file (`Reads`). One that agrees (`HasRead`) jumped to some
block or started at the first, and has read from there to its offset: it keeps the line it is in as
long as that may be a record (`LineKept`), shows the newest row it could tell from
the start (`NewestShown`), and without the note on omitted records its entries
are what a full reading gives (`Upto`), where a corrupt frame adds nothing. One that is
outdated holds a row in its checkpoint
that was cut and is never written again, so the next read starts over:
this is why the checkpoint is enough even if the file has grown past the old
offset by then. `RowsOfBlocks` gives the rows of a log from its blocks; `FeedReads` is
one block, by whether it is within a row, ends one that is kept or ends one that
was too long; `FedReads` is a whole part, by induction; `FramesOf` says what the
frames of a compressed part are; `PartReads` puts a jump and a part
together; and growth, truncation and replacement each have a lemma, in which a cut within a
read is what tears it. The checkpoint of a file that
shrank before it was taken is one that nothing matches. `NothingIsEverMissingUnsaid` and
`NewestIsAlwaysShown` follow for rows and limits of any size.

`TurnsProofs`, the turns of a log. `HarnessInv` says what a log is, whatever provider wrote it:
messages are numbered from one, only the newest is written again, and at each place in
the log no more results than calls came before (`Balanced`, kept by `LogGoesOn` for a new row and
for one that grows alike). From it `TurnsAlwaysFollowRequests` follows for logs of any length,
part by part, each by induction over the records. `AllRowsOK` goes through the providers'
rows: what is not a result says one of nine things. `TurnsLaid` gives that turns
are the log, and the turn of each record; `OneTurn` that two records of work share one
unless work was asked for in between, for a turn with output can only be followed by a new
one when that happens; `NewestTurn` that the newest turn has text, or an end, exactly if
the records since the last request have; `PendingBounded` that the calls at its end are
among those that wait: `EntriesCount` goes entry by entry, and a turn that opens
starts from none; `LatestIs` counts the turns that are shown.

`AgentsProofs`, the plugin in OpenCode 2. `OcInv`: of every live session of the location that was not
overtaken, the last of its events
that wait tells whether it runs, or else the plugin's running set does (`Tells`), and
the open requests of all sessions but subagents' are told. Of an execution from before
the plugin nothing is claimed until its first event. `RunEventTells` says that handling one event keeps this, whatever
waits; an answer moves no event, so that only an event of its session can come ahead
of those that wait, and that one is what `overtaken` notes; a replay is the same for each event in turn (`ReplayKeeps`), where the events
that still wait are shown to follow the order they came in. `ReportsAlwaysTrue` follows for any number
of sessions and waiting events.

`FoldLemmas`. The backends cannot use a theorem about a predicate, so its inductions
are stated of sets of numbers and proved from the well-foundedness of the naturals;
`FoldExists` and `FoldLeftSteps` give for a fold over a sequence the values it
goes through. A module that folds an operator takes the lemmas as an `INSTANCE` for it.

Left to TLC: all liveness, which is out of the prover's reach (`EndedTurnIsReported`,
`DeadAgentsLeave`, `DeadAgentsAreForgotten`, `LostStopIsNoticed`, `RowsFollowTheApp`,
`ServerComesBack`). Every other property of a passing run is a theorem.

## What is not modelled

- The hooks table of the database. `discover` tells only of archived rows
  (`providers/mod.rs:144`), so that listings change rows in memory that the file has not;
  `ClaudeDiscovery` has the rows and `BerthServer` the file of plugin sessions.
- The archives that a listing reads outside the lock (`server.rs:136`), and the
  order of `resume`'s launch and of its mark (`resume.rs:82`): in both the window is one between an
  agent's files and a mark, and the models take the two as one step.
- The reporters of OpenCode 1 and pi: smaller forms of the one that is modelled, whose
  reports are among those `BerthStore` takes. Codex's discovery.
- `list`, `pick`, `search`, `git`, `doctor`, `self`, `setup`, `stats`, paths and the
  command line: sequential, with no state that another part reads.
- Terminals outside tmux, focus of desktop applications, windows of niri: calls of
  other programs whose effect the code does not look at.
- Windows: named pipes, the scheduled task, process probes.
- Memos, titles, working directories, fronts, delegators: shown, and read by no
  decision in the modelled parts.

What would come next, were the project to grow: the hooks table in `BerthServer`, which is
`Discover` and `Report` as handlers beside `Update`; and an abstract store whose
restart changes nothing a user sees, which `BerthServer` implements as long as
every write succeeds and but for the resume marks.
