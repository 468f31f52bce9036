---------------------------- MODULE ClaudeDiscovery ----------------------------
(***************************************************************************)
(* Claude Code is watched twice: by its hooks (HookSessions) and, every    *)
(* five seconds, by `claude agents --json`, which tells what each agent is *)
(* doing but costs a subprocess.  The server serves the last listing it    *)
(* has and lets a background thread fetch the next one, so what a refresh  *)
(* folds into the bucket is always some seconds old, and hooks arrive in   *)
(* between.                                                                *)
(*                                                                         *)
(* Times are compared, never read: a listing is older than the last report *)
(* of the sessions in its `newer`.  (A report in the very millisecond in   *)
(* which a fetch starts counts as older here and as newer in the code,     *)
(* which puts off what the listing says to the next one.)                  *)
(***************************************************************************)
EXTENDS HookSessions

CONSTANTS
  PidOf,     \* the process of each session
  Desktop,   \* the sessions Claude Desktop runs, with a file each
  Budgets    \* bounds of what the agents do: the moves and hooks of each

ASSUME DiscoveryConstants ==
  /\ PidOf \in [Root -> Pid]
  /\ Desktop \subseteq Root
  /\ Budgets \subseteq [Root -> Nat]

VARIABLES
  hooked,    \* the rows a hook has reported (AgentSession.hooked)
  found,     \* the rows discovery made (AgentSession.discovered)
  agent,     \* what `claude agents` would say of each session now
  archivedIds, \* the Desktop sessions their user archived
  cache,     \* AgentsCache: the last listing
  fetch,     \* the fetch under way: nothing, started, or read and not stored
  rested,    \* history: the agents that were at rest since their last report
  left       \* what each agent may still do

claude == <<agent, archivedIds, rested, left>>
discoveryVars == <<sessions, hooked, found, cache, fetch, claude>>

Doing == {"gone", "idle", "running", "waiting", "stopped"}

None == [at |-> "none", rows |-> EmptyMap, newer |-> {}]
Listing(at, rows, newer) == [at |-> at, rows |-> rows, newer |-> newer]

-------------------------------------------------------------------------------
(***************************************************************************)
(* apply_agents: what a listing does to the bucket.                        *)
(***************************************************************************)
\* AgentSession::observe
Observe(row, status) ==
  [row EXCEPT !.status = status,
              !.started = IF row.status \notin Busy /\ status \in Busy THEN @ + 1 ELSE @,
              !.ended = IF row.status \in Busy /\ status \notin Busy THEN @ + 1 ELSE @]

\* A hooked row is not raised, because a listing says busy while a Stop hook
\* runs; an idle one ends a run whose Stop was lost, unless it is older than
\* the last report.
\* Mutant: whatever the age of the listing.
SettleAnyAge(row, said, older) ==
  CASE said = "idle" /\ row.status = "running" -> Observe(row, "done")
    [] said # "idle" /\ row.status = "idle" -> Observe(row, said)
    [] OTHER -> row

\* Mutant: an idle listing does not end a run.
SettleNever(row, said, older) ==
  IF said # "idle" /\ row.status = "idle" THEN Observe(row, said) ELSE row

Settle(row, said, older) ==
  CASE said = "idle" /\ row.status = "running" /\ ~older -> Observe(row, "done")
    [] said # "idle" /\ row.status = "idle" -> Observe(row, said)
    [] OTHER -> row

Finished(list) == {s \in DOMAIN list.rows : list.rows[s] = "stopped"}
Listed(list)   == DOMAIN list.rows \ Finished(list)

\* Rows that follow the listing as it is: no hook ever reported them, and they
\* are new or not idle in it.  They count as reported when they are discovery's.
Followed(list) == {s \in Listed(list) \ hooked : s \notin DOMAIN sessions \/ list.rows[s] # "idle"}

\* Mutant: the row is made anew from the listing.
RowFromFresh(list, s) ==
  LET said == list.rows[s]
      row  == IF s \in Followed(list) THEN Observe(FreshRow, said)
              ELSE Settle(sessions[s], said, s \in list.newer)
  IN  [row EXCEPT !.pid = PidOf[s],
                  !.source = IF s \in Desktop \ archivedIds THEN "desktop" ELSE @]

RowFrom(list, s) ==
  LET said == list.rows[s]
      row  == IF s \in Followed(list) THEN Observe(RowOf(sessions, s), said)
              ELSE Settle(sessions[s], said, s \in list.newer)
  IN  [row EXCEPT !.pid = PidOf[s],
                  !.source = IF s \in Desktop \ archivedIds THEN "desktop" ELSE @]

\* A finished session leaves with its subagents; one the listing does not name
\* stays only if its hooks made it and Desktop does not run it.
Merged(list) ==
  LET gone == Finished(list) \cup UNION {Subagents(s) : s \in Finished(list)}
      all  == (DOMAIN sessions \ gone) \cup Listed(list)
      rows == [s \in all |-> IF s \in Listed(list) THEN RowFrom(list, s) ELSE sessions[s]]
  IN  Without(rows, {s \in all \ Listed(list) : s \in found \/ rows[s].source = "desktop"})

-------------------------------------------------------------------------------
(***************************************************************************)
(* discover, on every heartbeat and with the store locked: list_agents,    *)
(* apply_agents, then drop_archived, which alone tells the caller that     *)
(* rows changed.                                                           *)
(***************************************************************************)
Flags == /\ hooked' = hooked \cap DOMAIN sessions'
         /\ found'  = (found \cup (DOMAIN sessions' \ DOMAIN sessions)) \cap DOMAIN sessions'

Serve(list) == /\ sessions' = Without(Merged(list), archivedIds)
               /\ Flags

Now == [s \in {t \in Root : agent[t] # "gone"} |-> agent[s]]

\* With no listing yet the first call waits for one.
DiscoverFirst ==
  /\ cache = None /\ fetch = None
  /\ LET list == Listing("read", Now, {})
     IN  /\ Serve(list)
         /\ cache' = [list EXCEPT !.newer = Followed(list)]
  /\ UNCHANGED <<fetch, claude>>

\* claude is not there, fails or takes more than two seconds.
DiscoverNothing ==
  /\ cache = None /\ fetch = None
  /\ sessions' = Without(sessions, archivedIds)
  /\ Flags
  /\ UNCHANGED <<cache, fetch, claude>>

\* Else the last listing is served and the next fetch starts, at about the time
\* the rows the listing drives are stamped.
Discover ==
  /\ cache # None
  /\ Serve(cache)
  /\ cache' = [cache EXCEPT !.newer = @ \cup Followed(cache)]
  /\ \E late \in SUBSET Followed(cache) :
       fetch' = IF fetch = None THEN Listing("started", EmptyMap, late)
                ELSE [fetch EXCEPT !.newer = @ \cup Followed(cache)]
  /\ UNCHANGED claude

\* The subprocess looks at the agents, and its answer is stored later.
Read == /\ fetch.at = "started"
        /\ fetch' = Listing("read", Now, fetch.newer)
        /\ UNCHANGED <<sessions, hooked, found, cache, claude>>

Store == /\ fetch.at = "read"
         /\ cache' = fetch
         /\ fetch' = None
         /\ UNCHANGED <<sessions, hooked, found, claude>>

\* A fetch that fails leaves the last listing, with its age.
Miss == /\ fetch # None
        /\ fetch' = None
        /\ UNCHANGED <<sessions, hooked, found, cache, claude>>

-------------------------------------------------------------------------------
(***************************************************************************)
(* The agents.                                                             *)
(***************************************************************************)
Spend(s) == left[s] > 0 /\ left' = [left EXCEPT ![s] = @ - 1]

Move(s, now) ==
  /\ now # agent[s] /\ Spend(s)
  /\ agent' = [agent EXCEPT ![s] = now]
  /\ rested' = IF now \in Busy THEN rested ELSE rested \cup {s}
  /\ UNCHANGED <<sessions, hooked, found, archivedIds, cache, fetch>>

\* Claude Desktop's user archives a session.
Archive(s) ==
  /\ s \in Desktop \ archivedIds /\ Spend(s)
  /\ archivedIds' = archivedIds \cup {s}
  /\ UNCHANGED <<sessions, hooked, found, agent, cache, fetch, rested>>

Stamped(list, s) == IF list = None THEN list ELSE [list EXCEPT !.newer = @ \cup {s}]

\* A hook reports the session while it works, or late; touch_session stamps the
\* row, if there is one when the event is in.
HookReports(e) ==
  /\ e.sid \in Root /\ e.pid = PidOf[e.sid]
  /\ e.source = (IF e.sid \in Desktop THEN "desktop" ELSE "cli")
  /\ Spend(e.sid)
  /\ Report(e)
  /\ LET s == e.sid
     IN  IF s \in DOMAIN sessions'
           THEN /\ hooked' = (hooked \cap DOMAIN sessions') \cup {s}
                /\ cache' = Stamped(cache, s) /\ fetch' = Stamped(fetch, s)
                /\ rested' = IF agent[s] \in Busy THEN rested \ {s} ELSE rested \cup {s}
           ELSE /\ hooked' = hooked \cap DOMAIN sessions'
                /\ UNCHANGED <<cache, fetch, rested>>
  /\ found' = found \cap DOMAIN sessions'
  /\ UNCHANGED <<agent, archivedIds>>

DiscoveryInit ==
  /\ Init
  /\ hooked = {} /\ found = {} /\ archivedIds = {}
  /\ agent = [s \in Root |-> "gone"]
  /\ cache = None /\ fetch = None
  /\ rested = Root
  /\ left \in Budgets

DiscoveryNext ==
  \/ DiscoverFirst \/ DiscoverNothing \/ Discover \/ Read \/ Store \/ Miss
  \/ \E s \in Root : Archive(s) \/ \E now \in Doing : Move(s, now)
  \/ \E e \in Event : HookReports(e)

\* The heartbeat comes every five seconds, and `claude agents` answers again
\* and again, even if some calls fail.
DiscoveryFairness ==
  WF_discoveryVars(DiscoverFirst) /\ WF_discoveryVars(Discover)
  /\ SF_discoveryVars(Read) /\ SF_discoveryVars(Store)

DiscoverySpec == DiscoveryInit /\ [][DiscoveryNext]_discoveryVars /\ DiscoveryFairness

-------------------------------------------------------------------------------
\* A listing ends a run only if the agent rested at some time since its last
\* report: one that was read before the prompt of a new turn, or while its
\* hooks came in, never does (claude.rs:618-624).
StaleRowEndsNoTurn ==
  [][Discover \/ DiscoverFirst =>
       \A s \in DOMAIN sessions \cap DOMAIN sessions' \cap Root :
          sessions[s].status \in Busy /\ sessions'[s].status \notin Busy
            => s \in rested]_discoveryVars

\* A session whose Stop hook never arrived is not left running: once its agent
\* stays idle, a listing says so.
LostStopIsNoticed ==
  \A s \in Root : (left[s] = 0 /\ agent[s] = "idle")
    ~> [](s \in DOMAIN sessions => sessions[s].status # "running")

\* README.md:389-390: `resume` also offers the sessions that ended gracefully, so
\* one of the terminal that hooks reported stays in the store when the listing
\* no longer names it.
EndedSessionsAreKept ==
  [][Discover /\ cache.at = "read" =>
       \A s \in hooked \ Desktop :
          s \notin DOMAIN cache.rows => s \in DOMAIN sessions']_discoveryVars
===============================================================================
