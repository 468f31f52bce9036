----------------------------- MODULE AgentsProofs -----------------------------
(***************************************************************************)
(* What the server learns of agents besides their hooks, and that there is  *)
(* one server which learns it: theorems about Claude's listings, the start  *)
(* of servers and the OpenCode 2 plugin.                                    *)
(***************************************************************************)
EXTENDS ClaudeDiscovery, ServerStart, OpencodeReporter, HookSessionsProofs

(***************************************************************************)
(* What a late listing of `claude agents` may do to the bucket that hooks  *)
(* fill, for any sessions, processes and hooks.                            *)
(***************************************************************************)
IsListing(l) ==
  /\ l = Listing(l.at, l.rows, l.newer)
  /\ DOMAIN l.rows \subseteq Root
  /\ l.rows \in [DOMAIN l.rows -> Doing \ {"gone"}]

\* The listing names an agent at rest, and no report came since it was read: the
\* agent did rest since its last report.
Known(l) == \A s \in DOMAIN l.rows \ l.newer : l.rows[s] \notin Busy => s \in rested

\* A session exits by a hook, so that no listing raises it afterwards.
HooksKnown ==
  /\ hooked \subseteq DOMAIN sessions
  /\ \A s \in DOMAIN sessions : sessions[s].exited => s \in hooked

AgentsKnown ==
  /\ agent \in [Root -> Doing]
  /\ \A s \in Root : agent[s] \notin Busy => s \in rested

ListingsKnown == IsListing(cache) /\ IsListing(fetch) /\ Known(cache) /\ Known(fetch)

DiscoveryInv == HookInv /\ HooksKnown /\ AgentsKnown /\ ListingsKnown

-------------------------------------------------------------------------------
(***************************************************************************)
(* Listings.                                                               *)
(***************************************************************************)
LEMMA ListedType ==
  ASSUME NEW list, IsListing(list), NEW s \in Listed(list)
  PROVE  s \in Root /\ list.rows[s] \in {"idle", "running", "waiting"}
  BY DEF IsListing, Listed, Finished, Doing

\* No listing, or one that is still being read, says nothing.
LEMMA EmptyListing ==
  ASSUME NEW at, NEW newer
  PROVE  IsListing(Listing(at, EmptyMap, newer)) /\ Known(Listing(at, EmptyMap, newer))
  BY DEF IsListing, Known, Listing, EmptyMap

LEMMA NoneListing == IsListing(None) /\ Known(None)
<1>1. None = Listing("none", EmptyMap, {})
  BY DEF None, Listing
<1>2. QED
  BY <1>1, EmptyListing

\* What the agents do now is known.
LEMMA NowListing ==
  ASSUME AgentsKnown, NEW newer
  PROVE  IsListing(Listing("read", Now, newer)) /\ Known(Listing("read", Now, newer))
<1> DEFINE list == Listing("read", Now, newer)
<1>1. list.rows = Now /\ list.newer = newer /\ list = Listing(list.at, list.rows, list.newer)
  BY DEF Listing
<1> HIDE DEF list
<1>2. /\ DOMAIN Now = {t \in Root : agent[t] # "gone"}
      /\ \A s \in DOMAIN Now : Now[s] = agent[s] /\ agent[s] \in Doing \ {"gone"}
  BY DEF Now, AgentsKnown
<1>3. Now \in [DOMAIN Now -> Doing \ {"gone"}]
  BY <1>2 DEF Now
<1>4. QED
  BY <1>1, <1>2, <1>3 DEF IsListing, Known, AgentsKnown, list

\* A listing that counts as older for more sessions claims less.
LEMMA OlderListing ==
  ASSUME NEW list, IsListing(list), Known(list), NEW S
  PROVE  LET older == [list EXCEPT !.newer = @ \cup S]
         IN  IsListing(older) /\ Known(older)
<1> DEFINE older == [list EXCEPT !.newer = @ \cup S]
<1>1. list = Listing(list.at, list.rows, list.newer)
  BY DEF IsListing
<1>2. older = Listing(list.at, list.rows, list.newer \cup S)
  BY <1>1 DEF Listing
<1> HIDE DEF older
<1>3. older.at = list.at /\ older.rows = list.rows /\ older.newer = list.newer \cup S
  BY <1>2 DEF Listing
<1>4. QED
  BY <1>2, <1>3 DEF IsListing, Known, older

-------------------------------------------------------------------------------
(***************************************************************************)
(* The row a listing makes of one.                                         *)
(***************************************************************************)
LEMMA ObservedRow ==
  ASSUME NEW row \in Row, NEW status \in Status,
         row.status \in Busy => row.started > 0,
         row.exited => status = row.status
  PROVE  LET new == Observe(row, status)
         IN  /\ new \in Row /\ new.status = status /\ new.exited = row.exited
             /\ status \in Busy => new.started > 0
             /\ new.started = IF row.status \notin Busy /\ status \in Busy
                                THEN row.started + 1 ELSE row.started
             /\ new.ended = IF row.status \in Busy /\ status \notin Busy
                              THEN row.ended + 1 ELSE row.ended
<1> DEFINE new == Observe(row, status)
<1>1. row.started \in Nat /\ row.ended \in Nat
  BY DEF Row
<1> DEFINE begun == IF row.status \notin Busy /\ status \in Busy
                     THEN row.started + 1 ELSE row.started
           over  == IF row.status \in Busy /\ status \notin Busy
                     THEN row.ended + 1 ELSE row.ended
<1>2. new = [row EXCEPT !.status = status, !.started = begun, !.ended = over]
  BY DEF Observe
<1>3. begun \in Nat /\ over \in Nat
  BY <1>1
<1>4. status \in Busy => begun > 0
  BY <1>1
<1> HIDE DEF begun, over, new
<1>5. /\ new \in Row /\ new.status = status /\ new.exited = row.exited
      /\ new.started = begun /\ new.ended = over
  BY <1>2, <1>3 DEF Row
<1>6. QED
  BY <1>5, <1>4 DEF new, begun, over

\* An observation that does not take a working session to `idle` keeps the ledger.
LEMMA ObservedLedger ==
  ASSUME NEW row \in Row, NEW status \in Status,
         row.status \in Busy => row.started > 0,
         row.exited => status = row.status,
         row.status \in Busy /\ status \notin Busy => status = "done"
  PROVE  LedgerOf(row, Observe(row, status))
<1> DEFINE new == Observe(row, status)
<1>1. /\ new.status = status
      /\ new.started = IF row.status \notin Busy /\ status \in Busy
                         THEN row.started + 1 ELSE row.started
      /\ new.ended = IF row.status \in Busy /\ status \notin Busy
                       THEN row.ended + 1 ELSE row.ended
  BY ObservedRow
<1> HIDE DEF new
<1>2. row.ended \in Nat
  BY DEF Row
<1>3. QED
  BY <1>1, <1>2 DEF LedgerOf, new

\* Settling a row that hooks keep: it ends a run or tells of one, and no more.
LEMMA SettledRow ==
  ASSUME NEW s, NEW row \in Row, GoodRow(s, row), NEW said \in {"idle", "running", "waiting"},
         NEW older \in BOOLEAN, s \notin Child
  PROVE  LET new == Settle(row, said, older)
         IN  /\ new \in Row /\ new.exited = row.exited /\ GoodRow(s, new)
             /\ LedgerOf(row, new)
             /\ row.status \in Busy /\ new.status \notin Busy => said = "idle" /\ ~older
<1> DEFINE new == Settle(row, said, older)
<1>1. row.status \in Busy => row.started > 0
  BY DEF GoodRow
<1>2. CASE said = "idle" /\ row.status = "running" /\ ~older
  <2>1. new = Observe(row, "done") /\ ~row.exited
    BY <1>2 DEF Settle, GoodRow
  <2>2. "done" \in Status /\ "done" \notin Busy
    BY DEF Status, Busy
  <2>3. QED
    BY <1>1, <1>2, <2>1, <2>2, ObservedRow, ObservedLedger DEF GoodRow
<1>3. CASE said # "idle" /\ row.status = "idle"
  <2>1. new = Observe(row, said) /\ ~row.exited /\ row.status \notin Busy
    BY <1>3 DEF Settle, GoodRow, Busy
  <2>2. said \in Status
    BY DEF Status
  <2>3. QED
    BY <1>1, <1>3, <2>1, <2>2, ObservedRow, ObservedLedger DEF GoodRow
<1>4. CASE ~(said = "idle" /\ row.status = "running" /\ ~older)
           /\ ~(said # "idle" /\ row.status = "idle")
  <2>1. new = row
    BY <1>4 DEF Settle
  <2>2. QED
    BY <2>1, LedgerRefl
<1>5. QED
  BY <1>2, <1>3, <1>4

\* The pid and the source of a row are in no part of the invariant.
LEMMA NamedRow ==
  ASSUME NEW row \in Row, NEW pid \in Pid, NEW source \in Source
  PROVE  LET new == [row EXCEPT !.pid = pid, !.source = source]
         IN  /\ new \in Row
             /\ new.status = row.status /\ new.exited = row.exited
             /\ new.started = row.started /\ new.ended = row.ended
  BY DEF Row, MaybePid

\* What Merged writes for a session the listing names.
LEMMA ListedRow ==
  ASSUME HookInv, HooksKnown, NEW list, IsListing(list), NEW s \in Listed(list)
  PROVE  LET row == RowFrom(list, s)
         IN  /\ row \in Row /\ GoodRow(s, row)
             /\ row.exited => s \in DOMAIN sessions /\ sessions[s].exited
             /\ s \in DOMAIN sessions
                  => /\ LedgerOf(sessions[s], row)
                     /\ sessions[s].status \in Busy /\ row.status \notin Busy
                          => list.rows[s] \notin Busy /\ s \notin list.newer
             /\ s \notin DOMAIN sessions => Counter!Appears(CountOf(row))
<1> DEFINE said   == list.rows[s]
           made   == IF s \in Followed(list) THEN Observe(RowOf(sessions, s), said)
                     ELSE Settle(sessions[s], said, s \in list.newer)
           source == IF s \in Desktop \ archivedIds THEN "desktop" ELSE made.source
           row    == [made EXCEPT !.pid = PidOf[s], !.source = source]
<1>1. row = RowFrom(list, s)
  BY DEF RowFrom
<1>2. s \in Root /\ s \in Sid /\ s \notin Child /\ said \in {"idle", "running", "waiting"}
  BY ListedType, HookConstants DEF Sid
<1>3. PidOf[s] \in Pid
  BY <1>2, DiscoveryConstants
<1>4. s \in DOMAIN sessions => sessions[s] \in Row /\ GoodRow(s, sessions[s])
  BY DEF HookInv, Good, IsBucket
<1>5. said \in Status
  BY <1>2 DEF Status
<1> HIDE DEF said
<1>6. /\ made \in Row /\ GoodRow(s, made)
      /\ made.exited => s \in DOMAIN sessions /\ sessions[s].exited
      /\ s \in DOMAIN sessions
           => /\ LedgerOf(sessions[s], made)
              /\ sessions[s].status \in Busy /\ made.status \notin Busy
                   => said \notin Busy /\ s \notin list.newer
      /\ s \notin DOMAIN sessions => Counter!Appears(CountOf(made))
  <2>1. CASE s \in Followed(list) /\ s \in DOMAIN sessions
    <3>1. /\ made = Observe(sessions[s], said)
          /\ s \notin hooked /\ said # "idle"
      BY <2>1 DEF RowOf, Followed, said
    <3>2. said \in Busy
      BY <1>2, <3>1 DEF Busy
    <3>3. ~sessions[s].exited /\ (sessions[s].status \in Busy => sessions[s].started > 0)
      BY <1>4, <2>1, <3>1 DEF HooksKnown, GoodRow
    <3>4. /\ made \in Row /\ made.status = said /\ ~made.exited /\ made.started > 0
          /\ LedgerOf(sessions[s], made)
      BY <1>4, <1>5, <2>1, <3>1, <3>2, <3>3, ObservedRow, ObservedLedger
    <3> HIDE DEF made
    <3>5. QED
      BY <1>2, <2>1, <3>2, <3>4 DEF GoodRow
  <2>2. CASE s \notin DOMAIN sessions
    <3>1. made = Observe(FreshRow, said)
      BY <2>2 DEF RowOf, Followed, HooksKnown
    <3>2. /\ FreshRow \in Row /\ FreshRow.status \notin Busy /\ ~FreshRow.exited
          /\ FreshRow.started = 0 /\ FreshRow.ended = 0
      BY DEF FreshRow, Row, Status, Source, MaybePid, Busy
    <3>3. /\ made \in Row /\ made.status = said /\ ~made.exited
          /\ made.status \in Busy => made.started > 0
          /\ made.started = (IF said \in Busy THEN 0 + 1 ELSE 0)
          /\ made.ended = 0
      BY <1>5, <3>1, <3>2, ObservedRow
    <3> HIDE DEF made
    <3>4. GoodRow(s, made)
      BY <1>2, <3>3 DEF GoodRow
    <3>5. Counter!Appears(CountOf(made))
      <4>1. CASE said \in Busy
        <5>1. (made.status \in Busy) = TRUE
          BY <3>3, <4>1
        <5>2. CountOf(made) = Counter!Count(0 + 1, 0, TRUE)
          BY <3>3, <4>1, <5>1 DEF CountOf, Counter!Count
        <5>3. QED
          BY <5>2 DEF Counter!Appears, Counter!Begins, Counter!NoTurn, Counter!Count
      <4>2. CASE said \notin Busy
        <5>1. (made.status \in Busy) = FALSE
          BY <3>3, <4>2
        <5>2. CountOf(made) = Counter!Count(0, 0, FALSE)
          BY <3>3, <4>2, <5>1 DEF CountOf, Counter!Count
        <5>3. QED
          BY <5>2 DEF Counter!Appears, Counter!NoTurn
      <4>3. QED
        BY <4>1, <4>2
    <3>6. QED
      BY <2>2, <3>3, <3>4, <3>5
  <2>3. CASE s \notin Followed(list) /\ s \in DOMAIN sessions
    <3> DEFINE older == s \in list.newer
    <3>1. made = Settle(sessions[s], said, older)
      BY <2>3
    <3>2. older = TRUE \/ older = FALSE
      OBVIOUS
    <3> HIDE DEF older, made
    <3>3. /\ made \in Row /\ made.exited = sessions[s].exited /\ GoodRow(s, made)
          /\ LedgerOf(sessions[s], made)
          /\ sessions[s].status \in Busy /\ made.status \notin Busy
               => said = "idle" /\ ~older
      BY <1>2, <1>4, <2>3, <3>1, <3>2, SettledRow
    <3>4. QED
      BY <2>3, <3>3 DEF Busy, older
  <2>4. QED
    BY <2>1, <2>2, <2>3
<1> HIDE DEF made
<1>7. source \in Source
  BY <1>6 DEF Row, Source
<1> HIDE DEF source
<1>8. /\ row \in Row
      /\ row.status = made.status /\ row.exited = made.exited
      /\ row.started = made.started /\ row.ended = made.ended
  BY <1>3, <1>6, <1>7, NamedRow
<1> HIDE DEF row
<1>9. CountOf(row) = CountOf(made)
  BY <1>8 DEF CountOf
<1>10. GoodRow(s, row) /\ (s \in DOMAIN sessions => LedgerOf(sessions[s], row))
  BY <1>6, <1>8 DEF GoodRow, LedgerOf
<1>11. QED
  BY <1>1, <1>6, <1>8, <1>9, <1>10 DEF said

-------------------------------------------------------------------------------
(***************************************************************************)
(* Steps of the bucket: what one keeps and what it counts.                 *)
(***************************************************************************)
RowsKept ==
  \A s \in DOMAIN sessions' :
    /\ GoodRow(s, sessions'[s]) /\ s \in Sid /\ sessions'[s] \in Row
    /\ sessions'[s].exited => s \in DOMAIN sessions /\ sessions[s].exited
    /\ s \in DOMAIN sessions => LedgerOf(sessions[s], sessions'[s])
    /\ s \notin DOMAIN sessions => Counter!Appears(CountOf(sessions'[s]))

\* What discovery leaves as it was.
LEMMA UnchangedRow ==
  ASSUME HookInv, NEW s \in DOMAIN sessions
  PROVE  s \in Sid /\ sessions[s] \in Row /\ GoodRow(s, sessions[s])
         /\ LedgerOf(sessions[s], sessions[s])
  BY LedgerRefl DEF HookInv, Good, IsBucket

\* A listing that is served.
LEMMA ServedRows ==
  ASSUME HookInv, HooksKnown, NEW list, IsListing(list), Serve(list)
  PROVE  /\ RowsKept
         /\ sessions' \in [DOMAIN sessions' -> Row]
         /\ \A s \in DOMAIN sessions \cap DOMAIN sessions' :
              sessions[s].status \in Busy /\ sessions'[s].status \notin Busy
                => /\ s \in DOMAIN list.rows \ list.newer
                   /\ list.rows[s] \notin Busy
<1> DEFINE all  == (DOMAIN sessions \ (Finished(list) \cup UNION {Subagents(s) : s \in Finished(list)}))
                     \cup Listed(list)
           rows == [s \in all |-> IF s \in Listed(list) THEN RowFrom(list, s) ELSE sessions[s]]
           out  == {s \in all \ Listed(list) : s \in found \/ rows[s].source = "desktop"}
<1>1. sessions' = Without(Without(rows, out), archivedIds)
  BY DEF Serve, Merged
<1>2. DOMAIN rows = all /\ all \subseteq DOMAIN sessions \cup Listed(list)
  OBVIOUS
<1>3. \A s \in all : rows[s] = IF s \in Listed(list) THEN RowFrom(list, s) ELSE sessions[s]
  OBVIOUS
<1> HIDE DEF all, rows, out
<1>4. /\ DOMAIN sessions' \subseteq all
      /\ \A s \in DOMAIN sessions' : sessions'[s] = rows[s]
      /\ sessions' = [s \in DOMAIN sessions' |-> sessions'[s]]
  BY <1>1, <1>2 DEF Without, Restrict
<1>5. ASSUME NEW s \in DOMAIN sessions'
      PROVE  /\ GoodRow(s, sessions'[s]) /\ s \in Sid /\ sessions'[s] \in Row
             /\ sessions'[s].exited => s \in DOMAIN sessions /\ sessions[s].exited
             /\ s \in DOMAIN sessions => LedgerOf(sessions[s], sessions'[s])
             /\ s \notin DOMAIN sessions => Counter!Appears(CountOf(sessions'[s]))
             /\ s \in DOMAIN sessions /\ sessions[s].status \in Busy
                  /\ sessions'[s].status \notin Busy
                  => s \in DOMAIN list.rows \ list.newer /\ list.rows[s] \notin Busy
  <2>1. CASE s \in Listed(list)
    <3>1. sessions'[s] = RowFrom(list, s)
      BY <1>3, <1>4, <2>1
    <3>2. s \in Sid /\ s \in DOMAIN list.rows
      BY <2>1, ListedType DEF Sid, Listed
    <3>3. QED
      BY <2>1, <3>1, <3>2, ListedRow
  <2>2. CASE s \notin Listed(list)
    <3>1. s \in DOMAIN sessions /\ sessions'[s] = sessions[s]
      BY <1>2, <1>3, <1>4, <2>2
    <3>2. QED
      BY <3>1, UnchangedRow
  <2>3. QED
    BY <2>1, <2>2
<1>6. sessions' \in [DOMAIN sessions' -> Row]
  BY <1>4, <1>5
<1>7. QED
  BY <1>5, <1>6 DEF RowsKept

\* Rows that go with their archived session.
LEMMA DroppedRows ==
  ASSUME HookInv, sessions' = Without(sessions, archivedIds)
  PROVE  RowsKept /\ sessions' \in [DOMAIN sessions' -> Row]
<1>1. /\ DOMAIN sessions' \subseteq DOMAIN sessions
      /\ \A s \in DOMAIN sessions' : sessions'[s] = sessions[s]
      /\ sessions' = [s \in DOMAIN sessions' |-> sessions'[s]]
  BY DEF Without, Restrict
<1>2. RowsKept
  BY <1>1, UnchangedRow DEF RowsKept
<1>3. QED
  BY <1>1, <1>2 DEF RowsKept

\* Rows that are kept as above are a bucket of hook sessions.
LEMMA KeptInv ==
  ASSUME HookInv, HooksKnown, RowsKept, Flags, sessions' \in [DOMAIN sessions' -> Row]
  PROVE  HookInv' /\ HooksKnown'
<1>1. HookInv'
  BY DEF HookInv, Good, IsBucket, RowsKept
<1>2. HooksKnown'
  BY DEF HooksKnown, RowsKept, Flags
<1>3. QED
  BY <1>1, <1>2

\* And they move the counters as TurnCounter says.
LEMMA KeptCounts ==
  ASSUME HookInv, RowsKept, sessions' \in [DOMAIN sessions' -> Row]
  PROVE  Counter!Next
<1>1. DOMAIN sessions' \subseteq Sid
  BY DEF RowsKept
<1>2. ASSUME NEW s \in DOMAIN sessions \cap DOMAIN sessions'
      PROVE  Counter!Moves(CountOf(sessions[s]), CountOf(sessions'[s]))
  BY UnchangedRow, LedgerMoves DEF RowsKept
<1>3. \A s \in DOMAIN sessions' \ DOMAIN sessions : Counter!Appears(CountOf(sessions'[s]))
  BY DEF RowsKept
<1>4. QED
  BY <1>1, <1>2, <1>3 DEF Counter!Next, CountOf

-------------------------------------------------------------------------------
(***************************************************************************)
(* The steps of discovery.                                                 *)
(***************************************************************************)

\* What a step guarantees: the invariant, the counters, and that only a listing
\* that is fresh for a session ends its run.
RunsEndKnown ==
  \A s \in DOMAIN sessions \cap DOMAIN sessions' \cap Root :
    sessions[s].status \in Busy /\ sessions'[s].status \notin Busy => s \in rested

Counted == Counter!Next \/ UNCHANGED Counter!turnVars

LEMMA FirstStep ==
  ASSUME DiscoveryInv, DiscoverFirst
  PROVE  DiscoveryInv' /\ Counted /\ RunsEndKnown
<1> DEFINE list == Listing("read", Now, {})
<1>1. /\ Serve(list) /\ cache' = [list EXCEPT !.newer = Followed(list)]
      /\ UNCHANGED <<fetch, agent, rested>>
  BY DEF DiscoverFirst, claude
<1>2. IsListing(list) /\ Known(list)
  BY NowListing DEF DiscoveryInv
<1>3. list.newer = {}
  BY DEF Listing
<1> HIDE DEF list
<1>4. cache' = [list EXCEPT !.newer = list.newer \cup Followed(list)]
  BY <1>1, <1>3
<1>5. IsListing(cache') /\ Known(cache')
  BY <1>2, <1>4, OlderListing
<1>6. /\ RowsKept /\ sessions' \in [DOMAIN sessions' -> Row]
      /\ \A s \in DOMAIN sessions \cap DOMAIN sessions' :
           sessions[s].status \in Busy /\ sessions'[s].status \notin Busy
             => s \in DOMAIN list.rows \ list.newer /\ list.rows[s] \notin Busy
  BY <1>1, <1>2, ServedRows DEF DiscoveryInv
<1>7. HookInv' /\ HooksKnown'
  BY <1>1, <1>6, KeptInv DEF DiscoveryInv, Serve
<1>8. AgentsKnown' /\ ListingsKnown'
  BY <1>1, <1>5 DEF DiscoveryInv, AgentsKnown, ListingsKnown, Known, IsListing
<1>9. RunsEndKnown
  BY <1>2, <1>6 DEF RunsEndKnown, Known
<1>10. QED
  BY <1>6, <1>7, <1>8, <1>9, KeptCounts DEF DiscoveryInv, Counted

LEMMA NothingStep ==
  ASSUME DiscoveryInv, DiscoverNothing
  PROVE  DiscoveryInv' /\ Counted
<1>1. /\ sessions' = Without(sessions, archivedIds) /\ Flags
      /\ UNCHANGED <<cache, fetch, agent, rested>>
  BY DEF DiscoverNothing, claude
<1>2. RowsKept /\ sessions' \in [DOMAIN sessions' -> Row]
  BY <1>1, DroppedRows DEF DiscoveryInv
<1>3. HookInv' /\ HooksKnown'
  BY <1>1, <1>2, KeptInv DEF DiscoveryInv
<1>4. AgentsKnown' /\ ListingsKnown'
  BY <1>1 DEF DiscoveryInv, AgentsKnown, ListingsKnown, Known, IsListing
<1>5. QED
  BY <1>2, <1>3, <1>4, KeptCounts DEF DiscoveryInv, Counted

LEMMA DiscoverStep ==
  ASSUME DiscoveryInv, Discover
  PROVE  DiscoveryInv' /\ Counted /\ RunsEndKnown
<1>1. /\ Serve(cache) /\ UNCHANGED <<agent, rested>>
      /\ cache' = [cache EXCEPT !.newer = cache.newer \cup Followed(cache)]
  BY DEF Discover, claude
<1>2. IsListing(cache) /\ Known(cache) /\ IsListing(fetch) /\ Known(fetch)
  BY DEF DiscoveryInv, ListingsKnown
<1>3. IsListing(cache') /\ Known(cache')
  BY <1>1, <1>2, OlderListing
<1>4. IsListing(fetch') /\ Known(fetch')
  <2>1. PICK late \in SUBSET Followed(cache) :
          fetch' = IF fetch = None THEN Listing("started", EmptyMap, late)
                   ELSE [fetch EXCEPT !.newer = fetch.newer \cup Followed(cache)]
    BY DEF Discover
  <2>2. CASE fetch = None
    BY <2>1, <2>2, EmptyListing
  <2>3. CASE fetch # None
    BY <1>2, <2>1, <2>3, OlderListing
  <2>4. QED
    BY <2>2, <2>3
<1>5. /\ RowsKept /\ sessions' \in [DOMAIN sessions' -> Row]
      /\ \A s \in DOMAIN sessions \cap DOMAIN sessions' :
           sessions[s].status \in Busy /\ sessions'[s].status \notin Busy
             => s \in DOMAIN cache.rows \ cache.newer /\ cache.rows[s] \notin Busy
  BY <1>1, <1>2, ServedRows DEF DiscoveryInv
<1>6. HookInv' /\ HooksKnown'
  BY <1>1, <1>5, KeptInv DEF DiscoveryInv, Serve
<1>7. AgentsKnown' /\ ListingsKnown'
  BY <1>1, <1>3, <1>4 DEF DiscoveryInv, AgentsKnown, ListingsKnown, Known, IsListing
<1>8. RunsEndKnown
  BY <1>2, <1>5 DEF RunsEndKnown, Known
<1>9. QED
  BY <1>5, <1>6, <1>7, <1>8, KeptCounts DEF DiscoveryInv, Counted

\* A listing is read, stored or given up; an agent goes on, Desktop's user archives.
LEMMA OutsideStep ==
  ASSUME DiscoveryInv,
         \/ Read \/ Store \/ Miss
         \/ \E s \in Root : Archive(s) \/ \E now \in Doing : Move(s, now)
  PROVE  DiscoveryInv' /\ Counted
<1>1. UNCHANGED <<sessions, hooked>>
  BY DEF Read, Store, Miss, Archive, Move
<1>2. HookInv' /\ HooksKnown' /\ Counted
  BY <1>1 DEF DiscoveryInv, HookInv, HooksKnown, Counted, Counter!turnVars, CountOf
<1>3. AgentsKnown'
  BY DEF DiscoveryInv, AgentsKnown, Read, Store, Miss, Archive, Move, claude
<1>4. /\ cache' = cache \/ cache' = fetch
      /\ \/ fetch' = fetch \/ fetch' = None
         \/ fetch' = Listing("read", Now, fetch.newer)
  BY DEF Read, Store, Miss, Archive, Move
<1>5. rested \subseteq rested'
  BY DEF Read, Store, Miss, Archive, Move, claude
<1>6. /\ IsListing(cache) /\ Known(cache) /\ IsListing(fetch) /\ Known(fetch)
      /\ IsListing(None) /\ Known(None)
      /\ IsListing(Listing("read", Now, fetch.newer)) /\ Known(Listing("read", Now, fetch.newer))
  BY NoneListing, NowListing DEF DiscoveryInv, ListingsKnown
<1>7. IsListing(cache') /\ Known(cache') /\ IsListing(fetch') /\ Known(fetch')
  BY <1>4, <1>6
<1>8. ListingsKnown'
  BY <1>5, <1>7 DEF ListingsKnown, Known, IsListing
<1>9. QED
  BY <1>2, <1>3, <1>8 DEF DiscoveryInv

\* A listing with a stamp says nothing of the session it has it for.
LEMMA StampedListing ==
  ASSUME NEW list, IsListing(list), Known(list), NEW s
  PROVE  /\ IsListing(Stamped(list, s)) /\ Known(Stamped(list, s))
         /\ s \notin DOMAIN Stamped(list, s).rows \ Stamped(list, s).newer
<1>1. CASE list = None
  BY <1>1 DEF Stamped, None, EmptyMap
<1>2. CASE list # None
  <2>1. Stamped(list, s) = [list EXCEPT !.newer = list.newer \cup {s}]
    BY <1>2 DEF Stamped
  <2>2. list = Listing(list.at, list.rows, list.newer)
    BY DEF IsListing
  <2>3. Stamped(list, s) = Listing(list.at, list.rows, list.newer \cup {s})
    BY <2>1, <2>2 DEF Listing
  <2>4. s \in Stamped(list, s).newer
    BY <2>3 DEF Listing
  <2>5. QED
    BY <2>1, <2>4, OlderListing
<1>3. QED
  BY <1>1, <1>2

LEMMA HookReportsStep ==
  ASSUME DiscoveryInv, NEW e \in Event, HookReports(e)
  PROVE  DiscoveryInv' /\ Counted
<1> DEFINE s == e.sid
<1>1. Report(e) /\ s \in Root /\ UNCHANGED agent
  BY DEF HookReports
<1>2. StepOf(e) /\ Counted
  BY <1>1, ReportStep, HookCounts DEF DiscoveryInv, Next, Counted
<1>3. HookInv'
  BY <1>2 DEF StepOf
<1>4. Untouched(s)
  BY <1>2 DEF StepOf
<1>5. IsListing(cache) /\ Known(cache) /\ IsListing(fetch) /\ Known(fetch)
  BY DEF DiscoveryInv, ListingsKnown
<1>6. CASE s \in DOMAIN sessions'
  <2>1. /\ hooked' = (hooked \cap DOMAIN sessions') \cup {s}
        /\ cache' = Stamped(cache, s) /\ fetch' = Stamped(fetch, s)
        /\ rested' = IF agent[s] \in Busy THEN rested \ {s} ELSE rested \cup {s}
    BY <1>6 DEF HookReports
  <2>2. HooksKnown'
    BY <1>4, <1>6, <2>1 DEF DiscoveryInv, HooksKnown, Untouched
  <2>3. AgentsKnown'
    BY <1>1, <2>1 DEF DiscoveryInv, AgentsKnown
  <2>4. /\ IsListing(cache') /\ Known(cache') /\ s \notin DOMAIN cache'.rows \ cache'.newer
        /\ IsListing(fetch') /\ Known(fetch') /\ s \notin DOMAIN fetch'.rows \ fetch'.newer
    BY <1>5, <2>1, StampedListing
  <2>5. \A t \in rested : t = s \/ t \in rested'
    BY <2>1
  <2>6. ListingsKnown'
    BY <2>4, <2>5 DEF ListingsKnown, Known, IsListing
  <2>7. QED
    BY <1>2, <1>3, <2>2, <2>3, <2>6 DEF DiscoveryInv
<1>7. CASE s \notin DOMAIN sessions'
  <2>1. hooked' = hooked \cap DOMAIN sessions' /\ UNCHANGED <<cache, fetch, rested>>
    BY <1>7 DEF HookReports
  <2>2. HooksKnown'
    BY <1>4, <1>7, <2>1 DEF DiscoveryInv, HooksKnown, Untouched
  <2>3. AgentsKnown' /\ ListingsKnown'
    BY <1>1, <2>1 DEF DiscoveryInv, AgentsKnown, ListingsKnown, Known, IsListing
  <2>4. QED
    BY <1>2, <1>3, <2>2, <2>3 DEF DiscoveryInv
<1>8. QED
  BY <1>6, <1>7

LEMMA DiscoveryInvInit == DiscoveryInit => DiscoveryInv
<1> SUFFICES ASSUME DiscoveryInit PROVE DiscoveryInv
  OBVIOUS
<1>1. HookInv
  BY InitInv DEF DiscoveryInit
<1>2. HooksKnown
  BY DEF DiscoveryInit, Init, HooksKnown, EmptyMap
<1>3. AgentsKnown
  BY DEF DiscoveryInit, AgentsKnown, Doing
<1>4. ListingsKnown
  BY NoneListing DEF DiscoveryInit, ListingsKnown
<1>5. QED
  BY <1>1, <1>2, <1>3, <1>4 DEF DiscoveryInv

\* Every step keeps the invariant and moves the counters as TurnCounter says.
LEMMA DiscoveryStep ==
  ASSUME DiscoveryInv, [DiscoveryNext]_discoveryVars
  PROVE  DiscoveryInv' /\ Counted
<1>1. CASE UNCHANGED discoveryVars
  BY <1>1
  DEF discoveryVars, claude, DiscoveryInv, HookInv, HooksKnown, AgentsKnown, ListingsKnown,
      Known, IsListing, Counted, Counter!turnVars, CountOf
<1>2. ASSUME NEW e \in Event, HookReports(e)
      PROVE  DiscoveryInv' /\ Counted
  BY <1>2, HookReportsStep
<1>3. QED
  BY <1>1, <1>2, FirstStep, NothingStep, DiscoverStep, OutsideStep DEF DiscoveryNext

-------------------------------------------------------------------------------
\* The inductive invariant: what listings, hooks and agents know of each other.
THEOREM DiscoveryInvariant == DiscoverySpec => []DiscoveryInv
BY DiscoveryInvInit, DiscoveryStep, PTL DEF DiscoverySpec

\* Listings of any age keep the bucket's rows as hooks keep them: a subagent is
\* listed only while it works, an exited session is done, a busy one was counted.
THEOREM DiscoveryKeepsRows ==
  DiscoverySpec => [](TypeOK /\ SubagentsAreBusy /\ ExitedIsDone /\ BusyTurnIsCounted)
<1>1. DiscoveryInv => TypeOK /\ SubagentsAreBusy /\ ExitedIsDone /\ BusyTurnIsCounted
  BY DEF DiscoveryInv, HookInv, Good, GoodRow, TypeOK, SubagentsAreBusy, ExitedIsDone,
         BusyTurnIsCounted
<1>2. QED
  BY <1>1, DiscoveryInvariant, PTL

\* A listing ends a run only of an agent that rested since its last report.
THEOREM StaleRowsNeverEndTurns == DiscoverySpec => StaleRowEndsNoTurn
<1>1. ASSUME DiscoveryInv, Discover \/ DiscoverFirst
      PROVE  \A s \in DOMAIN sessions \cap DOMAIN sessions' \cap Root :
               sessions[s].status \in Busy /\ sessions'[s].status \notin Busy => s \in rested
  BY <1>1, FirstStep, DiscoverStep DEF RunsEndKnown
<1>2. QED
  BY <1>1, DiscoveryInvariant, PTL DEF DiscoverySpec, StaleRowEndsNoTurn

\* Hooks and listings together count turns as TurnCounter says.
THEOREM DiscoveryCountsTurns == DiscoverySpec => CountsTurns
<1>1. DiscoveryInit => Counter!Init
  BY DEF DiscoveryInit, Init, Counter!Init, EmptyMap, Counter!EmptyMap
<1>2. DiscoveryInv /\ [DiscoveryNext]_discoveryVars => [Counter!Next]_(Counter!turnVars)
  BY DiscoveryStep DEF Counted
<1>3. QED
  BY <1>1, <1>2, DiscoveryInvariant, PTL DEF DiscoverySpec, CountsTurns, Counter!Spec

-------------------------------------------------------------------------------
(***************************************************************************)
(* Why a listing shows every acknowledged removal, for any number of       *)
(* clients, kills and starts: a server has loaded the file after it took   *)
(* the lock, nobody else writes the file while it holds the lock, and it   *)
(* answers only while it does.  The socket and the pid file play no part.  *)
(***************************************************************************)
\* The steps at which a server has the file.
Loaded == {"open", "named", "bound", "serving", "leaving"}

\* Who is past taking the lock has it.
LockInv ==
  /\ \A p \in Process : step[p] \in Loaded => lock = p
  /\ \A c \in Client : call[c] = "holding" => lock = c

\* What was acknowledged is in the file, and what is in the file is in the store
\* of the server that holds it.
MarksInv ==
  /\ Told \subseteq file
  /\ \A p \in Process : step[p] \in Loaded => file \subseteq memory[p]
  /\ \A c \in Client : owed[c] \subseteq file

StartInv == StartTypeOK /\ LockInv /\ MarksInv /\ ListingsShowRemovals

-------------------------------------------------------------------------------
\* The end of a process lets go of nothing but its own.
LEMMA EndsKeeps ==
  ASSUME StartInv, NEW p \in Process,
         NEW sk \in Process \cup {Nobody, Stale}, NEW pf \in Process \cup {Nobody, Stale},
         Ends(p, sk, pf),
         active' \in BOOLEAN, UNCHANGED service,
         faults' \in [crashes : 0..MaxCrashes, hands : 0..MaxHandStarts]
  PROVE  StartInv'
<1>1. StartTypeOK'
  BY DEF StartInv, StartTypeOK, Ends, At, Steps, Calls, Places
<1>2. /\ step' = [step EXCEPT ![p] = "off"]
      /\ lock' = IF lock = p THEN Nobody ELSE lock
      /\ call' = [c \in Client |-> IF call[c] = p THEN "refused" ELSE call[c]]
      /\ UNCHANGED <<file, memory, answer, owed>>
  BY DEF Ends, At
<1>3. step \in [Process -> Steps] /\ call \in [Client -> Calls]
  BY DEF StartInv, StartTypeOK
<1>4. \A q \in Process : step'[q] \in Loaded => q # p /\ step[q] \in Loaded
  BY <1>2, <1>3 DEF Loaded
<1>5. \A c \in Client : call'[c] \in {"holding", "done"} => call[c] = call'[c]
  BY <1>2, <1>3
<1>6. LockInv'
  BY <1>2, <1>4, <1>5, ServerStartAssumption DEF StartInv, LockInv
<1>7. MarksInv'
  BY <1>2, <1>4, <1>5 DEF StartInv, MarksInv, Told, Client
<1>8. ListingsShowRemovals'
  BY <1>2, <1>5 DEF StartInv, ListingsShowRemovals, Client
<1>9. QED
  BY <1>1, <1>6, <1>7, <1>8 DEF StartInv

\* A step that leaves the lock, the file and the clients alone, and makes no
\* server be loaded that was not.
LEMMA QuietKeeps ==
  ASSUME StartInv, StartTypeOK',
         UNCHANGED <<lock, file, memory, clients>>,
         \A p \in Process : step'[p] \in Loaded => step[p] \in Loaded
  PROVE  StartInv'
  BY DEF StartInv, LockInv, MarksInv, ListingsShowRemovals, Told, clients

-------------------------------------------------------------------------------
\* The server that takes the lock reads the file as the last holder left it.
LEMMA LoadKeeps ==
  ASSUME StartInv, NEW p \in Process, OpenAndLoad(p)
  PROVE  StartInv'
<1> USE DEF StartInv
<1>1. StartTypeOK'
  BY DEF StartTypeOK, OpenAndLoad, At, Steps, clients, unit
<1>2. /\ lock = Nobody /\ lock' = p
      /\ memory' = [memory EXCEPT ![p] = file] /\ step' = [step EXCEPT ![p] = "open"]
      /\ UNCHANGED <<file, call, answer, owed>>
  BY DEF OpenAndLoad, At, clients
<1>3. step \in [Process -> Steps] /\ memory \in [Process -> SUBSET Rm]
  BY DEF StartTypeOK
<1>4. \A q \in Process : step'[q] \in Loaded => q = p
  BY <1>2, <1>3, ServerStartAssumption DEF LockInv
<1>5. \A c \in Client : call[c] # "holding"
  BY <1>2, ServerStartAssumption DEF LockInv
<1>6. LockInv'
  BY <1>2, <1>4, <1>5 DEF LockInv
<1>7. MarksInv'
  BY <1>2, <1>3, <1>4 DEF MarksInv, Told
<1>8. ListingsShowRemovals'
  BY <1>2 DEF ListingsShowRemovals
<1>9. QED
  BY <1>1, <1>6, <1>7, <1>8

\* What is asked for is owed what was acknowledged by then.
LEMMA CallingKeeps ==
  ASSUME StartInv, NEW c \in Client, NEW s \in Process \cup {"refused"},
         Calling(c), To(c, s)
  PROVE  StartInv'
<1> USE DEF StartInv
<1>1. StartTypeOK'
  <2>1. Told \subseteq Rm
    BY DEF Told
  <2>2. QED
    BY <2>1 DEF StartTypeOK, Calling, To, Calls, Places, procs, unit
<1>2. /\ call' = [call EXCEPT ![c] = s] /\ owed' = [owed EXCEPT ![c] = Told]
      /\ UNCHANGED <<step, lock, file, memory, answer>>
  BY DEF Calling, To, procs
<1>3. call \in [Client -> Calls] /\ owed \in [Client -> SUBSET Rm]
  BY DEF StartTypeOK
<1>4. s \notin {"holding", "done"}
  BY ServerStartAssumption DEF Places
<1>5. \A d \in Client : call'[d] \in {"holding", "done"} => d # c /\ call[d] = call'[d]
  BY <1>2, <1>3, <1>4
<1>6. LockInv'
  BY <1>2, <1>5 DEF LockInv
<1>7. MarksInv'
  BY <1>2, <1>3, <1>5 DEF MarksInv, Told, Client
<1>8. ListingsShowRemovals'
  BY <1>2, <1>3, <1>5 DEF ListingsShowRemovals, Client
<1>9. QED
  BY <1>1, <1>6, <1>7, <1>8

\* A server that answers has the lock, so that its store and the file take the
\* mark together and no other store is in use.
LEMMA AnsweredKeeps ==
  ASSUME StartInv, NEW c \in Client, Answered(c)
  PROVE  StartInv'
<1> USE DEF StartInv
<1>1. PICK p \in Process : call[c] = p /\ Answering(p) /\ Kept(c, p)
  BY DEF Answered
<1>2. /\ call' = [call EXCEPT ![c] = "done"]
      /\ UNCHANGED <<step, lock, owed>>
  BY DEF Answered, To, procs
<1>3. /\ call \in [Client -> Calls] /\ answer \in [Ls -> SUBSET Rm]
      /\ memory \in [Process -> SUBSET Rm] /\ file \subseteq Rm
  BY DEF StartTypeOK
<1>4. StartTypeOK'
  BY <1>1, <1>3 DEF StartTypeOK, Answered, Kept, To, Calls, Places, procs, unit
<1>5. lock = p /\ file \subseteq memory[p]
  BY <1>1 DEF Answering, Loaded, LockInv, MarksInv
<1>6. LockInv'
  BY <1>2, <1>3 DEF LockInv
<1>7. MarksInv'
  <2>1. file' = file \cup ({c} \cap Rm) /\ memory' = [memory EXCEPT ![p] = @ \cup ({c} \cap Rm)]
    BY <1>1 DEF Kept
  <2>2. Told' \subseteq file'
    BY <1>2, <1>3, <2>1 DEF MarksInv, Told, Client
  <2>3. \A q \in Process : step'[q] \in Loaded => file' \subseteq memory'[q]
    <3>1. \A q \in Process : step'[q] \in Loaded => q = p
      BY <1>2, <1>5 DEF LockInv
    <3>2. file' \subseteq memory'[p]
      BY <1>3, <1>5, <2>1
    <3>3. QED
      BY <3>1, <3>2
  <2>4. \A d \in Client : owed'[d] \subseteq file'
    BY <1>2, <2>1 DEF MarksInv
  <2>5. QED
    BY <2>2, <2>3, <2>4 DEF MarksInv
<1>8. ListingsShowRemovals'
  <2>1. SUFFICES ASSUME NEW d \in Ls, call'[d] = "done"
                 PROVE  owed'[d] \subseteq answer'[d]
    BY DEF ListingsShowRemovals
  <2>2. CASE d = c
    <3>1. answer'[d] = memory[p]
      BY <1>1, <1>3, <2>2 DEF Kept
    <3>2. QED
      BY <1>2, <1>5, <2>2, <3>1 DEF MarksInv, Client
  <2>3. CASE d # c
    <3>1. call[d] = "done" /\ answer'[d] = answer[d]
      BY <1>1, <1>2, <1>3, <2>1, <2>3 DEF Kept, Client
    <3>2. QED
      BY <1>2, <3>1 DEF ListingsShowRemovals
  <2>4. QED
    BY <2>2, <2>3
<1>9. QED
  BY <1>4, <1>6, <1>7, <1>8

\* A client takes the file only if nobody has it.
LEMMA TakeFileKeeps ==
  ASSUME StartInv, NEW c \in Client, TakeFile(c)
  PROVE  StartInv'
<1> USE DEF StartInv
<1>1. /\ \/ lock = Nobody /\ lock' = c /\ call' = [call EXCEPT ![c] = "holding"]
         \/ lock' = lock /\ call' = [call EXCEPT ![c] = "failed"]
      /\ call[c] = "refused"
      /\ UNCHANGED <<step, file, memory, answer, owed>>
  BY DEF TakeFile, To, procs
<1>2. call \in [Client -> Calls]
  BY DEF StartTypeOK
<1>3. StartTypeOK'
  BY DEF StartTypeOK, TakeFile, To, Calls, Places, procs, unit
<1>4. \A d \in Client : call'[d] = "done" => call[d] = "done"
  BY <1>1, <1>2
<1>5. LockInv'
  <2>1. \A p \in Process : step[p] \in Loaded => lock # Nobody
    BY ServerStartAssumption DEF LockInv
  <2>2. \A d \in Client : call[d] = "holding" => lock # Nobody
    BY ServerStartAssumption DEF LockInv
  <2>3. QED
    BY <1>1, <1>2, <2>1, <2>2 DEF LockInv
<1>6. MarksInv'
  BY <1>1, <1>4 DEF MarksInv, Told, Client
<1>7. ListingsShowRemovals'
  BY <1>1, <1>4 DEF ListingsShowRemovals, Client
<1>8. QED
  BY <1>3, <1>5, <1>6, <1>7

\* While a client has the file no server is loaded.
LEMMA UseFileKeeps ==
  ASSUME StartInv, NEW c \in Client, UseFile(c)
  PROVE  StartInv'
<1> USE DEF StartInv
<1>1. /\ call[c] = "holding" /\ call' = [call EXCEPT ![c] = "done"] /\ lock' = Nobody
      /\ file' = file \cup ({c} \cap Rm)
      /\ answer' = IF c \in Ls THEN [answer EXCEPT ![c] = file] ELSE answer
      /\ UNCHANGED <<step, memory, owed>>
  BY DEF UseFile, To, procs
<1>2. /\ call \in [Client -> Calls] /\ answer \in [Ls -> SUBSET Rm] /\ file \subseteq Rm
  BY DEF StartTypeOK
<1>3. StartTypeOK'
  BY <1>2 DEF StartTypeOK, UseFile, To, Calls, Places, procs, unit
<1>4. lock = c
  BY <1>1 DEF LockInv
<1>5. \A p \in Process : step[p] \notin Loaded
  BY <1>4, ServerStartAssumption DEF LockInv
<1>6. \A d \in Client : call'[d] # "holding"
  BY <1>1, <1>2, <1>4 DEF LockInv
<1>7. LockInv'
  BY <1>1, <1>5, <1>6 DEF LockInv
<1>8. MarksInv'
  BY <1>1, <1>2, <1>5 DEF MarksInv, Told, Client
<1>9. ListingsShowRemovals'
  <2>1. SUFFICES ASSUME NEW d \in Ls, call'[d] = "done"
                 PROVE  owed'[d] \subseteq answer'[d]
    BY DEF ListingsShowRemovals
  <2>2. CASE d = c
    BY <1>1, <1>2, <2>2 DEF MarksInv, Client
  <2>3. CASE d # c
    <3>1. call[d] = "done" /\ answer'[d] = answer[d]
      BY <1>1, <1>2, <2>1, <2>3 DEF Client
    <3>2. QED
      BY <1>1, <3>1 DEF ListingsShowRemovals
  <2>4. QED
    BY <2>2, <2>3
<1>10. QED
  BY <1>3, <1>7, <1>8, <1>9

-------------------------------------------------------------------------------
\* The steps of a server that runs on, or ends.
LEMMA ServesKeeps ==
  ASSUME StartInv, NEW p \in Process, Serves(p) \/ Killed(p)
  PROVE  StartInv'
<1>1. StartTypeOK
  BY DEF StartInv
<1>2. /\ {sock, pidFile} \subseteq Process \cup {Nobody, Stale}
      /\ active \in BOOLEAN
      /\ faults \in [crashes : 0..MaxCrashes, hands : 0..MaxHandStarts]
  BY <1>1 DEF StartTypeOK
<1>3. CASE AlreadyRunning(p)
  BY <1>2, <1>3, EndsKeeps DEF AlreadyRunning, unit
<1>4. CASE NoAnswer(p)
  <2>1. StartTypeOK'
    BY <1>1, <1>4 DEF StartTypeOK, NoAnswer, At, Steps, clients, unit
  <2>2. QED
    BY <1>1, <1>4, <2>1, QuietKeeps DEF NoAnswer, At, Loaded, StartTypeOK
<1>5. CASE OpenAndLoad(p)
  BY <1>5, LoadKeeps
<1>6. CASE OpenDenied(p)
  BY <1>2, <1>6, EndsKeeps DEF OpenDenied, unit
<1>7. CASE WritePid(p)
  <2>1. StartTypeOK'
    BY <1>1, <1>7 DEF StartTypeOK, WritePid, At, Steps, clients, unit
  <2>2. QED
    BY <1>1, <1>7, <2>1, QuietKeeps DEF WritePid, At, Loaded, StartTypeOK
<1>8. CASE Bind(p)
  <2>1. StartTypeOK'
    BY <1>1, <1>8 DEF StartTypeOK, Bind, At, Steps, clients, unit
  <2>2. QED
    BY <1>1, <1>8, <2>1, QuietKeeps DEF Bind, At, Loaded, StartTypeOK
<1>9. CASE Listen(p)
  <2>1. StartTypeOK'
    BY <1>1, <1>9 DEF StartTypeOK, Listen, At, Steps, clients, unit
  <2>2. QED
    BY <1>1, <1>9, <2>1, QuietKeeps DEF Listen, At, Loaded, StartTypeOK
<1>10. CASE Unlink(p)
  <2>1. StartTypeOK'
    BY <1>1, <1>10 DEF StartTypeOK, Unlink, At, Steps, clients, unit
  <2>2. QED
    BY <1>1, <1>10, <2>1, QuietKeeps DEF Unlink, At, Loaded, StartTypeOK
<1>11. CASE Leave(p)
  BY <1>2, <1>11, EndsKeeps DEF Leave
<1>12. CASE Terminated(p)
  BY <1>2, <1>12, EndsKeeps DEF Terminated
<1>13. CASE Killed(p)
  <2>1. faults' \in [crashes : 0..MaxCrashes, hands : 0..MaxHandStarts]
    BY <1>2, <1>13, ServerStartAssumption DEF Killed
  <2>2. QED
    BY <1>2, <1>13, <2>1, EndsKeeps DEF Killed, unit
<1>14. QED
  BY <1>3, <1>4, <1>5, <1>6, <1>7, <1>8, <1>9, <1>10, <1>11, <1>12, <1>13 DEF Serves

\* systemd, the service commands and the shell start and signal processes and
\* remove files, all of which leave the database alone.
LEMMA CommandsKeep ==
  ASSUME StartInv,
         \/ UnitStarts \/ ServiceStart \/ ServiceRestart \/ Restarted
         \/ ServiceStop \/ Cleanup \/ HandStart \/ Interrupt
  PROVE  StartInv'
<1> USE DEF StartInv, Idle
<1>1. StartTypeOK /\ step \in [Process -> Steps] /\ Process = {ByUnit, ByHand}
  BY DEF StartTypeOK, Process
<1>2. CASE UnitStarts \/ HandStart
  <2>1. faults' \in [crashes : 0..MaxCrashes, hands : 0..MaxHandStarts]
    BY <1>1, <1>2, ServerStartAssumption DEF StartTypeOK, UnitStarts, HandStart
  <2>2. StartTypeOK'
    BY <1>1, <1>2, <2>1 DEF StartTypeOK, UnitStarts, HandStart, Begin, At, Steps, clients, unit
  <2>3. QED
    BY <1>1, <1>2, <2>2, QuietKeeps DEF UnitStarts, HandStart, Begin, At, Loaded
<1>3. CASE ServiceStart \/ ServiceRestart \/ Restarted \/ ServiceStop \/ SignalPid \/ Interrupt
  <2>1. /\ UNCHANGED <<lock, sock, pidFile, file, memory, clients, faults, step>>
        /\ signalled' \subseteq Process
        /\ active' \in BOOLEAN
        /\ service' \in {"none", "restarting", "stopping", "signalling", "removing"}
    BY <1>1, <1>3 DEF StartTypeOK, ServiceStart, ServiceRestart, Restarted, ServiceStop,
                      SignalPid, Interrupt, Signal, unit
  <2>2. StartTypeOK'
    BY <1>1, <2>1 DEF StartTypeOK, clients
  <2>3. QED
    BY <2>1, <2>2, QuietKeeps
<1>4. CASE RemovePid \/ RemoveSocket
  <2>1. StartTypeOK'
    BY <1>1, <1>4 DEF StartTypeOK, RemovePid, RemoveSocket, procs, clients
  <2>2. QED
    BY <1>4, <2>1, QuietKeeps DEF RemovePid, RemoveSocket, procs
<1>5. QED
  BY <1>2, <1>3, <1>4 DEF Cleanup

\* No process runs and nothing is in the file.
LEMMA StartInvInit ==
  StartInit => StartInv
<1> SUFFICES ASSUME StartInit PROVE StartInv
  OBVIOUS
<1>1. StartTypeOK
  <2>1. faults \in [crashes : 0..MaxCrashes, hands : 0..MaxHandStarts]
    BY ServerStartAssumption DEF StartInit
  <2>2. \A c \in Client : call[c] \in Calls /\ owed[c] \in SUBSET Rm
    BY DEF StartInit, Calls, Places
  <2>3. /\ step \in [Process -> Steps] /\ memory \in [Process -> SUBSET Rm]
        /\ call \in [Client -> Calls] /\ owed \in [Client -> SUBSET Rm]
        /\ answer \in [Ls -> SUBSET Rm]
    BY <2>2 DEF StartInit, Steps
  <2>4. QED
    BY <2>1, <2>3 DEF StartInit, StartTypeOK
<1>2. LockInv /\ MarksInv /\ ListingsShowRemovals
  BY DEF StartInit, LockInv, MarksInv, ListingsShowRemovals, Told, Loaded, Client
<1>3. QED
  BY <1>1, <1>2 DEF StartInv

LEMMA StartInvNext ==
  StartInv /\ [StartNext]_startVars => StartInv'
<1> SUFFICES ASSUME StartInv, [StartNext]_startVars PROVE StartInv'
  OBVIOUS
<1>1. CASE \E p \in Process : Serves(p) \/ Killed(p)
  BY <1>1, ServesKeeps
<1>2. CASE \/ UnitStarts \/ ServiceStart \/ ServiceRestart \/ Restarted
           \/ ServiceStop \/ Cleanup \/ HandStart \/ Interrupt
  BY <1>2, CommandsKeep
<1>3. ASSUME NEW c \in Client, Connect(c) \/ Refused(c)
      PROVE  StartInv'
  BY <1>3, CallingKeeps DEF Connect, Refused
<1>4. ASSUME NEW c \in Client, Answered(c)
      PROVE  StartInv'
  BY <1>4, AnsweredKeeps
<1>5. ASSUME NEW c \in Client, TakeFile(c) \/ UseFile(c)
      PROVE  StartInv'
  BY <1>5, TakeFileKeeps, UseFileKeeps
<1>6. CASE UNCHANGED startVars
  BY <1>6 DEF StartInv, StartTypeOK, LockInv, MarksInv, ListingsShowRemovals, Told, startVars
<1>7. QED
  BY <1>1, <1>2, <1>3, <1>4, <1>5, <1>6 DEF StartNext

-------------------------------------------------------------------------------
\* The inductive invariant: who is past taking the lock has it, and a store in
\* use has all the marks of the file.
THEOREM StartInvariant == StartSpec => []StartInv
BY StartInvInit, StartInvNext, PTL DEF StartSpec

\* Whatever servers and clients start, end and are killed, every listing shows
\* every removal that was acknowledged before it was asked for.
THEOREM ListingsAlwaysShowRemovals == StartSpec => []ListingsShowRemovals
<1>1. StartInv => ListingsShowRemovals
  BY DEF StartInv
<1>2. QED
  BY <1>1, StartInvariant, PTL

-------------------------------------------------------------------------------
(***************************************************************************)
(* What the OpenCode 2 plugin reports, for any sessions and any number of   *)
(* events that wait.  The writes of its handler are taken one at a time;    *)
(* what a replay does follows by induction over the events that waited.     *)
(***************************************************************************)
\* Induction over the events of a queue.
Events == INSTANCE FoldLemmas WITH Op <- Handle

\* What the instance goes through in handling some events.
Passes(g, p, q) ==
  /\ g[0] = p
  /\ \A k \in 1 .. Len(q) : g[k] = Handle(g[k - 1], q[k])
  /\ FoldLeft(Handle, p, q) = g[Len(q)]

LEMMA ReplaySteps ==
  ASSUME NEW E, NEW p, NEW q \in Seq(E)
  PROVE  \E g : Passes(g, p, q)
<1>1. Events!Folded(p, q) = FoldLeft(Handle, p, q)
  BY DEF Events!Folded, FoldLeft, Events!FoldLeft, MapThenFoldSet, Events!MapThenFoldSet,
         Max, Events!Max
<1>2. \E g : /\ g[0] = p
             /\ \A k \in 1 .. Len(q) : g[k] = Handle(g[k - 1], q[k])
             /\ Events!Folded(p, q) = g[Len(q)]
  BY Events!FoldLeftSteps
<1>3. QED
  BY <1>1, <1>2 DEF Passes

-------------------------------------------------------------------------------
\* The events that may have to wait.
RunEvent == [sid : OcSession, type : {"started", "streamed", "ended"}]

Plug(se, ru, ch, pe, di, lo, qu) ==
  [seen |-> se, running |-> ru, child |-> ch, pending |-> pe, dirs |-> di, locating |-> lo,
   queued |-> qu]

IsPlug(p) == p = Plug(p.seen, p.running, p.child, p.pending, p.dirs, p.locating, p.queued)

\* What becomes of an event that tells of a run.
LEMMA RunEventWaits ==
  ASSUME NEW se, NEW ru, NEW ch, NEW pe, NEW di, NEW lo, NEW qu, NEW e \in RunEvent,
         e.sid \notin DOMAIN di
  PROVE  Handle(Plug(se, ru, ch, pe, di, lo, qu), e) =
         Plug(se, ru, ch, pe, di, lo \cup {e.sid}, Append(qu, e))
BY DEF RunEvent, Handle, Plug, Placed

LEMMA RunEventElsewhere ==
  ASSUME NEW se, NEW ru, NEW ch, NEW pe, NEW di, NEW lo, NEW qu, NEW e \in RunEvent,
         e.sid \in DOMAIN di, di[e.sid] = "elsewhere"
  PROVE  Handle(Plug(se, ru, ch, pe, di, lo, qu), e) = Plug(se, ru, ch, pe, di, lo, qu)
BY DEF RunEvent, Handle, Plug, Placed

LEMMA RunEventRuns ==
  ASSUME NEW se, NEW ru, NEW ch, NEW pe, NEW di, NEW lo, NEW qu, NEW e \in RunEvent,
         e.sid \in DOMAIN di, di[e.sid] # "elsewhere", e.type # "ended"
  PROVE  Handle(Plug(se, ru, ch, pe, di, lo, qu), e) =
         Plug(se \cup {e.sid}, ru \cup {e.sid}, ch, pe, di, lo, qu)
BY DEF RunEvent, Handle, Note, Plug, Placed

LEMMA LocatedIsNoted ==
  ASSUME NEW p, NEW e \in RunEvent, e.sid \in DOMAIN p.dirs, p.dirs[e.sid] # "elsewhere"
  PROVE  Handle(p, e) = Note(p, e)
BY DEF RunEvent, Handle, Placed

\* The writes of a handler, which the provers take one at a time.
Write2(p, a, b)       == [p EXCEPT !.seen = a, !.running = b]
Write4(p, a, b, c, d) == [p EXCEPT !.seen = a, !.running = b, !.pending = c, !.dirs = d]
WriteQ(p, a, b)       == [p EXCEPT !.locating = a, !.queued = b]

LEMMA Writes2 ==
  ASSUME NEW se, NEW ru, NEW ch, NEW pe, NEW di, NEW lo, NEW qu, NEW a, NEW b
  PROVE  Write2(Plug(se, ru, ch, pe, di, lo, qu), a, b) = Plug(a, b, ch, pe, di, lo, qu)
<1> DEFINE p == Plug(se, ru, ch, pe, di, lo, qu)
           q == Plug(a, ru, ch, pe, di, lo, qu)
           r == Plug(a, b, ch, pe, di, lo, qu)
<1>1. [p EXCEPT !.seen = a] = q /\ [q EXCEPT !.running = b] = r
  BY DEF Plug
<1> HIDE DEF p, q, r
<1>2. [p EXCEPT !.seen = a, !.running = b] = [[p EXCEPT !.seen = a] EXCEPT !.running = b]
  OBVIOUS
<1>3. QED
  BY <1>1, <1>2 DEF p, r, Write2

LEMMA Writes4 ==
  ASSUME NEW se, NEW ru, NEW ch, NEW pe, NEW di, NEW lo, NEW qu,
         NEW a, NEW b, NEW c, NEW d
  PROVE  Write4(Plug(se, ru, ch, pe, di, lo, qu), a, b, c, d) = Plug(a, b, ch, c, d, lo, qu)
<1> DEFINE p  == Plug(se, ru, ch, pe, di, lo, qu)
           p1 == Plug(a, ru, ch, pe, di, lo, qu)
           p2 == Plug(a, b, ch, pe, di, lo, qu)
           p3 == Plug(a, b, ch, c, di, lo, qu)
           p4 == Plug(a, b, ch, c, d, lo, qu)
<1>1. /\ [p EXCEPT !.seen = a] = p1 /\ [p1 EXCEPT !.running = b] = p2
      /\ [p2 EXCEPT !.pending = c] = p3 /\ [p3 EXCEPT !.dirs = d] = p4
  BY DEF Plug
<1> HIDE DEF p, p1, p2, p3, p4
<1>2. [p EXCEPT !.seen = a, !.running = b, !.pending = c, !.dirs = d] =
      [[[[p EXCEPT !.seen = a] EXCEPT !.running = b] EXCEPT !.pending = c] EXCEPT !.dirs = d]
  OBVIOUS
<1>3. QED
  BY <1>1, <1>2 DEF p, p4, Write4

LEMMA WritesQ ==
  ASSUME NEW se, NEW ru, NEW ch, NEW pe, NEW di, NEW lo, NEW qu, NEW a, NEW b
  PROVE  WriteQ(Plug(se, ru, ch, pe, di, lo, qu), a, b) = Plug(se, ru, ch, pe, di, a, b)
<1> DEFINE p == Plug(se, ru, ch, pe, di, lo, qu)
           q == Plug(se, ru, ch, pe, di, a, qu)
           r == Plug(se, ru, ch, pe, di, a, b)
<1>1. [p EXCEPT !.locating = a] = q /\ [q EXCEPT !.queued = b] = r
  BY DEF Plug
<1> HIDE DEF p, q, r
<1>2. [p EXCEPT !.locating = a, !.queued = b] = [[p EXCEPT !.locating = a] EXCEPT !.queued = b]
  OBVIOUS
<1>3. QED
  BY <1>1, <1>2 DEF p, r, WriteQ

LEMMA DropIs ==
  ASSUME NEW se, NEW ru, NEW ch, NEW pe, NEW di, NEW lo, NEW qu, NEW s
  PROVE  Drop(Plug(se, ru, ch, pe, di, lo, qu), s) =
         Plug(se \ {s}, ru \ {s}, ch, pe \ {s}, Without(di, {s}), lo, qu)
<1> DEFINE p == Plug(se, ru, ch, pe, di, lo, qu)
<1>1. p.seen = se /\ p.running = ru /\ p.pending = pe /\ p.dirs = di
  BY DEF Plug
<1>2. Drop(p, s) = Write4(p, se \ {s}, ru \ {s}, pe \ {s}, Without(di, {s}))
  <2> HIDE DEF p
  <2>1. QED
    BY <1>1 DEF Drop, Write4
<1>3. QED
  BY <1>2, Writes4

LEMMA RunEventEnds ==
  ASSUME NEW se, NEW ru, NEW ch, NEW pe, NEW di, NEW lo, NEW qu, NEW e \in RunEvent,
         e.sid \in DOMAIN di, di[e.sid] # "elsewhere", e.type = "ended", e.sid \notin ch
  PROVE  Handle(Plug(se, ru, ch, pe, di, lo, qu), e) =
         Plug(se \cup {e.sid}, ru \ {e.sid}, ch, pe, di, lo, qu)
<1> DEFINE p == Plug(se, ru, ch, pe, di, lo, qu)
           a == se \cup {e.sid}
           b == ru \ {e.sid}
           q == Plug(a, b, ch, pe, di, lo, qu)
<1>1. Write2(p, a, b) = q
  <2> HIDE DEF a, b
  <2>1. QED
    BY Writes2
<1>2. p.dirs = di /\ p.child = ch /\ p.running = ru /\ p.seen = se
  BY DEF Plug
<1> HIDE DEF p, q
<1>3. Handle(p, e) = Note(p, e)
  BY <1>2, LocatedIsNoted
<1>4. Note(p, e) = q
  BY <1>1, <1>2 DEF Note, RunEvent, Write2
<1>5. QED
  BY <1>3, <1>4 DEF p, q

LEMMA ChildEnds ==
  ASSUME NEW se, NEW ru, NEW ch, NEW pe, NEW di, NEW lo, NEW qu, NEW e \in RunEvent,
         e.sid \in DOMAIN di, di[e.sid] # "elsewhere", e.type = "ended", e.sid \in ch
  PROVE  Handle(Plug(se, ru, ch, pe, di, lo, qu), e) =
         Plug(se \ {e.sid}, ru \ {e.sid}, ch, pe \ {e.sid}, Without(di, {e.sid}), lo, qu)
<1> DEFINE p == Plug(se, ru, ch, pe, di, lo, qu)
           a == se \cup {e.sid}
           b == ru \ {e.sid}
           q == Plug(a, b, ch, pe, di, lo, qu)
<1>1. Write2(p, a, b) = q
  <2> HIDE DEF a, b
  <2>1. QED
    BY Writes2
<1>2. p.dirs = di /\ p.child = ch /\ p.running = ru /\ p.seen = se
  BY DEF Plug
<1>3. Drop(q, e.sid) = Plug((se \cup {e.sid}) \ {e.sid}, (ru \ {e.sid}) \ {e.sid}, ch,
                            pe \ {e.sid}, Without(di, {e.sid}), lo, qu)
  BY DropIs
<1> HIDE DEF p, q
<1>4. Handle(p, e) = Note(p, e)
  BY <1>2, LocatedIsNoted
<1>5. Note(p, e) = Drop(q, e.sid)
  BY <1>1, <1>2 DEF Note, RunEvent, Write2
<1>6. (se \cup {e.sid}) \ {e.sid} = se \ {e.sid} /\ (ru \ {e.sid}) \ {e.sid} = ru \ {e.sid}
  OBVIOUS
<1>7. QED
  BY <1>3, <1>4, <1>5, <1>6 DEF p

LEMMA DropPlug ==
  ASSUME NEW se, NEW ru, NEW ch, NEW pe, NEW di, NEW lo, NEW qu, NEW s
  PROVE  Handle(Plug(se, ru, ch, pe, di, lo, qu), [sid |-> s, type |-> "deleted"]) =
         Plug(se \ {s}, ru \ {s}, ch \ {s}, pe \ {s}, Without(di, {s}), lo, qu)
BY DEF Handle, Drop, Plug

LEMMA CreatedHere ==
  ASSUME NEW se, NEW ru, NEW ch, NEW pe, NEW di, NEW lo, NEW qu, NEW s, s \in Here
  PROVE  Handle(Plug(se, ru, ch, pe, di, lo, qu), [sid |-> s, type |-> "created"]) =
         Plug(se \cup {s}, ru, ch \cup ({s} \cap Subagent), pe, Put(di, s, Where(s)), lo, qu)
<1> DEFINE p == Plug(se, ru, ch, pe, di, lo, qu)
           e == [sid |-> s, type |-> "created"]
           q == Plug(se, ru, ch, pe, Put(di, s, Where(s)), lo, qu)
<1>1. Handle(p, e) = IF Where(s) = "elsewhere" THEN q ELSE Note(q, e)
  BY DEF Handle, Plug, Placed
<1>2. Note(q, e) = Plug(se \cup {s}, ru, ch \cup ({s} \cap Subagent), pe,
                        Put(di, s, Where(s)), lo, qu)
  BY DEF Note, Plug
<1>3. Where(s) # "elsewhere"
  BY DEF Where
<1> HIDE DEF p, e, q
<1>4. QED
  BY <1>1, <1>2, <1>3 DEF p, e

LEMMA CreatedElsewhere ==
  ASSUME NEW se, NEW ru, NEW ch, NEW pe, NEW di, NEW lo, NEW qu, NEW s, s \notin Here
  PROVE  Handle(Plug(se, ru, ch, pe, di, lo, qu), [sid |-> s, type |-> "created"]) =
         Plug(se, ru, ch, pe, Put(di, s, Where(s)), lo, qu)
<1>1. Where(s) = "elsewhere"
  BY DEF Where
<1>2. QED
  BY <1>1 DEF Handle, Plug, Placed

\* A request of the location's sessions; the others' are nothing to the instance.
LEMMA RequestIs ==
  ASSUME NEW p, NEW s, NEW type \in {"asked", "replied"}
  PROVE  /\ s \notin Here => Handle(p, [sid |-> s, type |-> type]) = p
         /\ s \in Here => Handle(p, [sid |-> s, type |-> type]) = Note(p, [sid |-> s, type |-> type])
BY DEF Handle, Placed, Where

LEMMA AskedPlug ==
  ASSUME NEW se, NEW ru, NEW ch, NEW pe, NEW di, NEW lo, NEW qu, NEW s
  PROVE  Note(Plug(se, ru, ch, pe, di, lo, qu), [sid |-> s, type |-> "asked"]) =
         Plug(se \cup {s}, ru, ch, pe \cup {s}, di, lo, qu)
BY DEF Note, Plug

LEMMA RepliedPlug ==
  ASSUME NEW se, NEW ru, NEW ch, NEW pe, NEW di, NEW lo, NEW qu, NEW s
  PROVE  Note(Plug(se, ru, ch, pe, di, lo, qu), [sid |-> s, type |-> "replied"]) =
         Plug(se, ru, ch, pe \ {s}, di, lo, qu)
BY DEF Note, Plug

-------------------------------------------------------------------------------
(***************************************************************************)
(* The instance, whatever it has been sent, while the lookups of the        *)
(* sessions in F are answered and not yet replayed.                         *)
(***************************************************************************)
PluginOK(p, F) ==
  /\ IsPlug(p)
  /\ p.queued \in Seq(RunEvent)
  /\ \A i \in DOMAIN p.queued : p.queued[i].sid \in p.locating
  /\ p.locating \cap DOMAIN p.dirs \subseteq F
  /\ p.child \subseteq Subagent
  /\ \A t \in DOMAIN p.dirs : p.dirs[t] \in {Where(t), ""}
  /\ \A t \in p.seen \ Here : t \in DOMAIN p.dirs /\ p.dirs[t] = ""

\* What the instance holds tells whether a session is in T: by the last of its
\* events that wait or, if none does, by its being among the running ones.
Tells(p, t, T) ==
  /\ \A i \in DOMAIN p.queued :
       p.queued[i].sid = t /\ (\A j \in DOMAIN p.queued : j > i => p.queued[j].sid # t)
         => (t \in T <=> p.queued[i].type # "ended")
  /\ (\A i \in DOMAIN p.queued : p.queued[i].sid # t) => (t \in p.running <=> t \in T)

\* An event of a run leaves all other sessions alone, and no request of a session
\* that is no subagent's.
Leaves(p, e, q) ==
  /\ q.pending \subseteq p.pending
  /\ p.pending \ Subagent \subseteq q.pending
  /\ q.seen \subseteq p.seen \cup {e.sid}
  /\ DOMAIN q.dirs \subseteq DOMAIN p.dirs
  /\ q.locating \subseteq p.locating \cup {e.sid}
  /\ \/ q.queued = p.queued
     \/ q.queued = Append(p.queued, e) /\ e.sid \notin DOMAIN p.dirs
  /\ \A t : t # e.sid => (t \in q.running <=> t \in p.running)

LEMMA FieldsOf ==
  ASSUME NEW se, NEW ru, NEW ch, NEW pe, NEW di, NEW lo, NEW qu
  PROVE  LET p == Plug(se, ru, ch, pe, di, lo, qu)
         IN  /\ p.seen = se /\ p.running = ru /\ p.child = ch /\ p.pending = pe
             /\ p.dirs = di /\ p.locating = lo /\ p.queued = qu
             /\ IsPlug(p)
BY DEF Plug, IsPlug

LEMMA WithoutIs ==
  ASSUME NEW f, NEW S
  PROVE  /\ DOMAIN Without(f, S) = DOMAIN f \ S
         /\ \A t \in DOMAIN f \ S : Without(f, S)[t] = f[t]
BY DEF Without, Restrict

LEMMA RunEventIsHandled ==
  ASSUME NEW p, NEW F, PluginOK(p, F), NEW e \in RunEvent
  PROVE  /\ PluginOK(Handle(p, e), F)
         /\ Leaves(p, e, Handle(p, e))
         /\ e.sid \in Here =>
              \/ /\ Handle(p, e).queued = Append(p.queued, e)
                 /\ e.sid \notin DOMAIN p.dirs
              \/ /\ Handle(p, e).queued = p.queued
                 /\ e.sid \in DOMAIN p.dirs
                 /\ e.sid \in Handle(p, e).running <=> e.type # "ended"
<1> DEFINE se == p.seen     ru == p.running  ch == p.child  pe == p.pending
           di == p.dirs     lo == p.locating qu == p.queued s == e.sid
<1>1. p = Plug(se, ru, ch, pe, di, lo, qu)
  BY DEF PluginOK, IsPlug
<1>0. /\ qu \in Seq(RunEvent)
      /\ \A i \in DOMAIN qu : qu[i].sid \in lo
      /\ lo \cap DOMAIN di \subseteq F
  BY DEF PluginOK
<1>2. CASE s \notin DOMAIN di
  <2> DEFINE lq == lo \cup {s}
             qe == Append(qu, e)
             q  == Plug(se, ru, ch, pe, di, lq, qe)
  <2>1. Handle(p, e) = q
    BY <1>1, <1>2, RunEventWaits
  <2> HIDE DEF lq, qe
  <2>2. /\ q.seen = se /\ q.running = ru /\ q.child = ch /\ q.pending = pe
        /\ q.dirs = di /\ q.locating = lq /\ q.queued = qe
        /\ IsPlug(q)
    BY FieldsOf
  <2> HIDE DEF q
  <2>3. /\ qe \in Seq(RunEvent)
        /\ \A i \in DOMAIN qe : qe[i].sid \in lq
    <3> HIDE DEF qu, lo
    <3>1. QED
      BY <1>0 DEF qe, lq
  <2>4. lq \cap DOMAIN di \subseteq F
    <3> HIDE DEF lo, di
    <3>1. QED
      BY <1>0, <1>2 DEF lq
  <2>5. PluginOK(q, F)
    BY <2>2, <2>3, <2>4 DEF PluginOK
  <2>6. Leaves(p, e, q)
    BY <1>2, <2>2 DEF Leaves, lq, qe
  <2>7. QED
    BY <1>2, <2>1, <2>2, <2>5, <2>6 DEF qe
<1>3. CASE s \in DOMAIN di
  <2>2. CASE di[s] = "elsewhere"
    <3>1. Handle(p, e) = p
      BY <1>1, <1>3, <2>2, RunEventElsewhere
    <3>2. s \notin Here
      BY <1>3, <2>2 DEF PluginOK, Where
    <3>3. QED
      BY <3>1, <3>2 DEF Leaves
  <2>3. CASE di[s] # "elsewhere" /\ e.type # "ended"
    <3> DEFINE q == Plug(se \cup {s}, ru \cup {s}, ch, pe, di, lo, qu)
    <3>1. Handle(p, e) = q
      BY <1>1, <1>3, <2>3, RunEventRuns
    <3>2. /\ q.seen = se \cup {s} /\ q.running = ru \cup {s} /\ q.child = ch /\ q.pending = pe
          /\ q.dirs = di /\ q.locating = lo /\ q.queued = qu
          /\ IsPlug(q)
      BY FieldsOf
    <3> HIDE DEF q
    <3>3. s \notin Here => di[s] = ""
      BY <1>3, <2>3 DEF PluginOK, Where
    <3>4. PluginOK(q, F)
      BY <1>3, <3>2, <3>3 DEF PluginOK
    <3>5. Leaves(p, e, q)
      BY <3>2 DEF Leaves
    <3>6. QED
      BY <1>3, <2>3, <3>1, <3>2, <3>4, <3>5
  <2>4. CASE di[s] # "elsewhere" /\ e.type = "ended" /\ s \in ch
    <3> DEFINE d == Without(di, {s})
               q == Plug(se \ {s}, ru \ {s}, ch, pe \ {s}, d, lo, qu)
    <3>1. Handle(p, e) = q
      <4> HIDE DEF se, ru, ch, pe, di, lo, qu
      <4>1. Handle(Plug(se, ru, ch, pe, di, lo, qu), e) =
            Plug(se \ {e.sid}, ru \ {e.sid}, ch, pe \ {e.sid}, Without(di, {e.sid}), lo, qu)
        BY <1>3, <2>4, ChildEnds
      <4>2. QED
        BY <1>1, <4>1
    <3>2. /\ q.seen = se \ {s} /\ q.running = ru \ {s} /\ q.child = ch /\ q.pending = pe \ {s}
          /\ q.dirs = d /\ q.locating = lo /\ q.queued = qu
          /\ IsPlug(q)
      BY FieldsOf
    <3>3. DOMAIN d = DOMAIN di \ {s} /\ \A t \in DOMAIN di \ {s} : d[t] = di[t]
      BY WithoutIs
    <3> HIDE DEF q, d
    <3>4. PluginOK(q, F)
      BY <3>2, <3>3 DEF PluginOK
    <3>5. s \in Subagent
      BY <2>4 DEF PluginOK
    <3>6. Leaves(p, e, q)
      BY <3>2, <3>3, <3>5 DEF Leaves
    <3>7. QED
      BY <1>3, <2>4, <3>1, <3>2, <3>4, <3>6
  <2>5. CASE di[s] # "elsewhere" /\ e.type = "ended" /\ s \notin ch
    <3> DEFINE q == Plug(se \cup {s}, ru \ {s}, ch, pe, di, lo, qu)
    <3>1. Handle(p, e) = q
      <4> HIDE DEF se, ru, ch, pe, di, lo, qu
      <4>1. Handle(Plug(se, ru, ch, pe, di, lo, qu), e) =
            Plug(se \cup {e.sid}, ru \ {e.sid}, ch, pe, di, lo, qu)
        BY <1>3, <2>5, RunEventEnds
      <4>2. QED
        BY <1>1, <4>1
    <3>2. /\ q.seen = se \cup {s} /\ q.running = ru \ {s} /\ q.child = ch /\ q.pending = pe
          /\ q.dirs = di /\ q.locating = lo /\ q.queued = qu
          /\ IsPlug(q)
      BY FieldsOf
    <3> HIDE DEF q
    <3>3. s \notin Here => di[s] = ""
      BY <1>3, <2>5 DEF PluginOK, Where
    <3>4. PluginOK(q, F)
      BY <1>3, <3>2, <3>3 DEF PluginOK
    <3>5. Leaves(p, e, q)
      BY <3>2 DEF Leaves
    <3>6. QED
      BY <1>3, <2>5, <3>1, <3>2, <3>4, <3>5
  <2>6. QED
    BY <2>2, <2>3, <2>4, <2>5
<1>4. QED
  BY <1>2, <1>3

LEMMA RunEventTells ==
  ASSUME NEW p, NEW F, PluginOK(p, F), NEW e \in RunEvent, NEW T, NEW t \in Here,
         t # e.sid => Tells(p, t, T),
         t = e.sid => /\ t \in T <=> e.type # "ended"
                      /\ t \in DOMAIN p.dirs => \A i \in DOMAIN p.queued : p.queued[i].sid # t
  PROVE  Tells(Handle(p, e), t, T)
<1> DEFINE h == Handle(p, e)
           qu == p.queued
<1>1. /\ Leaves(p, e, h)
      /\ e.sid \in Here =>
           \/ h.queued = Append(qu, e) /\ e.sid \notin DOMAIN p.dirs
           \/ /\ h.queued = qu /\ e.sid \in DOMAIN p.dirs
              /\ e.sid \in h.running <=> e.type # "ended"
  BY RunEventIsHandled
<1>2. qu \in Seq(RunEvent)
  BY DEF PluginOK
<1> SUFFICES Tells(h, t, T)
  OBVIOUS
<1> HIDE DEF h, qu
<1>3. /\ Len(Append(qu, e)) = Len(qu) + 1 /\ Len(qu) \in Nat
      /\ DOMAIN Append(qu, e) = 1 .. Len(qu) + 1 /\ DOMAIN qu = 1 .. Len(qu)
      /\ Append(qu, e)[Len(qu) + 1] = e
      /\ \A i \in 1 .. Len(qu) : Append(qu, e)[i] = qu[i]
  BY <1>2
<1>4. CASE t = e.sid
  <2>1. CASE h.queued = Append(qu, e)
    <3>1. \A i \in DOMAIN h.queued :
            h.queued[i].sid = t /\ (\A j \in DOMAIN h.queued : j > i => h.queued[j].sid # t)
              => i = Len(qu) + 1
      BY <1>3, <1>4, <2>1
    <3>2. QED
      BY <1>3, <1>4, <2>1, <3>1 DEF Tells
  <2>2. CASE h.queued # Append(qu, e)
    <3>1. h.queued = qu /\ t \in DOMAIN p.dirs /\ (t \in h.running <=> t \in T)
      BY <1>1, <1>4, <2>2
    <3>2. QED
      BY <1>4, <3>1 DEF Tells, qu
  <2>3. QED
    BY <2>1, <2>2
<1>5. CASE t # e.sid
  <2>1. Tells(p, t, T) /\ (t \in h.running <=> t \in p.running)
    BY <1>1, <1>5 DEF Leaves
  <2>2. CASE h.queued = qu
    BY <2>1, <2>2 DEF Tells, qu
  <2>3. CASE h.queued = Append(qu, e)
    <3>1. ASSUME NEW i \in DOMAIN h.queued, h.queued[i].sid = t,
                 \A j \in DOMAIN h.queued : j > i => h.queued[j].sid # t
          PROVE  t \in T <=> h.queued[i].type # "ended"
      <4>1. i \in DOMAIN qu /\ h.queued[i] = qu[i]
        BY <1>3, <1>5, <2>3, <3>1
      <4>2. \A j \in DOMAIN qu : j > i => qu[j].sid # t
        BY <1>3, <2>3, <3>1
      <4>3. QED
        BY <2>1, <3>1, <4>1, <4>2 DEF Tells, qu
    <3>2. (\A i \in DOMAIN h.queued : h.queued[i].sid # t) => \A i \in DOMAIN qu : qu[i].sid # t
      BY <1>3, <2>3
    <3>3. QED
      BY <2>1, <3>1, <3>2 DEF Tells, qu
  <2>4. QED
    BY <1>1, <2>2, <2>3 DEF Leaves, qu
<1>6. QED
  BY <1>4, <1>5

-------------------------------------------------------------------------------
(***************************************************************************)
(* All that waits is applied again.                                        *)
(***************************************************************************)
\* Of a session to come nothing is known.
Unknown(p, t) ==
  t \notin p.seen /\ t \notin p.running /\ t \notin DOMAIN p.dirs /\ t \notin p.locating

LEMMA ReplayIs ==
  ASSUME NEW se, NEW ru, NEW ch, NEW pe, NEW di, NEW lo, NEW qu, NEW s
  PROVE  Replay(Plug(se, ru, ch, pe, di, lo, qu), s) =
         FoldLeft(Handle, Plug(se, ru, ch, pe, di, lo \ {s}, <<>>), qu)
<1> DEFINE ls == lo \ {s}
           no == <<>>
           p  == Plug(se, ru, ch, pe, di, lo, qu)
<1>1. p.locating = lo /\ p.queued = qu
  BY FieldsOf
<1> HIDE DEF ls, no
<1>2. WriteQ(p, ls, no) = Plug(se, ru, ch, pe, di, ls, no)
  BY WritesQ
<1> HIDE DEF p
<1>3. Replay(p, s) = FoldLeft(Handle, WriteQ(p, lo \ {s}, <<>>), qu)
  BY <1>1 DEF Replay, WriteQ
<1>4. QED
  BY <1>2, <1>3 DEF ls, no, p

\* While a replay runs, only events of sessions that it does not know wait again.
Behind(p) == \A i \in DOMAIN p.queued : p.queued[i].sid \notin DOMAIN p.dirs

LEMMA StaysBehind ==
  ASSUME NEW p, NEW F, PluginOK(p, F), Behind(p), NEW e \in RunEvent, NEW q, Leaves(p, e, q)
  PROVE  Behind(q)
<1>1. p.queued \in Seq(RunEvent) /\ DOMAIN q.dirs \subseteq DOMAIN p.dirs
  BY DEF PluginOK, Leaves
<1>2. CASE q.queued = p.queued
  BY <1>1, <1>2 DEF Behind
<1>3. CASE q.queued = Append(p.queued, e) /\ e.sid \notin DOMAIN p.dirs
  BY <1>1, <1>3 DEF Behind
<1>4. QED
  BY <1>2, <1>3 DEF Leaves

LEMMA ReplayKeeps ==
  ASSUME NEW p, NEW F, PluginOK(p, F), NEW s, NEW T, NEW L \in SUBSET Here, \A t \in L : Tells(p, t, T)
  PROVE  LET q == Replay(p, s)
         IN  /\ PluginOK(q, F \ {s})
             /\ q.pending \subseteq p.pending
             /\ p.pending \ Subagent \subseteq q.pending
             /\ \A t \in L : Tells(q, t, T)
             /\ \A t : Unknown(p, t) => Unknown(q, t)
<1> DEFINE se == p.seen     ru == p.running  ch == p.child  pe == p.pending
           di == p.dirs     lo == p.locating qu == p.queued
           ls == lo \ {s}
           no == <<>>
           b  == Plug(se, ru, ch, pe, di, ls, no)
           q  == Replay(p, s)
           N  == Len(qu)
           G  == F \ {s}
<1>1. qu \in Seq(RunEvent) /\ N \in Nat /\ DOMAIN qu = 1 .. N
  <2>1. qu \in Seq(RunEvent)
    BY DEF PluginOK
  <2> HIDE DEF qu
  <2>2. QED
    BY <2>1
<1>2. q = FoldLeft(Handle, b, qu)
  <2>1. p = Plug(se, ru, ch, pe, di, lo, qu)
    BY DEF PluginOK, IsPlug
  <2> HIDE DEF se, ru, ch, pe, di, lo, qu
  <2>2. Replay(Plug(se, ru, ch, pe, di, lo, qu), s) =
        FoldLeft(Handle, Plug(se, ru, ch, pe, di, lo \ {s}, <<>>), qu)
    BY ReplayIs
  <2>3. QED
    BY <2>1, <2>2
<1>3. /\ b.seen = se /\ b.running = ru /\ b.child = ch /\ b.pending = pe
      /\ b.dirs = di /\ b.locating = lo \ {s} /\ b.queued = <<>>
      /\ IsPlug(b)
  <2>1. /\ b.seen = se /\ b.running = ru /\ b.child = ch /\ b.pending = pe
        /\ b.dirs = di /\ b.locating = ls /\ b.queued = no
        /\ IsPlug(b)
    <3> HIDE DEF ls, no, se, ru, ch, pe, di, lo, qu
    <3>1. QED
      BY FieldsOf
  <2>2. QED
    BY <2>1
<1>4. PICK g : /\ g[0] = b
               /\ \A k \in 1 .. N : g[k] = Handle(g[k - 1], qu[k])
               /\ q = g[N]
  <2>1. \E g : Passes(g, b, qu)
    <3> HIDE DEF b, qu
    <3>1. QED
      BY <1>1, ReplaySteps
  <2>2. QED
    BY <1>2, <2>1 DEF Passes
<1> HIDE DEF b, q, G
<1> DEFINE K == {k \in 0 .. N :
                   /\ PluginOK(g[k], G)
                   /\ Behind(g[k])
                   /\ g[k].pending \subseteq pe
                   /\ pe \ Subagent \subseteq g[k].pending
                   /\ \A t : Unknown(p, t) => Unknown(g[k], t)
                   /\ \A t \in L : (\A j \in k + 1 .. N : qu[j].sid # t) => Tells(g[k], t, T)}
<1>5. 0 \in K
  <2>1. PluginOK(b, G) /\ Behind(b)
    <3>1. /\ ch \subseteq Subagent
          /\ \A t \in DOMAIN di : di[t] \in {Where(t), ""}
          /\ \A t \in se \ Here : t \in DOMAIN di /\ di[t] = ""
      BY DEF PluginOK
    <3>2. (lo \ {s}) \cap DOMAIN di \subseteq G
      BY DEF PluginOK, G
    <3>3. b.queued \in Seq(RunEvent) /\ DOMAIN b.queued = {}
      BY <1>3
    <3> HIDE DEF se, ru, ch, pe, di, lo, no
    <3>4. QED
      BY <1>3, <3>1, <3>2, <3>3 DEF PluginOK, Behind
  <2>2. \A t : Unknown(p, t) => Unknown(b, t)
    BY <1>3 DEF Unknown
  <2>3. ASSUME NEW t \in L, \A j \in 1 .. N : qu[j].sid # t
        PROVE  Tells(b, t, T)
    BY <1>1, <1>3, <2>3 DEF Tells
  <2>4. QED
    BY <1>1, <1>3, <1>4, <2>1, <2>2, <2>3
<1>6. ASSUME NEW k \in 1 .. N, k - 1 \in K
      PROVE  k \in K
  <2> DEFINE a == g[k - 1]
             e == qu[k]
             h == g[k]
  <2>1. /\ k \in 0 .. N /\ k - 1 \in 0 .. N /\ (k - 1) + 1 = k /\ k \in DOMAIN qu
        /\ e \in RunEvent
    BY <1>1
  <2>2. h = Handle(a, e)
    BY <1>4
  <2>3. /\ PluginOK(a, G) /\ Behind(a)
        /\ a.pending \subseteq pe
        /\ pe \ Subagent \subseteq a.pending
        /\ \A t : Unknown(p, t) => Unknown(a, t)
        /\ \A t \in L : (\A j \in k .. N : qu[j].sid # t) => Tells(a, t, T)
    BY <1>6, <2>1
  <2>4. e.sid \in lo
    BY <2>1 DEF PluginOK
  <2>5. \A i \in DOMAIN qu :
          qu[i].sid \in L /\ (\A j \in DOMAIN qu : j > i => qu[j].sid # qu[i].sid)
            => (qu[i].sid \in T <=> qu[i].type # "ended")
    BY DEF Tells
  <2> HIDE DEF a, e, h, K
  <2>6. PluginOK(h, G) /\ Leaves(a, e, h)
    BY <2>1, <2>2, <2>3, RunEventIsHandled
  <2>7. Behind(h)
    BY <2>1, <2>3, <2>6, StaysBehind
  <2>8. e.sid \in DOMAIN a.dirs => \A i \in DOMAIN a.queued : a.queued[i].sid # e.sid
    BY <2>3 DEF Behind
  <2>9. h.pending \subseteq pe /\ pe \ Subagent \subseteq h.pending
    BY <2>3, <2>6 DEF Leaves
  <2>10. ASSUME NEW t, Unknown(p, t)
        PROVE  Unknown(h, t)
    <3>1. t # e.sid /\ Unknown(a, t)
      BY <2>3, <2>4, <2>10 DEF Unknown
    <3>2. QED
      BY <2>6, <3>1 DEF Unknown, Leaves
  <2>11. ASSUME NEW t \in L, \A j \in k + 1 .. N : qu[j].sid # t
        PROVE  Tells(h, t, T)
    <3>1. CASE t = e.sid
      <4>1. \A j \in DOMAIN qu : j > k => qu[j].sid # t
        BY <1>1, <2>1, <2>11
      <4>2. t \in T <=> e.type # "ended"
        BY <2>1, <2>5, <3>1, <4>1 DEF e
      <4>3. QED
        BY <2>1, <2>2, <2>3, <2>8, <3>1, <4>2, RunEventTells
    <3>2. CASE t # e.sid
      <4>1. \A j \in k .. N : qu[j].sid # t
        BY <2>1, <2>11, <3>2 DEF e
      <4>2. Tells(a, t, T)
        BY <2>3, <4>1
      <4>3. QED
        BY <2>1, <2>2, <2>3, <3>2, <4>2, RunEventTells
    <3>3. QED
      BY <3>1, <3>2
  <2>12. QED
    BY <2>1, <2>6, <2>9, <2>10, <2>11, <2>7 DEF K, h
<1>7. N \in K
  <2> HIDE DEF K, N
  <2>1. 0 .. N \subseteq K
    BY <1>1, <1>5, <1>6, Events!UpToFollows
  <2>2. QED
    BY <1>1, <2>1
<1>8. \A t : (\A j \in N + 1 .. N : qu[j].sid # t)
  BY <1>1
<1>9. QED
  BY <1>4, <1>7, <1>8 DEF q, G

-------------------------------------------------------------------------------
(***************************************************************************)
(* The invariant.                                                          *)
(***************************************************************************)
OcTypeOK ==
  /\ oc \in [OcSession -> OcRow]
  /\ \A t \in OcSession : /\ oc[t].run # "no" => oc[t].state = "alive"
                          /\ oc[t].asked => oc[t].run # "no"

\* The location's sessions that live and have no execution from before the plugin.
Tracked == {t \in Here : oc[t].state = "alive" /\ oc[t].run # "unseen"}
Executing == {t \in OcSession : oc[t].run = "yes"}

RunsAreTold == \A t \in Tracked \ overtaken : Tells(plugin, t, Executing)

RequestsAreTold ==
  /\ \A t \in plugin.pending : t \in Here /\ oc[t].asked
  /\ \A t \in Here \ Subagent : oc[t].asked => t \in plugin.pending

NothingAhead == \A t \in OcSession : oc[t].state = "none" => Unknown(plugin, t)

OcInv == OcTypeOK /\ PluginOK(plugin, answered) /\ RunsAreTold /\ RequestsAreTold /\ NothingAhead

\* Whether a session is told to run depends on nothing but the session.
LEMMA TellsOfOne ==
  ASSUME NEW p, NEW t, NEW S, NEW T, t \in S <=> t \in T, Tells(p, t, S)
  PROVE  Tells(p, t, T)
BY DEF Tells

LEMMA OcInitOK == OcInit => OcInv
<1> SUFFICES ASSUME OcInit PROVE OcInv
  OBVIOUS
<1>1. /\ plugin.seen = {} /\ plugin.running = {} /\ plugin.child = {} /\ plugin.pending = {}
      /\ plugin.dirs = EmptyMap /\ plugin.locating = {} /\ plugin.queued = <<>>
      /\ IsPlug(plugin)
  BY DEF OcInit, FreshPlugin, IsPlug, Plug
<1>2. DOMAIN plugin.dirs = {}
  BY <1>1 DEF EmptyMap
<1>3. PluginOK(plugin, answered)
  BY <1>1, <1>2 DEF PluginOK
<1>4. OcTypeOK
  BY DEF OcInit, OcTypeOK, OcRow
<1>5. \A t \in OcSession : oc[t].run # "yes" /\ ~oc[t].asked
  BY DEF OcInit, OcRow
<1>6. RunsAreTold
  BY <1>1, <1>5 DEF RunsAreTold, Tells, Executing
<1>7. RequestsAreTold
  BY <1>1, <1>5, OcConstants DEF RequestsAreTold
<1>8. NothingAhead
  BY <1>1, <1>2 DEF NothingAhead, Unknown
<1>9. QED
  BY <1>3, <1>4, <1>6, <1>7, <1>8 DEF OcInv

\* An event that tells of a run, whether it has to wait or not.
LEMMA RunEventStep ==
  ASSUME OcInv, NEW s \in OcSession, oc[s].state = "alive",
         NEW type \in {"started", "streamed", "ended"}, NEW run \in {"no", "yes"},
         run = "yes" <=> type # "ended", oc[s].asked => run = "yes",
         oc' = [oc EXCEPT ![s].run = run], Emit(s, type)
  PROVE  OcInv'
<1> DEFINE e == [sid |-> s, type |-> type]
<1>1. e \in RunEvent /\ e.sid = s /\ e.type = type
  BY DEF RunEvent
<1>2. /\ plugin' = Handle(plugin, e) /\ answered' = answered
      /\ overtaken' = IF s \in DOMAIN plugin.dirs /\ Queued(s) THEN overtaken \cup {s}
                      ELSE overtaken \ {s}
  BY DEF Emit, Placed
<1>3. PluginOK(plugin, answered)
  BY DEF OcInv
<1> HIDE DEF e
<1>4. PluginOK(plugin', answered') /\ Leaves(plugin, e, plugin')
  BY <1>1, <1>2, <1>3, RunEventIsHandled
<1>5. /\ oc' \in [OcSession -> OcRow]
      /\ oc'[s].state = "alive" /\ oc'[s].run = run /\ oc'[s].asked = oc[s].asked
      /\ \A t \in OcSession : t # s => oc'[t] = oc[t]
  BY DEF OcInv, OcTypeOK, OcRow
<1>6. OcTypeOK'
  BY <1>5 DEF OcInv, OcTypeOK
<1>7. RunsAreTold'
  <2> SUFFICES ASSUME NEW t \in Tracked' \ overtaken' PROVE Tells(plugin', t, Executing')
    BY DEF RunsAreTold
  <2>1. t \in Here /\ t \in OcSession
    BY OcConstants DEF Tracked
  <2>2. CASE t = s
    <3>1. t \in Executing' <=> e.type # "ended"
      BY <1>1, <1>5, <2>2 DEF Executing
    <3>2. t \in DOMAIN plugin.dirs => \A i \in DOMAIN plugin.queued : plugin.queued[i].sid # t
      BY <1>2, <2>2 DEF Queued
    <3>3. QED
      BY <1>1, <1>2, <1>3, <2>1, <2>2, <3>1, <3>2, RunEventTells
  <2>3. CASE t # s
    <3>1. t \in Tracked \ overtaken /\ (t \in Executing' <=> t \in Executing)
      BY <1>2, <1>5, <2>1, <2>3 DEF Tracked, Executing
    <3>2. Tells(plugin, t, Executing')
      BY <3>1, TellsOfOne DEF OcInv, RunsAreTold
    <3>3. QED
      BY <1>1, <1>2, <1>3, <2>1, <2>3, <3>2, RunEventTells
  <2>4. QED
    BY <2>2, <2>3
<1>8. RequestsAreTold'
  BY <1>4, <1>5, OcConstants DEF OcInv, RequestsAreTold, Leaves
<1>9. NothingAhead'
  BY <1>1, <1>4, <1>5 DEF OcInv, NothingAhead, Unknown, Leaves
<1>10. QED
  BY <1>4, <1>6, <1>7, <1>8, <1>9 DEF OcInv

\* What the other events leave as it is.
LEMMA TellsAlike ==
  ASSUME NEW p, NEW q, NEW t, NEW S, NEW T, q.queued = p.queued,
         t \in q.running <=> t \in p.running, t \in S <=> t \in T, Tells(p, t, S)
  PROVE  Tells(q, t, T)
BY DEF Tells

LEMMA OthersAreTold ==
  ASSUME OcInv, NEW s \in OcSession, overtaken' = overtaken, plugin'.queued = plugin.queued,
         \A t : t # s => (t \in plugin'.running <=> t \in plugin.running),
         \A t \in OcSession : t # s => oc'[t] = oc[t]
  PROVE  \A t \in Tracked' \ overtaken' : t # s => Tells(plugin', t, Executing')
<1> SUFFICES ASSUME NEW t \in Tracked' \ overtaken', t # s PROVE Tells(plugin', t, Executing')
  OBVIOUS
<1>1. t \in OcSession /\ t \in Here
  BY OcConstants DEF Tracked
<1>2. t \in Tracked \ overtaken /\ (t \in Executing <=> t \in Executing')
  BY <1>1 DEF Tracked, Executing
<1>3. Tells(plugin, t, Executing)
  BY <1>2 DEF OcInv, RunsAreTold
<1>4. QED
  BY <1>2, <1>3, TellsAlike

LEMMA PluginIsPlug ==
  ASSUME OcInv
  PROVE  plugin = Plug(plugin.seen, plugin.running, plugin.child, plugin.pending, plugin.dirs,
                       plugin.locating, plugin.queued)
BY DEF OcInv, PluginOK, IsPlug

LEMMA CreateStep ==
  ASSUME OcInv, NEW s \in OcSession, OcCreate(s)
  PROVE  OcInv'
<1> DEFINE se == plugin.seen     ru == plugin.running  ch == plugin.child
           pe == plugin.pending  di == plugin.dirs     lo == plugin.locating
           qu == plugin.queued   dd == Put(di, s, Where(s))
           e  == [sid |-> s, type |-> "created"]
           q  == plugin'
<1>1. /\ oc' \in [OcSession -> OcRow]
      /\ oc[s].state = "none" /\ oc'[s].state = "alive"
      /\ oc'[s].run = oc[s].run /\ oc'[s].asked = oc[s].asked
      /\ \A t \in OcSession : t # s => oc'[t] = oc[t]
  BY DEF OcInv, OcTypeOK, OcRow, OcCreate
<1>2. oc[s].run = "no" /\ ~oc[s].asked
  BY <1>1 DEF OcInv, OcTypeOK
<1>3. OcTypeOK'
  BY <1>1, <1>2 DEF OcInv, OcTypeOK
<1>4. s \notin se /\ s \notin ru /\ s \notin DOMAIN di /\ s \notin lo
  BY <1>1 DEF OcInv, NothingAhead, Unknown
<1>5. /\ q = Handle(Plug(se, ru, ch, pe, di, lo, qu), e)
      /\ answered' = answered /\ overtaken' = overtaken
  BY PluginIsPlug DEF OcCreate, Emit, Placed
<1>6. /\ q.running = ru /\ q.pending = pe /\ q.dirs = dd /\ q.locating = lo /\ q.queued = qu
      /\ IsPlug(q)
      /\ q.child \subseteq ch \cup ({s} \cap Subagent)
      /\ IF s \in Here THEN q.seen = se \cup {s} ELSE q.seen = se
  <2> HIDE DEF se, ru, ch, pe, di, lo, qu, q
  <2>1. /\ s \in Here => q = Plug(se \cup {s}, ru, ch \cup ({s} \cap Subagent), pe, dd, lo, qu)
        /\ s \notin Here => q = Plug(se, ru, ch, pe, dd, lo, qu)
    <3>1. s \in Here =>
            Handle(Plug(se, ru, ch, pe, di, lo, qu), [sid |-> s, type |-> "created"]) =
            Plug(se \cup {s}, ru, ch \cup ({s} \cap Subagent), pe, Put(di, s, Where(s)), lo, qu)
      BY CreatedHere
    <3>2. s \notin Here =>
            Handle(Plug(se, ru, ch, pe, di, lo, qu), [sid |-> s, type |-> "created"]) =
            Plug(se, ru, ch, pe, Put(di, s, Where(s)), lo, qu)
      BY CreatedElsewhere
    <3>3. QED
      BY <1>5, <3>1, <3>2
  <2> HIDE DEF dd
  <2>2. CASE s \in Here
    BY <2>1, <2>2 DEF Plug, IsPlug
  <2>3. CASE s \notin Here
    BY <2>1, <2>3 DEF Plug, IsPlug
  <2>4. QED
    BY <2>2, <2>3
<1>7. /\ DOMAIN dd = DOMAIN di \cup {s} /\ dd[s] = Where(s)
      /\ \A t \in DOMAIN di : t # s => dd[t] = di[t]
  <2> HIDE DEF di
  <2>1. QED
    BY DEF Put
<1>8. /\ qu \in Seq(RunEvent)
      /\ \A i \in DOMAIN qu : qu[i].sid \in lo
      /\ lo \cap DOMAIN di \subseteq answered
      /\ ch \subseteq Subagent
      /\ \A t \in DOMAIN di : di[t] \in {Where(t), ""}
      /\ \A t \in se \ Here : t \in DOMAIN di /\ di[t] = ""
  BY DEF OcInv, PluginOK
<1> HIDE DEF e, dd, q
<1>9. PluginOK(q, answered')
  <2>1. lo \cap DOMAIN dd \subseteq answered
    BY <1>4, <1>7, <1>8
  <2>2. \A t \in DOMAIN dd : dd[t] \in {Where(t), ""}
    BY <1>7, <1>8
  <2>3. \A t \in q.seen \ Here : t \in DOMAIN dd /\ dd[t] = ""
    BY <1>4, <1>6, <1>7, <1>8
  <2> HIDE DEF se, ru, ch, pe, di, lo, qu
  <2>4. QED
    BY <1>5, <1>6, <1>8, <2>1, <2>2, <2>3 DEF PluginOK
<1>10. RunsAreTold'
  <2>1. \A t \in Tracked' \ overtaken' : t # s => Tells(plugin', t, Executing')
    BY <1>1, <1>5, <1>6, OthersAreTold DEF q
  <2>2. Tells(q, s, Executing')
    <3>1. s \notin Executing' /\ s \notin q.running
      BY <1>1, <1>2, <1>4, <1>6 DEF Executing
    <3>2. \A i \in DOMAIN q.queued : q.queued[i].sid # s
      <4>1. s \notin lo /\ q.queued = qu /\ \A i \in DOMAIN qu : qu[i].sid \in lo
        BY <1>4, <1>6, <1>8
      <4> HIDE DEF qu, lo
      <4>2. QED
        BY <4>1
    <3>3. QED
      BY <3>1, <3>2 DEF Tells
  <2>3. QED
    BY <2>1, <2>2 DEF RunsAreTold, q
<1>11. RequestsAreTold'
  BY <1>1, <1>6, OcConstants DEF OcInv, RequestsAreTold, q
<1>12. NothingAhead'
  BY <1>1, <1>6, <1>7 DEF OcInv, NothingAhead, Unknown, q
<1>13. QED
  BY <1>3, <1>9, <1>10, <1>11, <1>12 DEF OcInv, q

LEMMA AskStep ==
  ASSUME OcInv, NEW s \in OcSession, NEW type \in {"asked", "replied"},
         oc[s].run # "no", oc' = [oc EXCEPT ![s].asked = (type = "asked")], Emit(s, type)
  PROVE  OcInv'
<1> DEFINE se == plugin.seen     ru == plugin.running  ch == plugin.child
           pe == plugin.pending  di == plugin.dirs     lo == plugin.locating
           qu == plugin.queued
           e  == [sid |-> s, type |-> type]
           q  == plugin'
<1>1. /\ oc' \in [OcSession -> OcRow]
      /\ oc'[s].state = oc[s].state /\ oc'[s].run = oc[s].run
      /\ oc'[s].asked <=> type = "asked"
      /\ \A t \in OcSession : t # s => oc'[t] = oc[t]
  BY DEF OcInv, OcTypeOK, OcRow
<1>2. OcTypeOK'
  BY <1>1 DEF OcInv, OcTypeOK
<1>3. /\ q = Handle(Plug(se, ru, ch, pe, di, lo, qu), e)
      /\ answered' = answered /\ overtaken' = overtaken
  BY PluginIsPlug DEF Emit, Placed
<1>4. /\ q.running = ru /\ q.child = ch /\ q.dirs = di /\ q.locating = lo /\ q.queued = qu
      /\ IsPlug(q)
      /\ q.seen \subseteq se \cup (Here \cap {s})
      /\ q.pending = IF s \notin Here THEN pe
                     ELSE IF type = "asked" THEN pe \cup {s} ELSE pe \ {s}
  <2> HIDE DEF se, ru, ch, pe, di, lo, qu, q
  <2>1. CASE s \notin Here
    <3>1. q = Plug(se, ru, ch, pe, di, lo, qu)
      BY <1>3, <2>1, RequestIs
    <3>2. QED
      BY <2>1, <3>1 DEF Plug, IsPlug
  <2>2. CASE s \in Here /\ type = "asked"
    <3>1. q = Plug(se \cup {s}, ru, ch, pe \cup {s}, di, lo, qu)
      <4>1. q = Note(Plug(se, ru, ch, pe, di, lo, qu), [sid |-> s, type |-> "asked"])
        BY <1>3, <2>2, RequestIs
      <4>2. QED
        BY <4>1, AskedPlug
    <3>2. QED
      BY <2>2, <3>1 DEF Plug, IsPlug
  <2>3. CASE s \in Here /\ type = "replied"
    <3>1. q = Plug(se, ru, ch, pe \ {s}, di, lo, qu)
      <4>1. q = Note(Plug(se, ru, ch, pe, di, lo, qu), [sid |-> s, type |-> "replied"])
        BY <1>3, <2>3, RequestIs
      <4>2. QED
        BY <4>1, RepliedPlug
    <3>2. QED
      BY <2>3, <3>1 DEF Plug, IsPlug
  <2>4. QED
    BY <2>1, <2>2, <2>3
<1> HIDE DEF e, q
<1>5. PluginOK(q, answered')
  <2>1. \A t \in q.seen \ Here : t \in se \ Here
    BY <1>4
  <2>2. QED
    BY <1>3, <1>4, <2>1 DEF OcInv, PluginOK
<1>6. RunsAreTold'
  <2>1. \A t \in Tracked' \ overtaken' : t # s => Tells(plugin', t, Executing')
    BY <1>1, <1>3, <1>4, OthersAreTold DEF q
  <2>2. s \in Tracked' \ overtaken' => Tells(q, s, Executing')
    <3> SUFFICES ASSUME s \in Tracked' \ overtaken' PROVE Tells(q, s, Executing')
      OBVIOUS
    <3>1. s \in Tracked \ overtaken /\ (s \in Executing <=> s \in Executing')
      BY <1>1, <1>3 DEF Tracked, Executing
    <3>2. Tells(plugin, s, Executing)
      BY <3>1 DEF OcInv, RunsAreTold
    <3>3. QED
      BY <1>4, <3>1, <3>2, TellsAlike
  <2>3. QED
    BY <2>1, <2>2 DEF RunsAreTold, q
<1>7. RequestsAreTold'
  <2>1. \A t \in pe : t \in Here /\ oc[t].asked
    BY DEF OcInv, RequestsAreTold
  <2>2. \A t \in Here \ Subagent : oc[t].asked => t \in pe
    BY DEF OcInv, RequestsAreTold
  <2> HIDE DEF pe
  <2>3. \A t \in OcSession : t # s => (t \in q.pending <=> t \in pe)
    BY <1>4
  <2>4. \A t \in q.pending : t \in Here
    BY <1>4, <2>1
  <2>5. CASE s \in Here
    <3>1. s \in q.pending <=> type = "asked"
      BY <1>4, <2>5
    <3>2. QED
      BY <1>1, <2>1, <2>2, <2>3, <2>4, <2>5, <3>1, OcConstants DEF RequestsAreTold, q
  <2>6. CASE s \notin Here
    BY <1>1, <1>4, <2>1, <2>2, <2>6, OcConstants DEF RequestsAreTold, q
  <2>7. QED
    BY <2>5, <2>6
<1>8. NothingAhead'
  <2>1. oc[s].state = "alive"
    BY DEF OcInv, OcTypeOK
  <2>2. QED
    BY <1>1, <1>4, <2>1 DEF OcInv, NothingAhead, Unknown, q
<1>9. QED
  BY <1>2, <1>5, <1>6, <1>7, <1>8 DEF OcInv, q

LEMMA DeleteStep ==
  ASSUME OcInv, NEW s \in OcSession, OcDelete(s)
  PROVE  OcInv'
<1> DEFINE se == plugin.seen     ru == plugin.running  ch == plugin.child
           pe == plugin.pending  di == plugin.dirs     lo == plugin.locating
           qu == plugin.queued   dd == Without(di, {s})
           e  == [sid |-> s, type |-> "deleted"]
           q  == plugin'
<1>1. /\ oc' \in [OcSession -> OcRow]
      /\ oc'[s].state = "deleted" /\ oc'[s].run = "no" /\ ~oc'[s].asked
      /\ \A t \in OcSession : t # s => oc'[t] = oc[t]
  BY DEF OcInv, OcTypeOK, OcRow, OcDelete
<1>2. OcTypeOK'
  BY <1>1 DEF OcInv, OcTypeOK
<1>3. /\ q = Handle(Plug(se, ru, ch, pe, di, lo, qu), e)
      /\ answered' = answered /\ overtaken' = overtaken
  BY PluginIsPlug DEF OcDelete, Emit
<1>4. /\ q.seen = se \ {s} /\ q.running = ru \ {s} /\ q.child = ch \ {s}
      /\ q.pending = pe \ {s} /\ q.dirs = dd /\ q.locating = lo /\ q.queued = qu
      /\ IsPlug(q)
  <2> HIDE DEF se, ru, ch, pe, di, lo, qu, q
  <2>1. q = Plug(se \ {s}, ru \ {s}, ch \ {s}, pe \ {s}, dd, lo, qu)
    BY <1>3, DropPlug
  <2> HIDE DEF dd
  <2>2. QED
    BY <2>1 DEF Plug, IsPlug
<1>5. DOMAIN dd = DOMAIN di \ {s} /\ \A t \in DOMAIN di \ {s} : dd[t] = di[t]
  BY WithoutIs
<1> HIDE DEF e, dd, q
<1>6. PluginOK(q, answered')
  BY <1>3, <1>4, <1>5 DEF OcInv, PluginOK
<1>7. RunsAreTold'
  <2>1. \A t \in Tracked' \ overtaken' : t # s => Tells(plugin', t, Executing')
    BY <1>1, <1>3, <1>4, OthersAreTold DEF q
  <2>2. s \notin Tracked'
    BY <1>1 DEF Tracked
  <2>3. QED
    BY <2>1, <2>2 DEF RunsAreTold
<1>8. RequestsAreTold'
  BY <1>1, <1>4, OcConstants DEF OcInv, RequestsAreTold, q
<1>9. NothingAhead'
  BY <1>1, <1>4, <1>5 DEF OcInv, NothingAhead, Unknown, q
<1>10. QED
  BY <1>2, <1>6, <1>7, <1>8, <1>9 DEF OcInv, q

LEMMA FindStep ==
  ASSUME OcInv, NEW s \in OcSession, LookedUp(s)
  PROVE  OcInv'
<1> DEFINE se == plugin.seen     ru == plugin.running  ch == plugin.child
           pe == plugin.pending  di == plugin.dirs     lo == plugin.locating
           qu == plugin.queued   q == plugin'
<1>1. PICK dir \in {Where(s), ""} : plugin' = [plugin EXCEPT !.dirs = Put(@, s, dir)]
  BY DEF LookedUp
<1>2. /\ s \in lo \ answered /\ answered' = answered \cup {s}
      /\ UNCHANGED <<oc, overtaken>>
  BY DEF LookedUp
<1> DEFINE dd == Put(di, s, dir)
<1>3. /\ q.seen = se /\ q.running = ru /\ q.child = ch /\ q.pending = pe
      /\ q.dirs = dd /\ q.locating = lo /\ q.queued = qu
      /\ IsPlug(q)
  <2>1. q = Plug(se, ru, ch, pe, dd, lo, qu)
    BY <1>1, PluginIsPlug DEF Plug
  <2> HIDE DEF se, ru, ch, pe, dd, lo, qu, q
  <2>2. QED
    BY <2>1 DEF Plug, IsPlug
<1>4. /\ DOMAIN dd = DOMAIN di \cup {s} /\ dd[s] = dir
      /\ \A t \in DOMAIN di : t # s => dd[t] = di[t]
  <2> HIDE DEF di
  <2>1. QED
    BY DEF Put
<1> HIDE DEF dd, q
<1>5. PluginOK(q, answered')
  <2>1. s \notin DOMAIN di
    BY <1>2 DEF OcInv, PluginOK
  <2>2. QED
    BY <1>2, <1>3, <1>4, <2>1 DEF OcInv, PluginOK
<1>6. RunsAreTold'
  <2> SUFFICES ASSUME NEW t \in Tracked' \ overtaken' PROVE Tells(plugin', t, Executing')
    BY DEF RunsAreTold
  <2>1. t \in Tracked \ overtaken /\ Executing' = Executing
    BY <1>2 DEF Tracked, Executing
  <2>2. Tells(plugin, t, Executing)
    BY <2>1 DEF OcInv, RunsAreTold
  <2>3. QED
    BY <1>3, <2>1, <2>2, TellsAlike DEF q
<1>7. NothingAhead'
  BY <1>2, <1>3, <1>4 DEF OcInv, NothingAhead, Unknown, q
<1>8. OcTypeOK' /\ RequestsAreTold'
  BY <1>2, <1>3 DEF OcInv, OcTypeOK, RequestsAreTold, q
<1>9. QED
  BY <1>5, <1>6, <1>7, <1>8 DEF OcInv, q

LEMMA SettleStep ==
  ASSUME OcInv, NEW s \in OcSession, Catchup(s)
  PROVE  OcInv'
<1> DEFINE L == Tracked \ overtaken
<1>1. /\ plugin' = Replay(plugin, s) /\ answered' = answered \ {s}
      /\ UNCHANGED <<oc, overtaken>>
  BY DEF Catchup
<1>2. L \in SUBSET Here /\ \A t \in L : Tells(plugin, t, Executing)
  BY DEF OcInv, RunsAreTold, Tracked
<1>3. L' = L /\ Executing' = Executing
  BY <1>1 DEF Tracked, Executing
<1> HIDE DEF L
<1>4. /\ PluginOK(plugin', answered')
      /\ plugin'.pending \subseteq plugin.pending
      /\ plugin.pending \ Subagent \subseteq plugin'.pending
      /\ \A t \in L : Tells(plugin', t, Executing)
      /\ \A t : Unknown(plugin, t) => Unknown(plugin', t)
  <2>1. PluginOK(plugin, answered)
    BY DEF OcInv
  <2>2. QED
    BY <1>1, <1>2, <2>1, ReplayKeeps
<1>5. RunsAreTold'
  BY <1>3, <1>4 DEF RunsAreTold, L
<1>6. OcTypeOK' /\ NothingAhead'
  BY <1>1, <1>4 DEF OcInv, OcTypeOK, NothingAhead
<1>7. RequestsAreTold'
  BY <1>1, <1>4 DEF OcInv, RequestsAreTold
<1>8. QED
  BY <1>4, <1>5, <1>6, <1>7 DEF OcInv

LEMMA OcStepOK == OcInv /\ [OcNext]_ocVars => OcInv'
<1> SUFFICES ASSUME OcInv, [OcNext]_ocVars PROVE OcInv'
  OBVIOUS
<1>1. CASE UNCHANGED ocVars
  BY <1>1 DEF ocVars, OcInv, OcTypeOK, RunsAreTold, RequestsAreTold, NothingAhead,
              Tracked, Executing
<1>2. ASSUME NEW s \in OcSession, OcCreate(s) PROVE OcInv'
  BY <1>2, CreateStep
<1>3. ASSUME NEW s \in OcSession, OcStart(s) PROVE OcInv'
  BY <1>3, RunEventStep DEF OcStart
<1>4. ASSUME NEW s \in OcSession, OcStream(s) PROVE OcInv'
  BY <1>4, RunEventStep DEF OcStream, OcInv, OcTypeOK
<1>5. ASSUME NEW s \in OcSession, OcEnd(s) PROVE OcInv'
  BY <1>5, RunEventStep DEF OcEnd, OcInv, OcTypeOK
<1>6. ASSUME NEW s \in OcSession, OcAsk(s) PROVE OcInv'
  BY <1>6, AskStep DEF OcAsk
<1>7. ASSUME NEW s \in OcSession, OcReply(s) PROVE OcInv'
  BY <1>7, AskStep DEF OcReply, OcInv, OcTypeOK
<1>8. ASSUME NEW s \in OcSession, OcDelete(s) PROVE OcInv'
  BY <1>8, DeleteStep
<1>9. ASSUME NEW s \in OcSession, LookedUp(s) PROVE OcInv'
  BY <1>9, FindStep
<1>10. ASSUME NEW s \in OcSession, Catchup(s) PROVE OcInv'
  BY <1>10, SettleStep
<1>11. QED
  BY <1>1, <1>2, <1>3, <1>4, <1>5, <1>6, <1>7, <1>8, <1>9, <1>10 DEF OcNext

THEOREM PluginInvariant == OcSpec => []OcInv
<1>1. QED
  BY OcInitOK, OcStepOK, PTL DEF OcSpec

\* Whatever waited for a location and was replayed, a session none of whose events
\* wait is reported as what it is, unless its newest came between the answer and
\* the replay of older ones.
THEOREM ReportsAlwaysTrue == OcSpec => []ReportsAreTrue
<1>1. OcInv => ReportsAreTrue
  <2> SUFFICES ASSUME OcInv, NEW s \in plugin.seen
               PROVE  IF s \notin Here THEN plugin.dirs[s] = ""
                      ELSE oc[s].state = "alive" /\ ~Queued(s) =>
                             /\ oc[s].run # "unseen" /\ s \notin overtaken =>
                                  (s \in plugin.running <=> oc[s].run = "yes")
                             /\ s \in plugin.pending => oc[s].asked
                             /\ oc[s].asked /\ s \notin Subagent => s \in plugin.pending
    BY DEF ReportsAreTrue
  <2>1. s \notin Here => plugin.dirs[s] = ""
    BY DEF OcInv, PluginOK
  <2>2. /\ s \in plugin.pending => oc[s].asked
        /\ s \in Here /\ oc[s].asked /\ s \notin Subagent => s \in plugin.pending
    BY DEF OcInv, RequestsAreTold
  <2>3. ASSUME s \in Here, oc[s].state = "alive", oc[s].run # "unseen", s \notin overtaken,
               ~Queued(s)
        PROVE  s \in plugin.running <=> oc[s].run = "yes"
    <3>1. Tells(plugin, s, Executing)
      BY <2>3 DEF OcInv, RunsAreTold, Tracked
    <3>2. s \in OcSession /\ \A i \in DOMAIN plugin.queued : plugin.queued[i].sid # s
      BY <2>3, OcConstants DEF Queued
    <3>3. QED
      BY <2>3, <3>1, <3>2 DEF Tells, Executing
  <2>4. QED
    BY <2>1, <2>2, <2>3
<1>2. QED
  BY <1>1, PluginInvariant, PTL
===============================================================================
