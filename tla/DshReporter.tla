------------------------------ MODULE DshReporter ------------------------------
(***************************************************************************)
(* DeepSeek's reporter plugin (dsh.mjs): it follows the app's sessions and *)
(* sends berth one snapshot per session.  Sessions that are archived and  *)
(* idle, or disposed, are cleared once instead of being reported: the pid  *)
(* lives on, so that no staleness takes their rows away.                   *)
(*                                                                         *)
(* Each report is a `notify` process of its own: reports arrive in any     *)
(* order, or not at all.  One archive set fits one CLEAR_BATCH; titles and *)
(* directories are left out.                                               *)
(***************************************************************************)
EXTENDS Naturals, SequencesExt, Maps

CONSTANTS
  DshSession,
  Approval,   \* the requests that wait for the user
  NoRow,      \* no row, and the status of a report that clears
  MaxReports  \* bound: reports on their way

ASSUME DshConstants == MaxReports \in Nat \ {0}

VARIABLES
  dsh,       \* the app: session -> [open, running, asked]
  shelved,   \* the workspace's archivedSessionIds
  tracked,    \* sessions: id -> [busy, blocked]
  cleared,    \* ids whose clear was sent
  lastStored, \* the archive set last read whole
  debounce,   \* a flush is scheduled
  reports,    \* on their way: [id, status]
  row         \* berth: session -> the status in its snapshot

dshVars == <<dsh, shelved, tracked, cleared, lastStored, debounce, reports, row>>

Live(t, id)  == id \in DOMAIN t /\ (t[id].busy \/ t[id].blocked # {})
AppStatus(t, id) == IF id \notin DOMAIN t THEN NoRow
                 ELSE IF t[id].blocked # {} THEN "waiting" ELSE IF t[id].busy THEN "running" ELSE "idle"
Sent(t, S)   == SetToSeq({[id |-> id, status |-> AppStatus(t, id)] : id \in S})

\* archive(): the registry's set, or the stored one, or the last one read when a
\* write by the app tears the file.
Archives(h) == h \in {shelved, lastStored} /\ lastStored' = h

-------------------------------------------------------------------------------
(***************************************************************************)
(* flush: on every heartbeat and after events.                             *)
(***************************************************************************)
Quiet(h)   == {id \in DOMAIN tracked : id \in h /\ ~Live(tracked, id)}
Shown(h)   == {id \in DshSession : /\ dsh[id].open
                                   /\ id \in h => dsh[id].running \/ (id \in DOMAIN tracked /\ tracked[id].blocked # {})}

\* Mutant: an entry that is there is left as it is.
SyncedNew(h) ==
  [id \in (DOMAIN tracked \ Quiet(h)) \cup Shown(h) |->
     IF id \notin DOMAIN tracked \ Quiet(h) THEN [busy |-> dsh[id].running, blocked |-> {}]
     ELSE tracked[id]]

Synced(h) ==
  [id \in (DOMAIN tracked \ Quiet(h)) \cup Shown(h) |->
     IF id \notin DOMAIN tracked \ Quiet(h) THEN [busy |-> dsh[id].running, blocked |-> {}]
     ELSE [tracked[id] EXCEPT !.busy = @ \/ (id \in Shown(h) /\ dsh[id].running)]]

Flush(h) ==
  /\ Len(reports) < MaxReports
  /\ LET t     == Synced(h)
         clear == (h \ (cleared \ Shown(h))) \ DOMAIN t
     IN  /\ tracked' = t
         /\ cleared' = (cleared \ Shown(h)) \cup clear
         /\ reports' = reports \o Sent(t, DOMAIN t) \o Sent(t, clear)
  /\ Archives(h) /\ debounce' = FALSE
  /\ UNCHANGED <<dsh, shelved, row>>

-------------------------------------------------------------------------------
(***************************************************************************)
(* session/event: the app changes and the handler runs.                    *)
(***************************************************************************)
\* The app's side of the events: a session waits for approvals within a turn or
\* without one, for several at once, and the end of a turn withdraws them all.  A
\* title may still come when its session is disposed.
Happens(id, e) ==
  CASE e.kind = "turn/start"       -> /\ dsh[id].open /\ ~dsh[id].running
                                      /\ dsh' = [dsh EXCEPT ![id].running = TRUE]
    [] e.kind = "turn/end"         -> /\ dsh[id].running
                                      /\ dsh' = [dsh EXCEPT ![id].running = FALSE, ![id].asked = {}]
    [] e.kind = "approval/asked"   -> /\ dsh[id].open /\ e.data \notin dsh[id].asked
                                      /\ dsh' = [dsh EXCEPT ![id].asked = @ \cup {e.data}]
    [] e.kind = "approval/decided" -> /\ e.data \in dsh[id].asked
                                      /\ dsh' = [dsh EXCEPT ![id].asked = @ \ {e.data}]
    [] e.kind = "session/title"    -> UNCHANGED dsh

\* The handler's note of them; any of them begins an entry.
Events == [kind : {"approval/asked", "approval/decided"}, data : Approval]
            \cup [kind : {"turn/start", "turn/end", "session/title"}]
Noted(s, e) ==
  CASE e.kind = "turn/start"       -> [s EXCEPT !.busy = TRUE]
    [] e.kind = "turn/end"         -> [busy |-> FALSE, blocked |-> {}]
    [] e.kind = "approval/asked"   -> [s EXCEPT !.blocked = @ \cup {e.data}]
    [] e.kind = "approval/decided" -> [s EXCEPT !.blocked = @ \ {e.data}]
    [] e.kind = "session/title"    -> s

SessionEvent(id, e, h) ==
  /\ Happens(id, e) /\ Len(reports) < MaxReports
  /\ Archives(h)
  /\ LET old == IF id \in DOMAIN tracked THEN tracked[id] ELSE [busy |-> FALSE, blocked |-> {}]
         t   == Put(tracked, id, Noted(old, e))
     IN  IF id \in h /\ ~Live(t, id)
         THEN /\ tracked' = Without(t, {id})
              /\ cleared' = cleared \cup {id}
              /\ reports' = IF id \in cleared THEN reports ELSE Append(reports, [id |-> id, status |-> NoRow])
              /\ UNCHANGED debounce
         ELSE /\ tracked' = t
              /\ cleared' = cleared \ {id}
              /\ debounce' = TRUE
              /\ UNCHANGED reports
  /\ UNCHANGED <<shelved, row>>

\* session/disposed.
Dispose(id) ==
  /\ dsh[id].open /\ Len(reports) < MaxReports
  /\ dsh' = [dsh EXCEPT ![id] = [open |-> FALSE, running |-> FALSE, asked |-> {}]]
  /\ tracked' = Without(tracked, {id})
  /\ reports' = IF id \in DOMAIN tracked THEN Append(reports, [id |-> id, status |-> NoRow]) ELSE reports
  /\ UNCHANGED <<shelved, cleared, lastStored, debounce, row>>

\* The app opens a session; the user archives one or takes it back.
OpenSession(id) ==
  /\ ~dsh[id].open
  /\ dsh' = [dsh EXCEPT ![id].open = TRUE]
  /\ UNCHANGED <<shelved, tracked, cleared, lastStored, debounce, reports, row>>

ToggleArchive(id) ==
  /\ shelved' = IF id \in shelved THEN shelved \ {id} ELSE shelved \cup {id}
  /\ UNCHANGED <<dsh, tracked, cleared, lastStored, debounce, reports, row>>

\* A `notify` process gets through to berth, before or after those spawned ahead
\* of it, or fails.
Deliver(i) ==
  /\ i \in DOMAIN reports
  /\ row' = [row EXCEPT ![reports[i].id] = reports[i].status]
  /\ reports' = RemoveAt(reports, i)
  /\ UNCHANGED <<dsh, shelved, tracked, cleared, lastStored, debounce>>

Lose(i) ==
  /\ i \in DOMAIN reports
  /\ reports' = RemoveAt(reports, i)
  /\ UNCHANGED <<dsh, shelved, tracked, cleared, lastStored, debounce, row>>

\* The plugin loads: sessions may be open and running.  (The rows of an earlier
\* process go with its pid.)
DshInit ==
  /\ dsh \in [DshSession -> {[open |-> o, running |-> r, asked |-> {}] : o, r \in BOOLEAN}]
  /\ \A id \in DshSession : dsh[id].running => dsh[id].open
  /\ shelved \in SUBSET DshSession
  /\ tracked = <<>> /\ cleared = {} /\ lastStored = {} /\ debounce = TRUE /\ reports = <<>>
  /\ row = [id \in DshSession |-> NoRow]

DshNext ==
  \/ \E h \in SUBSET DshSession : Flush(h)
  \/ \E id \in DshSession :
       \/ \E e \in Events, h \in SUBSET DshSession : SessionEvent(id, e, h)
       \/ Dispose(id) \/ OpenSession(id) \/ ToggleArchive(id)
  \/ \E i \in DOMAIN reports : Deliver(i) \/ Lose(i)

\* The heartbeat never stops, a write of the archive set does not tear every
\* read of it (strong fairness, for the bound on reports disables a heartbeat
\* now and then), and of a session reported again and again some report gets
\* through: what fails once need not fail at the next heartbeat.
DeliverOne(id) == \E i \in DOMAIN reports : reports[i].id = id /\ Deliver(i)

DshFairness ==
  /\ SF_dshVars(Flush(shelved))
  /\ \A id \in DshSession : SF_dshVars(DeliverOne(id))

DshSpec == DshInit /\ [][DshNext]_dshVars /\ DshFairness

-------------------------------------------------------------------------------
Wanted(id) ==
  IF ~dsh[id].open \/ (id \in shelved /\ ~dsh[id].running /\ dsh[id].asked = {}) THEN NoRow
  ELSE IF dsh[id].asked # {} THEN "waiting" ELSE IF dsh[id].running THEN "running" ELSE "idle"

\* Once the app stays as it is, the rows of the sessions it shows become what it
\* shows, whatever reports were lost or overtook each other: archived ones that
\* run or wait included.
RowsFollowTheApp ==
  <>[][FALSE]_<<dsh, shelved>> =>
    <>[](\A id \in DshSession : Wanted(id) # NoRow => row[id] = Wanted(id))

\* "A clear is what removes the row a reporting pid would otherwise hold past the
\* staleness window" (dsh.mjs:152-153): a session that was cleared, and of which no
\* report is on its way, has no row.
ClearedRowsAreGone ==
  \A id \in cleared \ DOMAIN tracked :
    (\A i \in DOMAIN reports : reports[i].id # id) => row[id] = NoRow
===============================================================================
