----------------------------- MODULE BerthServer ------------------------------
(***************************************************************************)
(* The server around one provider's store: the store in memory, its tables *)
(* in the database file, and the server process, which may crash between   *)
(* any two transactions, fail to write, be killed and be started again.    *)
(*                                                                         *)
(* A request changes the store and then writes the tables it touched, one  *)
(* transaction each, and replies; the store's mutex is held all along.  So *)
(* a request or a beat is an action that changes memory and lists the      *)
(* transactions to come in `writing`, and no other one runs until they are *)
(* written or one fails.  Processes die and time passes meanwhile.         *)
(***************************************************************************)
EXTENDS BerthStore, Sequences

VARIABLES
  phase,     \* of the server process
  disk,      \* the tables of the database file
  writing,   \* the transactions the holder of the mutex has yet to commit
  \* History, for the properties:
  promised,  \* removals a user was told of
  seen,      \* session -> [ended, hidden], as clients could last read it
  lagging    \* a report was not written since the last one that was

running    == <<phase, disk, writing>>
history    == <<promised, seen, lagging>>
serverVars == <<vars, running, history>>

Phase == {"down", "loaded", "starting", "up"}
Unlocked == phase = "up" /\ writing = <<>>

-------------------------------------------------------------------------------
(***************************************************************************)
(* The tables and their transactions.                                      *)
(***************************************************************************)
Memory == [snapshots |-> snapshots, removed |-> removed,
           hosted |-> hosted, turns |-> turns]
NoTables == [snapshots |-> EmptyMap, removed |-> EmptyMap,
             hosted |-> {}, turns |-> EmptyMap]

\* A transaction makes a table equal to memory, or writes some rows of it.
Whole(t)      == [table |-> t, whole |-> TRUE,  rows |-> {}]
Rows(t, keys) == [table |-> t, whole |-> FALSE, rows |-> keys]

\* persist_all.
SyncJobs == <<Whole("snapshots"), Whole("removed"), Whole("hosted"), Whole("turns")>>

\* Mutant: the counters wait for the next beat that prunes.
ReportJobsNoTurns(i, someHosted, counted) ==
  <<Rows("snapshots", {i})>> \o (IF someHosted THEN <<Whole("hosted")>> ELSE <<>>)

\* Mutant: the tabs do.
ReportJobsNoTabs(i, someHosted, counted) ==
  <<Rows("snapshots", {i}), Rows("turns", counted)>>

\* persist_change after a report of instance i: its snapshot, the provider's
\* hosted set if it has one, all its counters.  Not the lifted resume marks.
ReportJobs(i, someHosted, counted) ==
  IF someHosted
    THEN <<Rows("snapshots", {i}), Whole("hosted"), Rows("turns", counted)>>
    ELSE <<Rows("snapshots", {i}), Rows("turns", counted)>>

\* Mutant: a beat writes the rows of live processes.
WrittenLive(job) ==
  LET m == Memory[job.table]
      d == disk[job.table]
  IN  IF job.whole
        THEN IF job.table = "snapshots" THEN Restrict(m, DOMAIN m \cap alive) ELSE m
        ELSE [k \in DOMAIN d \cup job.rows |-> IF k \in job.rows THEN m[k] ELSE d[k]]

Written(job) ==
  LET m == Memory[job.table]
      d == disk[job.table]
  IN  IF job.whole THEN m
      ELSE [k \in DOMAIN d \cup job.rows |-> IF k \in job.rows THEN m[k] ELSE d[k]]

\* What clients read of the sessions that have a row: the turns that ended, and
\* whether a resume hides it.
Read(m) ==
  [s \in {t \in Sid : Mentions(m.snapshots, t) # {}} |->
     [ended  |-> IF s \in DOMAIN m.turns THEN m.turns[s].ended ELSE 0,
      hidden |-> s \in DOMAIN m.removed /\ ~m.removed[s].manual]]

\* The request or beat goes on to write, or is done.
Hold(jobs) == writing' = jobs /\ seen' = IF jobs = <<>> THEN Read(Memory') ELSE seen

-------------------------------------------------------------------------------
(***************************************************************************)
(* Requests and beats.                                                     *)
(***************************************************************************)
ServerInit ==
  /\ Init
  /\ phase = "down" /\ disk = NoTables /\ writing = <<>>
  /\ promised = {} /\ seen = EmptyMap /\ lagging = FALSE

\* A report changes the store whether or not it will be written.
Served(i) ==
  /\ \E someHosted \in BOOLEAN :
       /\ hosted' # {} => someHosted
       /\ Hold(ReportJobs(i, someHosted, DOMAIN turns'))
  /\ UNCHANGED <<phase, disk, promised, lagging>>

ServeWorker(w, status) == Unlocked /\ WorkerReport(w, status) /\ Served(w)
ServeHost(h, tabs)     == Unlocked /\ HostReport(h, tabs) /\ Served(h)

\* Request::Remove.  The user is told once the mark is written; whoever asks
\* to resume gives up the earlier removal.
Marked(s) ==
  /\ Hold(<<Rows("removed", {s})>>)
  /\ UNCHANGED <<phase, disk, lagging>>

\* Mutant: the reply does not wait for the write.
ServeRemoveEarly(s) ==
  Unlocked /\ MarkRemoved(s) /\ Marked(s) /\ promised' = promised \cup {s}

ServeRemove(s) == Unlocked /\ MarkRemoved(s) /\ Marked(s) /\ UNCHANGED promised
ServeResume(s) == Unlocked /\ MarkResumed(s) /\ Marked(s) /\ promised' = promised \ {s}

\* A beat of the heartbeat thread.  Retention ends promises.
Beat ==
  /\ Unlocked /\ Prune
  /\ Hold(IF Memory' = Memory THEN <<>> ELSE SyncJobs)
  /\ promised' = promised \ (DOMAIN removed \ DOMAIN removed')
  /\ UNCHANGED <<phase, disk, lagging>>

\* One transaction commits; with the last one the reply goes out, or the server
\* begins to listen.
Commit ==
  /\ writing # <<>>
  /\ LET job  == Head(writing)
         mark == job.table = "removed" /\ ~job.whole
     IN  /\ disk' = [disk EXCEPT ![job.table] = Written(job)]
         /\ promised' = IF mark THEN promised \cup {s \in job.rows : Manual(s)}
                                ELSE promised
         /\ lagging' = (lagging /\ job.table # "turns")
  /\ writing' = Tail(writing)
  /\ seen' = IF writing' = <<>> THEN Read(Memory) ELSE seen
  /\ phase' = IF writing' = <<>> THEN "up" ELSE phase
  /\ UNCHANGED vars

\* A transaction fails: the rest of the change is not written.  A beat ignores
\* it, a request replies with the error, and a server that starts gives up.
Fail ==
  /\ phase = "up" /\ writing # <<>>
  /\ UNCHANGED vars
  /\ Hold(<<>>)
  /\ lagging' = (lagging \/ \E n \in DOMAIN writing :
                                writing[n].table = "turns" /\ ~writing[n].whole)
  /\ UNCHANGED <<phase, disk, promised>>

-------------------------------------------------------------------------------
(***************************************************************************)
(* The server process.                                                     *)
(***************************************************************************)
\* Mutant: the writes of a server that gave up go on.
CrashMidWrite ==
  /\ phase # "down"
  /\ phase' = "down"
  /\ snapshots' = EmptyMap /\ removed' = EmptyMap /\ turns' = EmptyMap
  /\ revived' = {} /\ hosted' = {}
  /\ seen' = Read(disk)
  /\ UNCHANGED <<alive, quiet, disk, writing, promised, lagging>>

\* It is killed, crashes, or gives up; what is in memory is gone, and clients
\* read the file themselves.
Crash ==
  /\ phase # "down"
  /\ phase' = "down" /\ writing' = <<>>
  /\ snapshots' = EmptyMap /\ removed' = EmptyMap /\ turns' = EmptyMap
  /\ revived' = {} /\ hosted' = {}
  /\ seen' = Read(disk)
  /\ UNCHANGED <<alive, quiet, disk, promised, lagging>>

\* Mutant: nothing is seeded, as revived is not in the file.
LoadUnseeded ==
  /\ phase = "down" /\ phase' = "loaded"
  /\ snapshots' = disk.snapshots /\ removed' = disk.removed
  /\ hosted' = disk.hosted /\ turns' = disk.turns
  /\ revived' = {}
  /\ UNCHANGED <<alive, quiet, disk, writing, history>>

\* db::load, then seed_revived: removed sessions that are busy now.
Load ==
  /\ phase = "down" /\ phase' = "loaded"
  /\ snapshots' = disk.snapshots /\ removed' = disk.removed
  /\ hosted' = disk.hosted /\ turns' = disk.turns
  /\ revived' = {s \in DOMAIN disk.removed :
                   disk.removed[s].manual /\ SnapshotStatus(disk.snapshots, s) \in Busy}
  /\ UNCHANGED <<alive, quiet, disk, writing, history>>

\* The rest of serve() up to bind: prune, then write everything.
Restore ==
  /\ phase = "loaded" /\ phase' = "starting"
  /\ Prune
  /\ writing' = SyncJobs
  /\ promised' = promised \ (DOMAIN removed \ DOMAIN removed')
  /\ lagging' = FALSE
  /\ UNCHANGED <<disk, seen>>

\* Without a server `rm` and `resume` write to the file themselves.
OfflineMark(s, manual) ==
  /\ phase = "down"
  /\ disk' = [disk EXCEPT !.removed = Put(@, s, [manual |-> manual, age |-> 0])]
  /\ promised' = IF manual THEN promised \cup {s} ELSE promised \ {s}
  /\ seen' = Read(disk')
  /\ UNCHANGED <<vars, phase, writing, lagging>>

-------------------------------------------------------------------------------
\* Time passes for the rows of the file as for those in memory.
Clock ==
  /\ Tick
  /\ disk' = [disk EXCEPT !.snapshots = AgedRows(@), !.removed = AgedMarks(@)]
  /\ UNCHANGED <<phase, writing, history>>

Process(i) == (Start(i) \/ Die(i)) /\ UNCHANGED <<running, history>>

ArchiveFile(s) == Archive(s) /\ UNCHANGED <<running, history>>

ServerNext ==
  \/ \E w \in Worker, status \in Statuses : ServeWorker(w, status)
  \/ \E h \in Host, tabs \in SUBSET Sid : ServeHost(h, tabs)
  \/ \E s \in Sid : ServeRemove(s) \/ ServeResume(s)
  \/ Beat \/ Commit \/ Fail
  \/ Crash \/ Load \/ Restore
  \/ \E s \in Sid, manual \in BOOLEAN : OfflineMark(s, manual)
  \/ Clock
  \/ \E i \in Instance : Process(i)
  \/ \E s \in Archivable : ArchiveFile(s)

ServerSpec == ServerInit /\ [][ServerNext]_serverVars

-------------------------------------------------------------------------------
Jobs == [table : DOMAIN NoTables, whole : BOOLEAN, rows : SUBSET (Instance \cup Sid)]

ServerTypeOK ==
  /\ TypeOK
  /\ phase \in Phase
  /\ writing \in Seq(Jobs) /\ (writing # <<>> => phase \in {"starting", "up"})
  /\ DOMAIN disk = DOMAIN NoTables
  /\ DOMAIN disk.snapshots \subseteq Instance
  /\ DOMAIN disk.removed \subseteq Sid
  /\ disk.removed \in [DOMAIN disk.removed -> [manual : BOOLEAN, age : Age]]
  /\ disk.hosted \subseteq Sid
  /\ DOMAIN disk.turns \subseteq Sid /\ disk.turns \in [DOMAIN disk.turns -> Turns]
  /\ promised \subseteq Sid /\ lagging \in BOOLEAN
  /\ DOMAIN seen \subseteq Sid
  /\ seen \in [DOMAIN seen -> [ended : Nat, hidden : BOOLEAN]]

\* README.md:413-417: a removal the user was told of is in the file and in the
\* server's memory until the session is resumed or the retention ends it,
\* whatever fails, crashes or starts again in between.
PromisesKept ==
  \A s \in promised :
    /\ s \in DOMAIN disk.removed /\ disk.removed[s].manual
    /\ phase # "down" => Manual(s)

\* README.md:320-322: the counters survive restarts.  What a script read of a
\* session's ended turns never goes back while the session is known, unless a
\* report could not be written.
SeenCountersNeverFall ==
  [][~lagging => \A s \in DOMAIN seen \cap DOMAIN seen' :
                   seen'[s].ended >= seen[s].ended]_serverVars

\* db.rs:275-277: a client reads no tab the file has not got, so a tab that is
\* closed later stays closed across a restart, unless a report was not written.
TabsAreDurable ==
  Unlocked /\ ~lagging => hosted \subseteq disk.hosted

\* store.rs:243-246: a server that begins to listen shows every removed session
\* that is busy, as `rm` promises, and no other removed session.
StartShowsBusyRemovals ==
  [][phase = "starting" /\ phase' = "up"
       => \A s \in DOMAIN removed' : removed'[s].manual =>
            /\ SnapshotStatus(snapshots', s) \in Busy => Listed(s)'
            /\ Listed(s)' => \E i \in Mentions(snapshots', s) :
                               snapshots'[i].status[s] \in Busy]_serverVars

\* What a server that starts now would keep of some tables.
Surviving(d) == Without(d.snapshots, {i \in DOMAIN d.snapshots :
                                        i \notin alive /\ d.snapshots[i].age > Retention})
Recovered(d) ==
  LET live == {s \in Sid : Mentions(Surviving(d), s) # {}}
  IN  [snapshots |-> Surviving(d),
       hosted    |-> d.hosted \cap live,
       turns     |-> Restrict(d.turns, DOMAIN d.turns \cap live),
       hidden    |-> {s \in DOMAIN d.removed :
                        s \in live \/ (d.removed[s].manual /\ d.removed[s].age <= Retention)}]

\* A crash between the transactions of a start costs nothing: the tables that
\* are half written mean the same as those that are.  (Unless a new process
\* takes the id of one whose row was just dropped.)
StartIsRepeatable ==
  phase = "starting" /\ alive \cap (DOMAIN disk.snapshots \ DOMAIN snapshots) = {}
    => Recovered(disk) = Recovered(Memory)

===============================================================================
