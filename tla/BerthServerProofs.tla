--------------------------- MODULE BerthServerProofs --------------------------
(***************************************************************************)
(* What holds of the plugin store and of the server around it for any      *)
(* sessions, reporters and periods, whichever transactions fail and        *)
(* whenever the server dies.  The store: its types, the pairing of its     *)
(* counters, and what a removal by the user means.  The server and its     *)
(* database file: the types and the pairing, in memory and in the file;    *)
(* that no removal the user was told of, no tab and no counter a client    *)
(* read is lost; and that a start that is cut short is as good as one      *)
(* that was not.                                                           *)
(***************************************************************************)
EXTENDS BerthServer, WellFoundedInduction, TLAPS

(***************************************************************************)
(* The store.                                                              *)
(***************************************************************************)
\* The parts of TypeOK, one variable each.
SnapshotOK(i, r) ==
  /\ DOMAIN r = {"status", "tabs", "age"}
  /\ DOMAIN r.status \subseteq Sid
  /\ \A s \in DOMAIN r.status : r.status[s] \in Level
  /\ r.tabs \subseteq Sid /\ (r.tabs # {} => i \in Host)
  /\ r.age \in Age

SnapshotsOK == /\ DOMAIN snapshots \subseteq Instance
               /\ \A i \in DOMAIN snapshots : SnapshotOK(i, snapshots[i])
RemovedOK == /\ DOMAIN removed \subseteq Sid
             /\ removed \in [DOMAIN removed -> [manual : BOOLEAN, age : Age]]
TurnsOK   == /\ DOMAIN turns \subseteq Sid
             /\ turns \in [DOMAIN turns -> Turns]
SetsOK    == /\ alive \subseteq Instance
             /\ revived \subseteq Sid /\ quiet \subseteq Archivable /\ hosted \subseteq Sid

StoreInv == SnapshotsOK /\ RemovedOK /\ TurnsOK /\ SetsOK /\ TurnsArePaired

LEMMA TypeParts == TypeOK <=> SnapshotsOK /\ RemovedOK /\ TurnsOK /\ SetsOK
  BY DEF TypeOK, SnapshotsOK, SnapshotOK, RemovedOK, TurnsOK, SetsOK

-------------------------------------------------------------------------------
(***************************************************************************)
(* Operators.                                                              *)
(***************************************************************************)

\* Ages stay in range, and zero is one.
LEMMA AgeType ==
  /\ 0 \in Age /\ Age \subseteq Nat
  /\ \A age \in Age : Older(age) \in Age
  BY StoreConstants DEF Age, Older

\* TurnCounts::report keeps a pair of counters typed and paired.
LEMMA TurnsAfterPaired ==
  ASSUME NEW t \in Turns, NEW busy \in BOOLEAN,
         t.started = t.ended + (IF t.busy THEN 1 ELSE 0)
  PROVE  LET u == TurnsAfter(t, busy)
         IN  /\ u \in Turns
             /\ u.started = u.ended + (IF u.busy THEN 1 ELSE 0)
<1> DEFINE u == TurnsAfter(t, busy)
<1>1. t.started \in Nat /\ t.ended \in Nat /\ t.busy \in BOOLEAN
  BY DEF Turns
<1>2. CASE busy /\ t.busy
  BY <1>1, <1>2 DEF TurnsAfter, Turns
<1>3. CASE busy /\ ~t.busy
  BY <1>1, <1>3 DEF TurnsAfter, Turns
<1>4. CASE ~busy /\ t.busy
  BY <1>1, <1>4 DEF TurnsAfter, Turns
<1>5. CASE ~busy /\ ~t.busy
  BY <1>1, <1>5 DEF TurnsAfter, Turns
<1>6. QED
  BY <1>2, <1>3, <1>4, <1>5

\* Dropping keys of a map keeps the other entries.
LEMMA WithoutEntries ==
  ASSUME NEW b, NEW S
  PROVE  /\ DOMAIN Without(b, S) = DOMAIN b \ S
         /\ \A k \in DOMAIN b \ S : Without(b, S)[k] = b[k]
  BY DEF Without, Restrict

-------------------------------------------------------------------------------
(***************************************************************************)
(* The invariant: types and pairing, one lemma per handler.                *)
(***************************************************************************)

LEMMA StoreInitInv == Init => StoreInv
  BY DEF Init, EmptyMap, StoreInv, SnapshotsOK, RemovedOK, TurnsOK, SetsOK, TurnsArePaired

LEMMA UpdateInv ==
  ASSUME StoreInv, NEW i \in Instance, NEW status \in Statuses, NEW tabs \in SUBSET Sid,
         tabs # {} => i \in Host, Update(i, status, tabs)
  PROVE  StoreInv'
<1> DEFINE new == [status |-> status, tabs |-> tabs, age |-> 0]
           reported == DOMAIN status
<1>1. reported \subseteq Sid /\ \A s \in reported : status[s] \in Level
  BY DEF Statuses
<1>2. SnapshotsOK'
  <2>1. SnapshotOK(i, new)
    BY <1>1, AgeType DEF SnapshotOK
  <2>2. snapshots' = Put(snapshots, i, new)
    BY DEF Update
  <2> HIDE DEF new
  <2>3. QED
    BY <2>1, <2>2 DEF StoreInv, SnapshotsOK, Put
<1>3. RemovedOK'
  <2>1. PICK S : removed' = Without(removed, S)
    BY DEF Update
  <2>2. QED
    BY <2>1, WithoutEntries DEF StoreInv, RemovedOK, Without, Restrict
<1>4. SetsOK'
  BY <1>1 DEF StoreInv, SetsOK, Update
<1>5. TurnsOK' /\ TurnsArePaired'
  <2>1. turns' = [s \in DOMAIN turns \cup reported |->
                    IF s \in reported THEN TurnsAfter(TurnsOf(s), status[s] \in Busy)
                                      ELSE turns[s]]
    BY DEF Update
  <2>2. \A s \in Sid : /\ TurnsOf(s) \in Turns
                       /\ TurnsOf(s).started =
                            TurnsOf(s).ended + (IF TurnsOf(s).busy THEN 1 ELSE 0)
    BY DEF StoreInv, TurnsOK, TurnsArePaired, TurnsOf, NoTurns, Turns
  <2>3. \A s \in reported :
          /\ turns'[s] \in Turns
          /\ turns'[s].started = turns'[s].ended + (IF turns'[s].busy THEN 1 ELSE 0)
    <3> TAKE s \in reported
    <3> DEFINE busy == status[s] \in Busy
               t    == TurnsOf(s)
    <3>1. turns'[s] = TurnsAfter(t, busy) /\ busy \in BOOLEAN
      BY <2>1
    <3>2. t \in Turns /\ t.started = t.ended + (IF t.busy THEN 1 ELSE 0)
      BY <1>1, <2>2
    <3> HIDE DEF busy, t
    <3>3. QED
      BY <3>1, <3>2, TurnsAfterPaired
  <2>4. DOMAIN turns' = DOMAIN turns \cup reported
        /\ \A s \in DOMAIN turns \ reported : turns'[s] = turns[s]
    BY <2>1
  <2>5. TurnsArePaired'
    BY <2>3, <2>4 DEF StoreInv, TurnsArePaired
  <2>6. TurnsOK'
    BY <1>1, <2>1, <2>3, <2>4 DEF StoreInv, TurnsOK
  <2>7. QED
    BY <2>5, <2>6
<1>6. QED
  BY <1>2, <1>3, <1>4, <1>5 DEF StoreInv

LEMMA MarkInv ==
  ASSUME StoreInv, NEW s \in Sid, MarkRemoved(s) \/ MarkResumed(s)
  PROVE  StoreInv'
<1>1. /\ UNCHANGED <<alive, snapshots, quiet, hosted, turns>>
      /\ revived' \subseteq revived
  BY DEF MarkRemoved, MarkResumed
<1>2. PICK m \in BOOLEAN : removed' = Put(removed, s, [manual |-> m, age |-> 0])
  BY DEF MarkRemoved, MarkResumed
<1>3. RemovedOK'
  BY <1>2, AgeType DEF StoreInv, RemovedOK, Put
<1>4. QED
  BY <1>1, <1>3 DEF StoreInv, SnapshotsOK, SetsOK, TurnsOK, TurnsArePaired

LEMMA PruneInv ==
  ASSUME StoreInv, Prune
  PROVE  StoreInv'
<1>1. PICK G, L, T :
        /\ snapshots' = Without(snapshots, G)
        /\ removed' = Without(removed, L)
        /\ turns' = Without(turns, T)
  BY DEF Prune
<1>2. SnapshotsOK'
  <2>1. /\ DOMAIN snapshots' = DOMAIN snapshots \ G
        /\ \A i \in DOMAIN snapshots \ G : snapshots'[i] = snapshots[i]
    BY <1>1, WithoutEntries
  <2>2. QED
    BY <2>1 DEF StoreInv, SnapshotsOK
<1>3. RemovedOK'
  BY <1>1 DEF StoreInv, RemovedOK, Without, Restrict
<1>4. TurnsOK'
  BY <1>1 DEF StoreInv, TurnsOK, Without, Restrict
<1>5. TurnsArePaired'
  <2>1. /\ DOMAIN turns' = DOMAIN turns \ T
        /\ \A s \in DOMAIN turns \ T : turns'[s] = turns[s]
    BY <1>1, WithoutEntries
  <2>2. QED
    BY <2>1 DEF StoreInv, TurnsArePaired
<1>6. SetsOK'
  BY DEF StoreInv, SetsOK, Prune
<1>7. QED
  BY <1>2, <1>3, <1>4, <1>5, <1>6 DEF StoreInv

LEMMA TickInv ==
  ASSUME StoreInv, Tick
  PROVE  StoreInv'
<1>1. snapshots' = [i \in DOMAIN snapshots |-> [snapshots[i] EXCEPT !.age = Older(@)]]
  BY DEF Tick, AgedRows
<1>2. SnapshotsOK'
  <2>1. ASSUME NEW i \in DOMAIN snapshots
        PROVE  SnapshotOK(i, [snapshots[i] EXCEPT !.age = Older(@)])
    BY AgeType DEF StoreInv, SnapshotsOK, SnapshotOK
  <2>2. QED
    BY <1>1, <2>1 DEF StoreInv, SnapshotsOK
<1>3. RemovedOK'
  <2>1. ASSUME NEW s \in DOMAIN removed
        PROVE  [removed[s] EXCEPT !.age = IF removed[s].manual THEN Older(@) ELSE @]
                 \in [manual : BOOLEAN, age : Age]
    BY AgeType DEF StoreInv, RemovedOK
  <2>2. QED
    BY <2>1 DEF StoreInv, RemovedOK, Tick, AgedMarks
<1>4. TurnsOK' /\ TurnsArePaired' /\ SetsOK'
  BY DEF Tick, StoreInv, TurnsOK, TurnsArePaired, SetsOK
<1>5. QED
  BY <1>2, <1>3, <1>4 DEF StoreInv

LEMMA OutsideInv ==
  ASSUME StoreInv,
         \/ \E s \in Archivable : Archive(s)
         \/ \E i \in Instance : Start(i) \/ Die(i)
  PROVE  StoreInv'
<1>1. UNCHANGED <<snapshots, removed, revived, hosted, turns>>
  BY DEF Archive, Start, Die, store
<1>2. quiet' \subseteq Archivable /\ alive' \subseteq Instance
  BY DEF StoreInv, SetsOK, Archive, Start, Die, store
<1>3. QED
  BY <1>1, <1>2 DEF StoreInv, SnapshotsOK, RemovedOK, TurnsOK, SetsOK, TurnsArePaired

\* The reports are updates.
LEMMA ReportIsUpdate ==
  ASSUME \/ \E w \in Worker, st \in Statuses : WorkerReport(w, st)
         \/ \E h \in Host, tb \in SUBSET Sid : HostReport(h, tb)
  PROVE  \E i \in Instance, status \in Statuses, tabs \in SUBSET Sid :
           (tabs # {} => i \in Host) /\ Update(i, status, tabs)
<1>1. EmptyMap \in Statuses
  BY DEF EmptyMap, Statuses
<1>2. QED
  BY <1>1 DEF WorkerReport, HostReport, Instance

LEMMA StoreStepInv == StoreInv /\ [Next]_vars => StoreInv'
<1> SUFFICES ASSUME StoreInv, [Next]_vars PROVE StoreInv'
  OBVIOUS
<1>1. CASE \/ \E w \in Worker, st \in Statuses : WorkerReport(w, st)
           \/ \E h \in Host, tb \in SUBSET Sid : HostReport(h, tb)
  BY <1>1, ReportIsUpdate, UpdateInv
<1>2. CASE \E s \in Sid : MarkRemoved(s) \/ MarkResumed(s)
  BY <1>2, MarkInv
<1>3. CASE \/ \E s \in Archivable : Archive(s)
           \/ \E i \in Instance : Start(i) \/ Die(i)
  BY <1>3, OutsideInv
<1>4. CASE Prune
  BY <1>4, PruneInv
<1>5. CASE Tick
  BY <1>5, TickInv
<1>6. CASE UNCHANGED vars
  BY <1>6 DEF vars, store, StoreInv, SnapshotsOK, RemovedOK, TurnsOK, SetsOK, TurnsArePaired
<1>7. QED
  BY <1>1, <1>2, <1>3, <1>4, <1>5, <1>6 DEF Next

\* Types and pairing in every reachable state.
THEOREM StoreInvariant == Spec => []StoreInv
  BY StoreInitInv, StoreStepInv, PTL DEF Spec

\* The store is well typed.
THEOREM StoreTypeCorrect == Spec => []TypeOK
<1>1. StoreInv => TypeOK
  BY TypeParts DEF StoreInv
<1>2. QED
  BY <1>1, StoreInvariant, PTL

\* Every start the store counted was ended or is the turn that runs.
THEOREM TurnsAlwaysPaired == Spec => []TurnsArePaired
<1>1. StoreInv => TurnsArePaired
  BY DEF StoreInv
<1>2. QED
  BY <1>1, StoreInvariant, PTL

-------------------------------------------------------------------------------
(***************************************************************************)
(* What a removal means.                                                   *)
(***************************************************************************)

\* A busy entry of session s in the snapshots b.
BusyEntry(b, i, s) == i \in Mentions(b, s) /\ b[i].status[s] \in Busy

\* Any entries have a latest one.
LEMMA LatestExists ==
  ASSUME StoreInv, NEW s \in Sid, Kept(s) # {}
  PROVE  Best(s) # {}
<1> DEFINE ages == {snapshots[i].age : i \in Kept(s)}
           less == {ss \in Nat \X Nat : ss[1] < ss[2]}
<1>1. Kept(s) \subseteq DOMAIN snapshots
  BY DEF Kept, Mentions
<1>2. ages # {} /\ ages \subseteq Nat
  BY <1>1, AgeType DEF StoreInv, SnapshotsOK, SnapshotOK
<1>3. PICK least \in ages : \A age \in ages : ~(<<age, least>> \in less)
  <2>1. IsWellFoundedOn(less, Nat)
    BY NatLessThanWellFounded DEF OpToRel
  <2> HIDE DEF less, ages
  <2>2. QED
    BY <1>2, <2>1, WFMin
<1>4. \A age \in ages : least <= age
  <2>1. \A m, n \in Nat : ~(<<m, n>> \in less) => n <= m
    OBVIOUS
  <2> HIDE DEF less, ages
  <2>2. TAKE age \in ages
  <2>3. least \in Nat /\ age \in Nat /\ ~(<<age, least>> \in less)
    BY <1>2, <1>3
  <2>4. QED
    BY <2>1, <2>3
<1>5. PICK i \in Kept(s) : snapshots[i].age = least
  BY <1>3
<1>6. i \in Best(s)
  BY <1>4, <1>5 DEF Best
<1>7. QED
  BY <1>6

\* A session the user removed is listed exactly while an entry of it is busy
\* and it has been revived.
LEMMA ListedRemoved ==
  ASSUME StoreInv, NEW s \in Sid, Manual(s)
  PROVE  Listed(s) <=> s \in revived /\ \E i : BusyEntry(snapshots, i, s)
<1>1. Kept(s) = {i \in Mentions(snapshots, s) :
                   snapshots[i].status[s] \in Busy /\ s \in revived}
  BY DEF Kept, Keep
<1>2. ListedBy(s) = Best(s)
  BY <1>1 DEF ListedBy, Best
<1>3. ASSUME Listed(s)
      PROVE  s \in revived /\ \E i : BusyEntry(snapshots, i, s)
  BY <1>1, <1>3 DEF Listed, ListedBy, Best, BusyEntry
<1>4. ASSUME s \in revived, \E i : BusyEntry(snapshots, i, s)
      PROVE  Listed(s)
  <2>1. Kept(s) # {}
    BY <1>1, <1>4 DEF BusyEntry
  <2>2. QED
    BY <1>2, <2>1, LatestExists DEF Listed
<1>5. QED
  BY <1>3, <1>4

\* The same of the next state.
LEMMA ListedRemovedNext ==
  ASSUME NEW s \in Sid, Manual(s)', Listed(s)'
  PROVE  s \in revived' /\ \E i : BusyEntry(snapshots', i, s)
<1>1. PICK i : i \in Mentions(snapshots', s) /\ Keep(i, s)'
  BY DEF Listed, ListedBy, Best, Kept
<1>2. BusyEntry(snapshots', i, s) /\ s \in revived'
  BY <1>1 DEF Keep, BusyEntry
<1>3. QED
  BY <1>2

\* Only a report that says it is busy gives a session a busy entry.
LEMMA BusyEntryIsReported ==
  ASSUME StoreInv, [Next]_vars, NEW s \in Sid, NEW i,
         BusyEntry(snapshots', i, s), ~BusyEntry(snapshots, i, s)
  PROVE  SnapshotStatus(snapshots', s) \in Busy
<1>1. CASE \/ \E w \in Worker, st \in Statuses : WorkerReport(w, st)
           \/ \E h \in Host, tb \in SUBSET Sid : HostReport(h, tb)
  <2>1. PICK j \in Instance, status \in Statuses, tabs \in SUBSET Sid :
          Update(j, status, tabs)
    BY <1>1, ReportIsUpdate
  <2> DEFINE new == [status |-> status, tabs |-> tabs, age |-> 0]
  <2>2. snapshots' = Put(snapshots, j, new)
    BY <2>1 DEF Update
  <2>3. new.age = 0 /\ 0 <= Stale
    BY StoreConstants
  <2> HIDE DEF new
  <2>4. i = j
    BY <2>2 DEF BusyEntry, Mentions, Put
  <2>5. snapshots'[i].age = 0
    BY <2>2, <2>3, <2>4 DEF Put
  <2>6. i \in Fresh(snapshots', s)
    BY <2>3, <2>5 DEF Fresh, BusyEntry
  <2>7. QED
    BY <2>6 DEF SnapshotStatus, BusyEntry, Busy
<1>2. CASE \/ \E t \in Sid : MarkRemoved(t) \/ MarkResumed(t)
           \/ \E t \in Archivable : Archive(t)
           \/ \E p \in Instance : Start(p) \/ Die(p)
           \/ UNCHANGED vars
  BY <1>2 DEF MarkRemoved, MarkResumed, Archive, Start, Die, store, vars
<1>3. CASE Prune
  <2>1. PICK G : snapshots' = Without(snapshots, G)
    BY <1>3 DEF Prune
  <2>2. /\ DOMAIN snapshots' = DOMAIN snapshots \ G
        /\ \A k \in DOMAIN snapshots \ G : snapshots'[k] = snapshots[k]
    BY <2>1, WithoutEntries
  <2>3. QED
    BY <2>2 DEF BusyEntry, Mentions
<1>4. CASE Tick
  <2>1. snapshots' = [k \in DOMAIN snapshots |-> [snapshots[k] EXCEPT !.age = Older(@)]]
    BY <1>4 DEF Tick, AgedRows
  <2>2. \A k \in DOMAIN snapshots : [snapshots[k] EXCEPT !.age = Older(@)].status
                                      = snapshots[k].status
    BY DEF StoreInv, SnapshotsOK, SnapshotOK
  <2>3. QED
    BY <2>1, <2>2 DEF BusyEntry, Mentions
<1>5. QED
  BY <1>1, <1>2, <1>3, <1>4 DEF Next

\* Only a report that finds it busy revives a session.
LEMMA RevivalIsReported ==
  ASSUME [Next]_vars, NEW s \in Sid, s \in revived', s \notin revived
  PROVE  SnapshotStatus(snapshots', s) \in Busy
<1>1. CASE \/ \E w \in Worker, st \in Statuses : WorkerReport(w, st)
           \/ \E h \in Host, tb \in SUBSET Sid : HostReport(h, tb)
  <2>1. PICK j \in Instance, status \in Statuses, tabs \in SUBSET Sid :
          Update(j, status, tabs)
    BY <1>1, ReportIsUpdate
  <2>2. Revives(SnapshotStatus(snapshots, s), SnapshotStatus(snapshots', s))
    BY <2>1 DEF Update
  <2>3. QED
    BY <2>2 DEF Revives, Busy
<1>2. CASE \/ \E t \in Sid : MarkRemoved(t) \/ MarkResumed(t)
           \/ \E t \in Archivable : Archive(t)
           \/ \E p \in Instance : Start(p) \/ Die(p)
           \/ Prune \/ Tick \/ UNCHANGED vars
  BY <1>2 DEF MarkRemoved, MarkResumed, Archive, Start, Die, Prune, Tick, store, vars
<1>3. QED
  BY <1>1, <1>2 DEF Next

\* README.md:413-415: of a session the user removed, only a live report that
\* shows it busy brings the row back.
THEOREM RemovalAlwaysSticks == Spec => RemovalSticks
<1> DEFINE Sticks == \A s \in Sid :
                       Manual(s) /\ Manual(s)' /\ ~Listed(s) /\ Listed(s)'
                         => SnapshotStatus(snapshots', s) \in Busy
<1>1. ASSUME StoreInv, StoreInv', [Next]_vars, NEW s \in Sid,
             Manual(s), Manual(s)', ~Listed(s), Listed(s)'
      PROVE  SnapshotStatus(snapshots', s) \in Busy
  <2>1. s \in revived' /\ \E i : BusyEntry(snapshots', i, s)
    BY <1>1, ListedRemovedNext
  <2>2. ~(s \in revived /\ \E i : BusyEntry(snapshots, i, s))
    BY <1>1, ListedRemoved
  <2>3. CASE s \notin revived
    BY <1>1, <2>1, <2>3, RevivalIsReported
  <2>4. CASE \A i : ~BusyEntry(snapshots, i, s)
    BY <1>1, <2>1, <2>4, BusyEntryIsReported
  <2>5. QED
    BY <2>2, <2>3, <2>4
<1>2. StoreInv /\ StoreInv' /\ [Next]_vars => [Sticks]_vars
  BY <1>1
<1>3. QED
  BY <1>2, StoreInvariant, PTL DEF Spec, RemovalSticks

\* README.md:413-415: the report that ends the turn of a removed session hides
\* it again.
THEOREM RemovalAlwaysHidesAgain == Spec => RemovalHidesAgain
<1> DEFINE Ends(s) == /\ Manual(s)
                      /\ turns'[s].ended > turns[s].ended
                      /\ SnapshotStatus(snapshots', s) \notin Busy
           Hides == \A s \in DOMAIN turns \cap DOMAIN turns' : Ends(s) => ~Listed(s)'
<1>1. ASSUME StoreInv, [Next]_vars, NEW s \in DOMAIN turns \cap DOMAIN turns', Ends(s)
      PROVE  ~Listed(s)'
  <2>1. s \in Sid /\ turns[s].ended \in Nat
    BY <1>1 DEF StoreInv, TurnsOK, Turns
  <2>2. turns'[s] # turns[s]
    BY <1>1, <2>1
  <2>3. CASE \/ \E w \in Worker, st \in Statuses : WorkerReport(w, st)
             \/ \E h \in Host, tb \in SUBSET Sid : HostReport(h, tb)
    <3>1. PICK j \in Instance, status \in Statuses, tabs \in SUBSET Sid :
            Update(j, status, tabs)
      BY <2>3, ReportIsUpdate
    <3>2. s \in DOMAIN status
      BY <2>2, <3>1 DEF Update
    <3>3. s \notin revived'
      BY <1>1, <3>1, <3>2 DEF Update
    <3>4. Manual(s)'
      <4>1. removed' = Without(removed, {t \in DOMAIN status : ~Manual(t)})
        BY <3>1 DEF Update
      <4>2. s \in DOMAIN removed \ {t \in DOMAIN status : ~Manual(t)}
        BY <1>1 DEF Manual
      <4>3. s \in DOMAIN removed' /\ removed'[s] = removed[s]
        BY <4>1, <4>2, WithoutEntries
      <4>4. QED
        BY <1>1, <4>3 DEF Manual
    <3>5. QED
      BY <2>1, <3>3, <3>4, ListedRemovedNext
  <2>4. CASE Prune
    <3>1. PICK T : turns' = Without(turns, T)
      BY <2>4 DEF Prune
    <3>2. turns'[s] = turns[s]
      BY <3>1 DEF Without, Restrict
    <3>3. QED
      BY <2>2, <3>2
  <2>5. CASE \/ \E t \in Sid : MarkRemoved(t) \/ MarkResumed(t)
             \/ \E t \in Archivable : Archive(t)
             \/ \E p \in Instance : Start(p) \/ Die(p)
             \/ Tick \/ UNCHANGED vars
    BY <2>2, <2>5 DEF MarkRemoved, MarkResumed, Archive, Start, Die, Tick, store, vars
  <2>6. QED
    BY <1>1, <2>3, <2>4, <2>5 DEF Next
<1>2. StoreInv /\ [Next]_vars => [Hides]_vars
  BY <1>1
<1>3. QED
  BY <1>2, StoreInvariant, PTL DEF Spec, RemovalHidesAgain

\* The row of a session that one process reports speaks for it, once kept.
LEMMA OnlyRowSpeaks ==
  ASSUME StoreInv, NEW s, NEW i, Mentions(snapshots, s) \subseteq {i},
         BusyEntry(snapshots, i, s), Keep(i, s)
  PROVE  Listed(s)
<1>1. Kept(s) = {i}
  BY DEF Kept, BusyEntry
<1>2. snapshots[i].age \in Nat
  BY AgeType DEF BusyEntry, Mentions, StoreInv, SnapshotsOK, SnapshotOK
<1>3. i \in Best(s)
  BY <1>1, <1>2 DEF Best
<1>4. i \in ListedBy(s)
  BY <1>3 DEF ListedBy, BusyEntry
<1>5. QED
  BY <1>4 DEF Listed

\* A tab that was closed stays out of the list until it is opened or works.
THEOREM ClosedTabAlwaysHidden == Spec => ClosedTabStaysHidden
<1> DEFINE Shown(s, i) ==
             /\ ~Listed(s) /\ Listed(s)' /\ UNCHANGED <<removed, quiet>>
             /\ Mentions(snapshots, s) \cup Mentions(snapshots', s) \subseteq {i}
           Stays == \A s \in hosted \cap hosted', i \in Instance :
                      Shown(s, i) => \/ Hosting(s)' # {}
                                     \/ SnapshotStatus(snapshots', s) \in Busy
<1>1. ASSUME StoreInv, [Next]_vars, NEW s \in hosted \cap hosted', NEW i \in Instance,
             Shown(s, i), Hosting(s)' = {}
      PROVE  SnapshotStatus(snapshots', s) \in Busy
  <2>1. Mentions(snapshots, s) \cup Mentions(snapshots', s) \subseteq {i}
    BY <1>1
  <2>2. s \in Sid
    BY <1>1 DEF StoreInv, SetsOK
  <2>3. BusyEntry(snapshots', i, s) /\ Keep(i, s)'
    <3>1. PICK j : /\ j \in Mentions(snapshots', s) /\ Keep(j, s)'
                   /\ snapshots'[j].status[s] \in Busy \/ ~ClosedTab(s)'
      BY <1>1 DEF Listed, ListedBy, Best, Kept
    <3>2. ClosedTab(s)'
      BY <1>1 DEF ClosedTab
    <3>3. QED
      BY <2>1, <3>1, <3>2 DEF BusyEntry
  <2>4. CASE ~BusyEntry(snapshots, i, s)
    BY <1>1, <2>2, <2>3, <2>4, BusyEntryIsReported
  <2>5. CASE BusyEntry(snapshots, i, s)
    <3>1. ~Keep(i, s)
      BY <1>1, <2>1, <2>5, OnlyRowSpeaks
    <3>2. s \in revived' /\ s \notin revived
      BY <1>1, <2>3, <2>5, <3>1 DEF Keep, BusyEntry, Manual
    <3>3. QED
      BY <1>1, <2>2, <3>2, RevivalIsReported
  <2>6. QED
    BY <2>4, <2>5
<1>2. StoreInv /\ [Next]_vars => [Stays]_vars
  BY <1>1
<1>3. QED
  BY <1>2, StoreInvariant, PTL DEF Spec, ClosedTabStaysHidden

-------------------------------------------------------------------------------
(***************************************************************************)
(* The store implements the turn counter: its rows are counted, and a step *)
(* moves each counter as TurnCounter says.                                 *)
(***************************************************************************)

RowsCounted == \A i \in DOMAIN snapshots : DOMAIN snapshots[i].status \subseteq DOMAIN turns

CountInv == StoreInv /\ RowsCounted

\* One report of a counted session, and the first one of another.
LEMMA TurnsAfterMoves ==
  ASSUME NEW t \in Turns, NEW busy \in BOOLEAN
  PROVE  Counter!Moves(t, TurnsAfter(t, busy))
<1>1. t = [started |-> t.started, ended |-> t.ended, busy |-> t.busy]
      /\ t.started \in Nat /\ t.ended \in Nat /\ t.busy \in BOOLEAN
  BY DEF Turns
<1>2. CASE busy <=> t.busy
  <2>1. busy = t.busy
    BY <1>1, <1>2
  <2>2. TurnsAfter(t, busy) = [started |-> t.started, ended |-> t.ended, busy |-> t.busy]
    BY <2>1 DEF TurnsAfter
  <2>3. QED
    BY <1>1, <2>2 DEF Counter!Moves
<1>3. CASE busy /\ ~t.busy
  <2>1. busy = TRUE /\ t.busy = FALSE
    BY <1>1, <1>3
  <2>2. TurnsAfter(t, busy) = Counter!Count(t.started + 1, t.ended, TRUE)
    BY <2>1 DEF TurnsAfter, Counter!Count
  <2>3. QED
    BY <2>1, <2>2 DEF Counter!Moves, Counter!Begins
<1>4. CASE ~busy /\ t.busy
  <2>1. busy = FALSE /\ t.busy = TRUE
    BY <1>1, <1>4
  <2>2. TurnsAfter(t, busy) = Counter!Count(t.started, t.ended + 1, FALSE)
    BY <2>1 DEF TurnsAfter, Counter!Count
  <2>3. QED
    BY <2>2 DEF Counter!Moves, Counter!Ends
<1>5. QED
  BY <1>1, <1>2, <1>3, <1>4

LEMMA TurnsAfterAppears ==
  ASSUME NEW busy \in BOOLEAN
  PROVE  Counter!Appears(TurnsAfter(NoTurns, busy))
<1>1. CASE busy
  <2>1. busy = TRUE
    BY <1>1
  <2>2. TurnsAfter(NoTurns, busy) = Counter!Count(0 + 1, 0, TRUE)
    BY <2>1 DEF TurnsAfter, NoTurns, Counter!Count
  <2>3. QED
    BY <2>2 DEF Counter!Appears, Counter!NoTurn, Counter!Begins, Counter!Count
<1>2. CASE ~busy
  <2>1. busy = FALSE
    BY <1>2
  <2>2. TurnsAfter(NoTurns, busy) = Counter!Count(0, 0, FALSE)
    BY <2>1 DEF TurnsAfter, NoTurns, Counter!Count
  <2>3. QED
    BY <2>2 DEF Counter!Appears, Counter!NoTurn
<1>3. QED
  BY <1>1, <1>2

\* What a step must do to the counters.
Counted ==
  /\ \A s \in DOMAIN turns \cap DOMAIN turns' : Counter!Moves(turns[s], turns'[s])
  /\ \A s \in DOMAIN turns' \ DOMAIN turns : Counter!Appears(turns'[s])

LEMMA UpdateCounts ==
  ASSUME CountInv, NEW i \in Instance, NEW status \in Statuses, NEW tabs \in SUBSET Sid,
         Update(i, status, tabs)
  PROVE  RowsCounted' /\ Counted
<1> DEFINE new == [status |-> status, tabs |-> tabs, age |-> 0]
           reported == DOMAIN status
<1>1. turns' = [s \in DOMAIN turns \cup reported |->
                  IF s \in reported THEN TurnsAfter(TurnsOf(s), status[s] \in Busy)
                                    ELSE turns[s]]
      /\ snapshots' = Put(snapshots, i, new)
  BY DEF Update
<1>2. RowsCounted'
  <2>1. new.status = status
    OBVIOUS
  <2> HIDE DEF new
  <2>2. QED
    BY <1>1, <2>1 DEF CountInv, RowsCounted, Put
<1>3. ASSUME NEW s \in DOMAIN turns \cap DOMAIN turns'
      PROVE  Counter!Moves(turns[s], turns'[s])
  <2>1. turns[s] \in Turns /\ TurnsOf(s) = turns[s]
    BY DEF CountInv, StoreInv, TurnsOK, TurnsOf
  <2>2. CASE s \in reported
    <3> DEFINE busy == status[s] \in Busy
    <3>1. turns'[s] = TurnsAfter(turns[s], busy) /\ busy \in BOOLEAN
      BY <1>1, <2>1, <2>2
    <3> HIDE DEF busy
    <3>2. QED
      BY <2>1, <3>1, TurnsAfterMoves
  <2>3. CASE s \notin reported
    BY <1>1, <2>3 DEF Counter!Moves
  <2>4. QED
    BY <2>2, <2>3
<1>4. ASSUME NEW s \in DOMAIN turns' \ DOMAIN turns
      PROVE  Counter!Appears(turns'[s])
  <2> DEFINE busy == status[s] \in Busy
  <2>1. turns'[s] = TurnsAfter(NoTurns, busy) /\ busy \in BOOLEAN
    BY <1>1, <1>4 DEF TurnsOf
  <2> HIDE DEF busy
  <2>2. QED
    BY <2>1, TurnsAfterAppears
<1>5. QED
  BY <1>2, <1>3, <1>4 DEF Counted

\* Retention drops the counters of sessions no snapshot mentions, and no other.
LEMMA PruneCounts ==
  ASSUME CountInv, Prune
  PROVE  RowsCounted' /\ Counted
<1>1. PICK G, T : /\ snapshots' = Without(snapshots, G)
                  /\ turns' = Without(turns, T)
                  /\ T = Sid \ {s \in Sid : Mentions(snapshots', s) # {}}
  BY DEF Prune
<1>2. /\ DOMAIN turns' = DOMAIN turns \ T
      /\ \A s \in DOMAIN turns \ T : turns'[s] = turns[s]
      /\ DOMAIN snapshots' = DOMAIN snapshots \ G
      /\ \A i \in DOMAIN snapshots \ G : snapshots'[i] = snapshots[i]
  <2>1. turns' = Without(turns, T) /\ snapshots' = Without(snapshots, G)
    BY <1>1
  <2>2. /\ DOMAIN Without(turns, T) = DOMAIN turns \ T
        /\ \A s \in DOMAIN turns \ T : Without(turns, T)[s] = turns[s]
    BY WithoutEntries
  <2>3. /\ DOMAIN Without(snapshots, G) = DOMAIN snapshots \ G
        /\ \A i \in DOMAIN snapshots \ G : Without(snapshots, G)[i] = snapshots[i]
    BY WithoutEntries
  <2>4. QED
    BY <2>1, <2>2, <2>3
<1>3. RowsCounted'
  <2>1. SUFFICES ASSUME NEW i \in DOMAIN snapshots', NEW s \in DOMAIN snapshots'[i].status
                 PROVE  s \in DOMAIN turns'
    BY DEF RowsCounted
  <2>2. i \in DOMAIN snapshots /\ snapshots'[i] = snapshots[i]
    BY <1>2, <2>1
  <2>3. s \in DOMAIN turns
    BY <2>1, <2>2 DEF CountInv, RowsCounted
  <2>4. i \in Mentions(snapshots', s)
    BY <2>1 DEF Mentions
  <2>5. QED
    BY <1>1, <1>2, <2>3, <2>4
<1>4. Counted
  BY <1>2 DEF Counted, Counter!Moves
<1>5. QED
  BY <1>3, <1>4

\* The other steps leave the counters alone, and the rows their keys.
LEMMA OtherCounts ==
  ASSUME CountInv, UNCHANGED turns,
         snapshots' = snapshots \/ snapshots' = AgedRows(snapshots)
  PROVE  RowsCounted' /\ Counted
<1>1. RowsCounted'
  <2>1. CASE snapshots' = snapshots
    BY <2>1 DEF CountInv, RowsCounted
  <2>2. CASE snapshots' = AgedRows(snapshots)
    <3>1. /\ DOMAIN snapshots' = DOMAIN snapshots
          /\ \A i \in DOMAIN snapshots :
               snapshots'[i] = [snapshots[i] EXCEPT !.age = Older(@)]
      BY <2>2 DEF AgedRows
    <3>2. \A i \in DOMAIN snapshots : snapshots'[i].status = snapshots[i].status
      BY <3>1 DEF CountInv, StoreInv, SnapshotsOK, SnapshotOK
    <3>3. QED
      BY <3>1, <3>2 DEF CountInv, RowsCounted
  <2>3. QED
    BY <2>1, <2>2
<1>2. Counted
  BY DEF Counted, Counter!Moves
<1>3. QED
  BY <1>1, <1>2

LEMMA StepCounts == CountInv /\ [Next]_vars => RowsCounted' /\ Counted
<1> SUFFICES ASSUME CountInv, [Next]_vars PROVE RowsCounted' /\ Counted
  OBVIOUS
<1>1. CASE \/ \E w \in Worker, st \in Statuses : WorkerReport(w, st)
           \/ \E h \in Host, tb \in SUBSET Sid : HostReport(h, tb)
  BY <1>1, ReportIsUpdate, UpdateCounts
<1>2. CASE Prune
  BY <1>2, PruneCounts
<1>3. CASE \/ \E s \in Sid : MarkRemoved(s) \/ MarkResumed(s)
           \/ \E s \in Archivable : Archive(s)
           \/ \E i \in Instance : Start(i) \/ Die(i)
           \/ Tick
           \/ UNCHANGED vars
  <2>1. UNCHANGED turns /\ (snapshots' = snapshots \/ snapshots' = AgedRows(snapshots))
    BY <1>3 DEF MarkRemoved, MarkResumed, Archive, Start, Die, Tick, vars, store
  <2>2. QED
    BY <2>1, OtherCounts
<1>4. QED
  BY <1>1, <1>2, <1>3 DEF Next

LEMMA CountStepInv == CountInv /\ [Next]_vars => CountInv'
  BY StepCounts, StoreStepInv DEF CountInv

\* Reports of any number of processes, their deaths, staleness and retention
\* move the counters of plugin sessions as TurnCounter says, and leave every
\* session with a row its counters.
THEOREM StoreCountsTurns == Spec => CountsTurns
<1>1. Init => CountInv
  BY StoreInitInv DEF Init, CountInv, RowsCounted, EmptyMap
<1>2. Init => Counter!Init
  BY DEF Init, Counter!Init, Mentions, EmptyMap, Counter!EmptyMap
<1>3. CountInv /\ CountInv' /\ [Next]_vars => [Counter!Next]_(Counter!turnVars)
  <2>1. SUFFICES ASSUME CountInv, CountInv', [Next]_vars PROVE Counter!Next
    OBVIOUS
  <2>2. Counted
    BY <2>1, StepCounts
  <2>3. /\ {s \in Sid : Mentions(snapshots', s) # {}} \subseteq DOMAIN turns'
        /\ DOMAIN turns' \subseteq Sid
    BY <2>1 DEF CountInv, StoreInv, TurnsOK, RowsCounted, Mentions
  <2>4. QED
    BY <2>2, <2>3 DEF Counter!Next, Counted
<1>4. Spec => []CountInv
  BY <1>1, CountStepInv, PTL DEF Spec
<1>5. QED
  BY <1>2, <1>3, <1>4, PTL DEF Spec, CountsTurns, Counter!Spec

-------------------------------------------------------------------------------
(***************************************************************************)
(* The server and its file.                                                *)
(***************************************************************************)
Mark == [manual : BOOLEAN, age : Age]

\* The tables, in memory or in the file, table by table.
RowsOK(b)   == DOMAIN b \subseteq Instance /\ \A i \in DOMAIN b : SnapshotOK(i, b[i])
MarksOK(b)  == DOMAIN b \subseteq Sid /\ \A s \in DOMAIN b : b[s] \in Mark
CountOK(t)  == t \in Turns /\ t.started = t.ended + (IF t.busy THEN 1 ELSE 0)
CountsOK(b) == DOMAIN b \subseteq Sid /\ \A s \in DOMAIN b : CountOK(b[s])

TablesOK(m) == /\ RowsOK(m.snapshots) /\ MarksOK(m.removed)
               /\ m.hosted \subseteq Sid /\ CountsOK(m.turns)

\* Being functions is kept apart: disk.removed and disk.turns are maps.
Shape == /\ disk = [snapshots |-> disk.snapshots, removed |-> disk.removed,
                    hosted |-> disk.hosted, turns |-> disk.turns]
         /\ disk.removed = [s \in DOMAIN disk.removed |-> disk.removed[s]]
         /\ disk.turns = [s \in DOMAIN disk.turns |-> disk.turns[s]]

\* The rows a transaction writes are in memory, and stay there until it commits.
JobOK(job) ==
  /\ job \in Jobs
  /\ job.whole \/ /\ job.table # "hosted"
                  /\ job.rows \subseteq DOMAIN Memory[job.table]

JobsOK == \A n \in 1 .. Len(writing) : JobOK(writing[n])

ControlOK == /\ phase \in Phase
             /\ writing \in Seq(Jobs)
             /\ writing # <<>> => phase \in {"starting", "up"}
             /\ JobsOK

HistoryOK == /\ promised \subseteq Sid /\ lagging \in BOOLEAN
             /\ DOMAIN seen \subseteq Sid
             /\ seen \in [DOMAIN seen -> [ended : Nat, hidden : BOOLEAN]]

ServerInv == StoreInv /\ TablesOK(disk) /\ Shape /\ ControlOK /\ HistoryOK /\ PromisesKept

-------------------------------------------------------------------------------
(***************************************************************************)
(* Tables.                                                                 *)
(***************************************************************************)

LEMMA MemoryTables == StoreInv => TablesOK(Memory)
<1> SUFFICES ASSUME StoreInv PROVE TablesOK(Memory)
  OBVIOUS
<1>1. RowsOK(snapshots)
  BY DEF StoreInv, SnapshotsOK, RowsOK
<1>2. MarksOK(removed)
  BY DEF StoreInv, RemovedOK, MarksOK, Mark
<1>3. CountsOK(turns) /\ hosted \subseteq Sid
  BY DEF StoreInv, TurnsOK, TurnsArePaired, SetsOK, CountsOK, CountOK
<1>4. QED
  BY <1>1, <1>2, <1>3 DEF TablesOK, Memory

LEMMA MemoryTablesNext == StoreInv' => TablesOK(Memory')
<1> SUFFICES ASSUME StoreInv' PROVE TablesOK(Memory')
  OBVIOUS
<1>1. RowsOK(snapshots')
  BY DEF StoreInv, SnapshotsOK, RowsOK
<1>2. MarksOK(removed')
  BY DEF StoreInv, RemovedOK, MarksOK, Mark
<1>3. CountsOK(turns') /\ hosted' \subseteq Sid
  BY DEF StoreInv, TurnsOK, TurnsArePaired, SetsOK, CountsOK, CountOK
<1>4. QED
  BY <1>1, <1>2, <1>3 DEF TablesOK, Memory

\* A server that loads good tables has a good store.
LEMMA LoadInv ==
  ASSUME StoreInv, TablesOK(disk), Shape, Load
  PROVE  StoreInv'
<1>1. /\ snapshots' = disk.snapshots /\ removed' = disk.removed
      /\ hosted' = disk.hosted /\ turns' = disk.turns
      /\ UNCHANGED <<alive, quiet>> /\ revived' \subseteq DOMAIN disk.removed
  BY DEF Load
<1>2. SnapshotsOK'
  BY <1>1 DEF TablesOK, RowsOK, SnapshotsOK
<1>3. RemovedOK'
  BY <1>1 DEF TablesOK, MarksOK, Mark, Shape, RemovedOK
<1>4. TurnsOK' /\ TurnsArePaired'
  BY <1>1 DEF TablesOK, CountsOK, CountOK, Shape, TurnsOK, TurnsArePaired
<1>5. SetsOK'
  BY <1>1 DEF StoreInv, SetsOK, TablesOK, MarksOK
<1>6. QED
  BY <1>2, <1>3, <1>4, <1>5 DEF StoreInv

\* A server that is gone has no store.
LEMMA CrashInv ==
  ASSUME StoreInv, Crash
  PROVE  StoreInv'
<1>1. /\ snapshots' = EmptyMap /\ removed' = EmptyMap /\ turns' = EmptyMap
      /\ revived' = {} /\ hosted' = {} /\ UNCHANGED <<alive, quiet>>
  BY DEF Crash
<1>2. QED
  BY <1>1 DEF EmptyMap, StoreInv, SnapshotsOK, RemovedOK, TurnsOK, SetsOK, TurnsArePaired

\* Every other step is one of the store, or leaves it alone.
LEMMA StoreStep ==
  ASSUME ServerNext, ~Load, ~Crash
  PROVE  [Next]_vars
<1>1. CASE \E w \in Worker, status \in Statuses : ServeWorker(w, status)
  BY <1>1 DEF ServeWorker, Next
<1>2. CASE \E h \in Host, tabs \in SUBSET Sid : ServeHost(h, tabs)
  BY <1>2 DEF ServeHost, Next
<1>3. CASE \E s \in Sid : ServeRemove(s) \/ ServeResume(s)
  BY <1>3 DEF ServeRemove, ServeResume, Next
<1>4. CASE Beat \/ Restore \/ Clock
  BY <1>4 DEF Beat, Restore, Clock, Next
<1>5. CASE Commit \/ Fail
  BY <1>5 DEF Commit, Fail
<1>6. CASE \E s \in Sid, manual \in BOOLEAN : OfflineMark(s, manual)
  BY <1>6 DEF OfflineMark
<1>7. CASE (\E i \in Instance : Process(i)) \/ (\E s \in Archivable : ArchiveFile(s))
  BY <1>7 DEF Process, ArchiveFile, Next
<1>8. QED
  BY <1>1, <1>2, <1>3, <1>4, <1>5, <1>6, <1>7 DEF ServerNext

LEMMA StoreInvNext ==
  ASSUME ServerInv, [ServerNext]_serverVars
  PROVE  StoreInv'
<1>1. CASE Load
  BY <1>1, LoadInv DEF ServerInv
<1>2. CASE Crash
  BY <1>2, CrashInv DEF ServerInv
<1>3. CASE ServerNext /\ ~Load /\ ~Crash
  BY <1>3, StoreStep, StoreStepInv DEF ServerInv
<1>4. CASE UNCHANGED serverVars
  BY <1>4, StoreStepInv DEF ServerInv, serverVars
<1>5. QED
  BY <1>1, <1>2, <1>3, <1>4

-------------------------------------------------------------------------------
(***************************************************************************)
(* The mutex: the transactions to come are well formed, and the rows they  *)
(* will write are in memory.                                               *)
(***************************************************************************)

LEMMA TableNames == DOMAIN NoTables = {"snapshots", "removed", "hosted", "turns"}
  BY DEF NoTables

\* Committing or dropping transactions leaves good ones.
LEMMA TailOK ==
  ASSUME ControlOK, writing # <<>>
  PROVE  /\ JobOK(Head(writing))
         /\ Tail(writing) \in Seq(Jobs)
         /\ \A n \in 1 .. Len(Tail(writing)) : JobOK(Tail(writing)[n])
<1>1. writing \in Seq(Jobs) /\ Len(writing) >= 1
  BY DEF ControlOK
<1>2. Head(writing) = writing[1]
  BY <1>1
<1>3. /\ Tail(writing) \in Seq(Jobs) /\ Len(Tail(writing)) = Len(writing) - 1
      /\ \A n \in 1 .. Len(Tail(writing)) :
           n + 1 \in 1 .. Len(writing) /\ Tail(writing)[n] = writing[n + 1]
  BY <1>1
<1>4. QED
  BY <1>1, <1>2, <1>3 DEF ControlOK, JobsOK

\* persist_all writes whole tables.
LEMMA SyncOK ==
  /\ SyncJobs \in Seq(Jobs)
  /\ \A n \in 1 .. Len(SyncJobs) : SyncJobs[n] \in Jobs /\ SyncJobs[n].whole
<1>1. \A t \in DOMAIN NoTables : Whole(t) \in Jobs /\ Whole(t).whole
  BY DEF Whole, Jobs
<1>2. QED
  BY <1>1, TableNames DEF SyncJobs

\* A report writes rows that are in memory.
LEMMA ReportJobsOK ==
  ASSUME NEW i \in Instance, NEW some \in BOOLEAN, NEW counted \in SUBSET Sid
  PROVE  /\ ReportJobs(i, some, counted) \in Seq(Jobs)
         /\ \A n \in 1 .. Len(ReportJobs(i, some, counted)) :
              ReportJobs(i, some, counted)[n] \in
                {Rows("snapshots", {i}), Whole("hosted"), Rows("turns", counted)}
<1> DEFINE r == Rows("snapshots", {i})
           h == Whole("hosted")
           c == Rows("turns", counted)
<1>1. r \in Jobs /\ h \in Jobs /\ c \in Jobs
  BY TableNames DEF Rows, Whole, Jobs
<1>2. ReportJobs(i, some, counted) = IF some THEN <<r, h, c>> ELSE <<r, c>>
  BY DEF ReportJobs
<1> HIDE DEF r, h, c
<1>3. CASE some
  BY <1>1, <1>2, <1>3 DEF r, h, c
<1>4. CASE ~some
  BY <1>1, <1>2, <1>4 DEF r, h, c
<1>5. QED
  BY <1>3, <1>4

\* Good transactions stay good while their rows stay in memory.
LEMMA JobsStay ==
  ASSUME ControlOK, UNCHANGED writing,
         DOMAIN snapshots' = DOMAIN snapshots, DOMAIN removed' = DOMAIN removed,
         DOMAIN turns' = DOMAIN turns
  PROVE  JobsOK'
<1>1. \A job \in Jobs : JobOK(job) => JobOK(job)'
  BY TableNames DEF JobOK, Jobs, Memory
<1>2. \A n \in 1 .. Len(writing) : JobOK(writing[n]) /\ writing[n] \in Jobs
  BY DEF ControlOK, JobsOK
<1>3. QED
  BY <1>1, <1>2 DEF JobsOK

\* A report's transactions, once it changed the store.
LEMMA ServedOK ==
  ASSUME StoreInv', NEW i \in DOMAIN snapshots', Unlocked, Served(i)
  PROVE  ControlOK'
<1>1. PICK some \in BOOLEAN : writing' = ReportJobs(i, some, DOMAIN turns')
  BY DEF Served, Hold
<1>2. i \in Instance /\ DOMAIN turns' \subseteq Sid
  BY DEF StoreInv, SnapshotsOK, TurnsOK
<1>3. /\ writing' \in Seq(Jobs)
      /\ \A n \in 1 .. Len(writing') :
           writing'[n] \in {Rows("snapshots", {i}), Whole("hosted"), Rows("turns", DOMAIN turns')}
  BY <1>1, <1>2, ReportJobsOK
<1>4. /\ JobOK(Rows("snapshots", {i}))' /\ JobOK(Whole("hosted"))'
      /\ JobOK(Rows("turns", DOMAIN turns))'
  BY <1>2, TableNames DEF JobOK, Jobs, Rows, Whole, Memory
<1>5. JobsOK'
  BY <1>3, <1>4 DEF JobsOK
<1>6. phase' = "up"
  BY DEF Served, Unlocked
<1>7. QED
  BY <1>3, <1>5, <1>6 DEF ControlOK, Phase

\* A removal's or a resume's.
LEMMA MarkedOK ==
  ASSUME NEW s \in Sid, s \in DOMAIN removed', Unlocked, Marked(s)
  PROVE  ControlOK'
<1> DEFINE r == Rows("removed", {s})
<1>1. writing' = <<r>> /\ phase' = "up"
  BY DEF Marked, Hold, Unlocked
<1>2. JobOK(r)' /\ r \in Jobs
  BY TableNames DEF JobOK, Jobs, Rows, Memory
<1> HIDE DEF r
<1>3. QED
  BY <1>1, <1>2 DEF ControlOK, JobsOK, Phase

\* Nothing left to write.
LEMMA NothingOK ==
  ASSUME writing' = <<>>, phase' \in Phase
  PROVE  ControlOK'
  BY DEF ControlOK, JobsOK

\* All of memory to write.
LEMMA SyncJobsOK ==
  ASSUME writing' = SyncJobs, phase' \in {"starting", "up"}
  PROVE  ControlOK'
  BY SyncOK DEF ControlOK, JobsOK, JobOK, Phase

LEMMA ControlNext ==
  ASSUME ServerInv, StoreInv', [ServerNext]_serverVars
  PROVE  ControlOK'
<1>0. ControlOK
  BY DEF ServerInv
<1>1. ASSUME NEW w \in Worker, NEW status \in Statuses, ServeWorker(w, status)
      PROVE  ControlOK'
  <2>1. Unlocked /\ Served(w) /\ w \in DOMAIN snapshots'
    BY <1>1 DEF ServeWorker, WorkerReport, Update, Put
  <2>2. QED
    BY <2>1, ServedOK
<1>2. ASSUME NEW h \in Host, NEW tabs \in SUBSET Sid, ServeHost(h, tabs)
      PROVE  ControlOK'
  <2>1. Unlocked /\ Served(h) /\ h \in DOMAIN snapshots'
    BY <1>2 DEF ServeHost, HostReport, Update, Put
  <2>2. QED
    BY <2>1, ServedOK
<1>3. ASSUME NEW s \in Sid, ServeRemove(s) \/ ServeResume(s)
      PROVE  ControlOK'
  <2>1. Unlocked /\ Marked(s) /\ s \in DOMAIN removed'
    BY <1>3 DEF ServeRemove, ServeResume, MarkRemoved, MarkResumed, Put
  <2>2. QED
    BY <2>1, MarkedOK
<1>4. CASE Beat
  <2>1. phase' = "up" /\ (writing' = <<>> \/ writing' = SyncJobs)
    BY <1>4 DEF Beat, Hold, Unlocked
  <2>2. QED
    BY <2>1, NothingOK, SyncJobsOK DEF Phase
<1>5. CASE Commit
  <2>1. writing # <<>> /\ writing' = Tail(writing) /\ UNCHANGED vars
    BY <1>5 DEF Commit
  <2>2. JobsOK' /\ writing' \in Seq(Jobs)
    BY <1>0, <2>1, TailOK DEF JobsOK, JobOK, Memory, vars, store
  <2>3. phase \in {"starting", "up"} /\ phase' \in {phase, "up"}
    BY <1>0, <1>5 DEF ControlOK, Commit
  <2>4. QED
    BY <2>2, <2>3 DEF ControlOK, Phase
<1>6. CASE Fail \/ Crash
  BY <1>6, NothingOK DEF Fail, Crash, Hold, Phase
<1>7. CASE Load \/ (\E s \in Sid, manual \in BOOLEAN : OfflineMark(s, manual))
  <2>1. UNCHANGED writing /\ phase = "down" /\ phase' \in Phase
    BY <1>7 DEF Load, OfflineMark, Phase
  <2>2. writing' = <<>>
    BY <1>0, <2>1 DEF ControlOK
  <2>3. QED
    BY <2>1, <2>2, NothingOK
<1>8. CASE Restore
  BY <1>8, SyncJobsOK DEF Restore
<1>9. CASE Clock \/ (\E i \in Instance : Process(i)) \/ (\E s \in Archivable : ArchiveFile(s))
           \/ UNCHANGED serverVars
  <2>1. /\ UNCHANGED <<writing, phase>>
        /\ DOMAIN snapshots' = DOMAIN snapshots /\ DOMAIN removed' = DOMAIN removed
        /\ DOMAIN turns' = DOMAIN turns
    BY <1>9 DEF Clock, Tick, AgedRows, AgedMarks, Process, Start, Die, ArchiveFile, Archive,
                store, vars, running, serverVars
  <2>2. QED
    BY <1>0, <2>1, JobsStay DEF ControlOK
<1>10. QED
  BY <1>1, <1>2, <1>3, <1>4, <1>5, <1>6, <1>7, <1>8, <1>9 DEF ServerNext

-------------------------------------------------------------------------------
(***************************************************************************)
(* The file.                                                               *)
(***************************************************************************)

\* What a good transaction writes is a good table.
LEMMA WrittenOK ==
  ASSUME ServerInv, NEW job, JobOK(job)
  PROVE  LET w == Written(job)
         IN  /\ job.table = "snapshots" => RowsOK(w)
             /\ job.table = "removed" => MarksOK(w) /\ w = [s \in DOMAIN w |-> w[s]]
             /\ job.table = "hosted" => w \subseteq Sid
             /\ job.table = "turns" => CountsOK(w) /\ w = [s \in DOMAIN w |-> w[s]]
<1> DEFINE w == Written(job)
           m == Memory[job.table]
           d == disk[job.table]
<1>1. TablesOK(Memory) /\ TablesOK(disk)
  BY MemoryTables DEF ServerInv
<1>2. /\ Memory.snapshots = snapshots /\ Memory.removed = removed
      /\ Memory.hosted = hosted /\ Memory.turns = turns
  BY DEF Memory
<1>3. /\ removed = [s \in DOMAIN removed |-> removed[s]]
      /\ turns = [s \in DOMAIN turns |-> turns[s]]
  BY DEF ServerInv, StoreInv, RemovedOK, TurnsOK
<1>4. CASE job.whole
  <2>1. w = m
    BY <1>4 DEF Written
  <2>2. QED
    BY <1>1, <1>2, <1>3, <2>1 DEF TablesOK
<1>5. CASE ~job.whole
  <2>1. w = [k \in DOMAIN d \cup job.rows |-> IF k \in job.rows THEN m[k] ELSE d[k]]
    BY <1>5 DEF Written
  <2>2. job.rows \subseteq DOMAIN m /\ job.table # "hosted"
    BY <1>5 DEF JobOK
  <2>3. /\ DOMAIN w \subseteq DOMAIN d \cup DOMAIN m
        /\ \A k \in DOMAIN w :
             \/ k \in DOMAIN m /\ w[k] = m[k]
             \/ k \in DOMAIN d /\ w[k] = d[k]
        /\ w = [k \in DOMAIN w |-> w[k]]
    BY <2>1, <2>2
  <2> HIDE DEF w, m, d
  <2>4. CASE job.table = "snapshots"
    <3>1. RowsOK(m) /\ RowsOK(d)
      BY <1>1, <2>4 DEF TablesOK, m, d
    <3>2. RowsOK(w)
      BY <2>3, <3>1 DEF RowsOK
    <3>3. QED
      BY <2>4, <3>2 DEF w
  <2>5. CASE job.table = "removed"
    <3>1. MarksOK(m) /\ MarksOK(d)
      BY <1>1, <2>5 DEF TablesOK, m, d
    <3>2. MarksOK(w)
      BY <2>3, <3>1 DEF MarksOK
    <3>3. QED
      BY <2>3, <2>5, <3>2 DEF w
  <2>6. CASE job.table = "turns"
    <3>1. CountsOK(m) /\ CountsOK(d)
      BY <1>1, <2>6 DEF TablesOK, m, d
    <3>2. CountsOK(w)
      BY <2>3, <3>1 DEF CountsOK
    <3>3. QED
      BY <2>3, <2>6, <3>2 DEF w
  <2>7. QED
    BY <2>2, <2>4, <2>5, <2>6
<1>6. QED
  BY <1>4, <1>5

LEMMA CommitDisk ==
  ASSUME ServerInv, Commit
  PROVE  TablesOK(disk)' /\ Shape'
<1> DEFINE job == Head(writing)
           w   == Written(job)
<1>1. JobOK(job) /\ job.table \in {"snapshots", "removed", "hosted", "turns"}
  BY TailOK, TableNames DEF ServerInv, Commit, JobOK, Jobs
<1>2. disk' = [disk EXCEPT ![job.table] = w]
  BY DEF Commit
<1>3. /\ job.table = "snapshots" => RowsOK(w)
      /\ job.table = "removed" => MarksOK(w) /\ w = [s \in DOMAIN w |-> w[s]]
      /\ job.table = "hosted" => w \subseteq Sid
      /\ job.table = "turns" => CountsOK(w) /\ w = [s \in DOMAIN w |-> w[s]]
  BY <1>1, WrittenOK
<1>4. TablesOK(disk) /\ Shape
  BY DEF ServerInv
<1> HIDE DEF w, job
<1>5. CASE job.table = "snapshots"
  <2>1. disk' = [snapshots |-> w, removed |-> disk.removed,
                 hosted |-> disk.hosted, turns |-> disk.turns]
    BY <1>2, <1>4, <1>5 DEF Shape
  <2>2. QED
    BY <1>3, <1>4, <1>5, <2>1 DEF TablesOK, Shape
<1>6. CASE job.table = "removed"
  <2>1. disk' = [snapshots |-> disk.snapshots, removed |-> w,
                 hosted |-> disk.hosted, turns |-> disk.turns]
    BY <1>2, <1>4, <1>6 DEF Shape
  <2>2. QED
    BY <1>3, <1>4, <1>6, <2>1 DEF TablesOK, Shape
<1>7. CASE job.table = "hosted"
  <2>1. disk' = [snapshots |-> disk.snapshots, removed |-> disk.removed,
                 hosted |-> w, turns |-> disk.turns]
    BY <1>2, <1>4, <1>7 DEF Shape
  <2>2. QED
    BY <1>3, <1>4, <1>7, <2>1 DEF TablesOK, Shape
<1>8. CASE job.table = "turns"
  <2>1. disk' = [snapshots |-> disk.snapshots, removed |-> disk.removed,
                 hosted |-> disk.hosted, turns |-> w]
    BY <1>2, <1>4, <1>8 DEF Shape
  <2>2. QED
    BY <1>3, <1>4, <1>8, <2>1 DEF TablesOK, Shape
<1>9. QED
  BY <1>1, <1>5, <1>6, <1>7, <1>8

\* `rm` and `resume` without a server.
LEMMA OfflineDisk ==
  ASSUME ServerInv, NEW s \in Sid, NEW manual \in BOOLEAN, OfflineMark(s, manual)
  PROVE  TablesOK(disk)' /\ Shape'
<1> DEFINE w == Put(disk.removed, s, [manual |-> manual, age |-> 0])
<1>1. disk' = [snapshots |-> disk.snapshots, removed |-> w,
               hosted |-> disk.hosted, turns |-> disk.turns]
  BY DEF OfflineMark, ServerInv, Shape
<1>2. MarksOK(w) /\ w = [t \in DOMAIN w |-> w[t]]
  BY AgeType DEF ServerInv, TablesOK, MarksOK, Mark, Put
<1> HIDE DEF w
<1>3. QED
  BY <1>1, <1>2 DEF ServerInv, TablesOK, Shape

\* Time in the file.
LEMMA ClockDisk ==
  ASSUME ServerInv, Clock
  PROVE  TablesOK(disk)' /\ Shape'
<1> DEFINE b == AgedRows(disk.snapshots)
           r == AgedMarks(disk.removed)
<1>1. disk' = [snapshots |-> b, removed |-> r, hosted |-> disk.hosted, turns |-> disk.turns]
  <2>1. disk' = [disk EXCEPT !.snapshots = b, !.removed = r]
    BY DEF Clock
  <2> HIDE DEF b, r
  <2>2. QED
    BY <2>1 DEF ServerInv, Shape
<1>2. RowsOK(b)
  <2>1. ASSUME NEW i \in DOMAIN disk.snapshots
        PROVE  SnapshotOK(i, [disk.snapshots[i] EXCEPT !.age = Older(@)])
    BY AgeType DEF ServerInv, TablesOK, RowsOK, SnapshotOK
  <2>2. QED
    BY <2>1 DEF ServerInv, TablesOK, RowsOK, AgedRows
<1>3. MarksOK(r) /\ r = [s \in DOMAIN r |-> r[s]]
  <2>1. ASSUME NEW s \in DOMAIN disk.removed
        PROVE  [disk.removed[s] EXCEPT !.age = IF disk.removed[s].manual THEN Older(@) ELSE @]
                 \in Mark
    BY AgeType DEF ServerInv, TablesOK, MarksOK, Mark
  <2>2. QED
    BY <2>1 DEF ServerInv, TablesOK, MarksOK, AgedMarks
<1> HIDE DEF b, r
<1>4. QED
  BY <1>1, <1>2, <1>3 DEF ServerInv, TablesOK, Shape

LEMMA DiskNext ==
  ASSUME ServerInv, [ServerNext]_serverVars
  PROVE  TablesOK(disk)' /\ Shape'
<1>1. CASE Commit
  BY <1>1, CommitDisk
<1>2. CASE \E s \in Sid, manual \in BOOLEAN : OfflineMark(s, manual)
  BY <1>2, OfflineDisk
<1>3. CASE Clock
  BY <1>3, ClockDisk
<1>4. CASE UNCHANGED disk
  BY <1>4 DEF ServerInv, Shape
<1>5. QED
  BY <1>1, <1>2, <1>3, <1>4
     DEF ServerNext, ServeWorker, ServeHost, Served, ServeRemove, ServeResume, Marked, Beat,
         Fail, Crash, Load, Restore, Process, ArchiveFile, serverVars, running

-------------------------------------------------------------------------------
(***************************************************************************)
(* What users and clients were told.                                       *)
(***************************************************************************)

\* Clients read numbers.
LEMMA ReadType ==
  ASSUME NEW m, TablesOK(m)
  PROVE  /\ DOMAIN Read(m) \subseteq Sid
         /\ Read(m) \in [DOMAIN Read(m) -> [ended : Nat, hidden : BOOLEAN]]
<1> DEFINE rows == {t \in Sid : Mentions(m.snapshots, t) # {}}
           ended(s) == IF s \in DOMAIN m.turns THEN m.turns[s].ended ELSE 0
           hidden(s) == s \in DOMAIN m.removed /\ ~m.removed[s].manual
<1>1. Read(m) = [s \in rows |-> [ended |-> ended(s), hidden |-> hidden(s)]]
  BY DEF Read
<1>2. \A s \in rows : ended(s) \in Nat
  BY DEF TablesOK, CountsOK, CountOK, Turns
<1>3. \A s \in rows : hidden(s) \in BOOLEAN
  BY Zenon
<1> HIDE DEF ended, hidden
<1>4. QED
  BY <1>1, <1>2, <1>3

LEMMA HistoryNext ==
  ASSUME ServerInv, StoreInv', TablesOK(disk)', [ServerNext]_serverVars
  PROVE  HistoryOK'
<1> USE DEF ServerInv
<1>1. TablesOK(Memory) /\ TablesOK(disk) /\ TablesOK(Memory')
  BY MemoryTables, MemoryTablesNext
<1>2. seen' \in {seen, Read(Memory), Read(Memory'), Read(disk), Read(disk')}
  BY DEF ServerNext, ServeWorker, ServeHost, Served, ServeRemove, ServeResume, Marked, Hold,
         Beat, Commit, Fail, Crash, Load, Restore, OfflineMark, Clock, Process, ArchiveFile,
         history, serverVars
<1>3. /\ DOMAIN seen' \subseteq Sid
      /\ seen' \in [DOMAIN seen' -> [ended : Nat, hidden : BOOLEAN]]
  BY <1>1, <1>2, ReadType DEF HistoryOK
<1>4. promised' \subseteq Sid
  BY DEF HistoryOK, ServerNext, ServeWorker, ServeHost, Served, ServeRemove, ServeResume, Marked,
         Beat, Commit, Fail, Crash, Load, Restore, OfflineMark, Clock, Process, ArchiveFile,
         history, serverVars, Manual, StoreInv, RemovedOK
<1>5. lagging' \in BOOLEAN
  BY DEF HistoryOK, ServerNext, ServeWorker, ServeHost, Served, ServeRemove, ServeResume, Marked,
         Beat, Commit, Fail, Crash, Load, Restore, OfflineMark, Clock, Process, ArchiveFile,
         history, serverVars
<1>6. QED
  BY <1>3, <1>4, <1>5 DEF HistoryOK

\* A report, a beat and time leave the user's removals alone, or say which ones
\* the retention ends.
LEMMA ManualStays ==
  ASSUME StoreInv, NEW s \in Sid, Manual(s), s \in DOMAIN removed',
         \/ \E w \in Worker, st \in Statuses : WorkerReport(w, st)
         \/ \E h \in Host, tb \in SUBSET Sid : HostReport(h, tb)
         \/ Prune
         \/ Tick
  PROVE  Manual(s)'
<1>1. CASE Tick
  <2>1. removed[s] \in [manual : BOOLEAN, age : Age] /\ s \in DOMAIN removed
    BY DEF StoreInv, RemovedOK, Manual
  <2>2. removed'[s] = [removed[s] EXCEPT !.age = IF removed[s].manual THEN Older(@) ELSE @]
    BY <1>1, <2>1 DEF Tick, AgedMarks
  <2>3. QED
    BY <2>1, <2>2 DEF Manual
<1>2. CASE ~Tick
  <2>1. PICK S : removed' = Without(removed, S)
    BY <1>2 DEF WorkerReport, HostReport, Update, Prune
  <2>2. /\ DOMAIN removed' = DOMAIN removed \ S
        /\ \A t \in DOMAIN removed \ S : removed'[t] = removed[t]
    BY <2>1, WithoutEntries
  <2>3. QED
    BY <2>2 DEF Manual
<1>3. QED
  BY <1>1, <1>2

\* A report drops no user removal.
LEMMA ReportKeepsManual ==
  ASSUME NEW s, Manual(s),
         \/ \E w \in Worker, st \in Statuses : WorkerReport(w, st)
         \/ \E h \in Host, tb \in SUBSET Sid : HostReport(h, tb)
  PROVE  s \in DOMAIN removed'
<1>1. PICK status : removed' = Without(removed, {t \in DOMAIN status : ~Manual(t)})
  BY DEF WorkerReport, HostReport, Update
<1>2. DOMAIN removed' = DOMAIN removed \ {t \in DOMAIN status : ~Manual(t)}
  BY <1>1, WithoutEntries
<1>3. QED
  BY <1>2 DEF Manual

\* The file has the mark of session s.
OnDisk(s) == s \in DOMAIN disk.removed /\ disk.removed[s].manual

\* The transactions of a removal, and of a beat, write what memory knows.
LEMMA CommitPromises ==
  ASSUME ServerInv, Commit
  PROVE  PromisesKept'
<1> DEFINE job == Head(writing)
           d   == disk.removed
<1>1. /\ job.table \in DOMAIN NoTables /\ UNCHANGED vars
      /\ disk' = [disk EXCEPT ![job.table] = Written(job)]
  BY TailOK DEF ServerInv, Commit, JobOK, Jobs
<1>2. phase # "down"
  BY DEF ServerInv, ControlOK, Commit
<1>3. \A s \in promised' : Manual(s)
  BY <1>2 DEF Commit, ServerInv, PromisesKept
<1>4. CASE job.table # "removed"
  <2>1. disk'.removed = d
    BY <1>1, <1>4, TableNames DEF ServerInv, Shape
  <2>2. promised' = promised
    BY <1>4 DEF Commit
  <2>3. QED
    BY <1>1, <1>3, <2>1, <2>2 DEF ServerInv, PromisesKept, Manual, vars, store
<1>5. CASE job.table = "removed" /\ job.whole
  <2>1. disk'.removed = removed
    BY <1>1, <1>5, TableNames DEF ServerInv, Shape, Written, Memory
  <2>2. QED
    BY <1>1, <1>3, <2>1 DEF PromisesKept, Manual, vars, store
<1>6. CASE job.table = "removed" /\ ~job.whole
  <2>1. disk'.removed = [s \in DOMAIN d \cup job.rows |->
                           IF s \in job.rows THEN removed[s] ELSE d[s]]
    BY <1>1, <1>6, TableNames DEF ServerInv, Shape, Written, Memory
  <2>2. promised' = promised \cup {s \in job.rows : Manual(s)}
    BY <1>6 DEF Commit
  <2>3. \A s \in promised : OnDisk(s)
    BY DEF ServerInv, PromisesKept, OnDisk
  <2> HIDE DEF job
  <2>4. \A s \in promised' : OnDisk(s)'
    BY <1>3, <2>1, <2>2, <2>3 DEF Manual, OnDisk
  <2>5. QED
    BY <1>1, <1>3, <2>4 DEF PromisesKept, OnDisk, Manual, vars, store
<1>7. QED
  BY <1>4, <1>5, <1>6

LEMMA PromisesNext ==
  ASSUME ServerInv, [ServerNext]_serverVars
  PROVE  PromisesKept'
<1>0. /\ StoreInv /\ Shape /\ TablesOK(disk) /\ promised \subseteq Sid
      /\ \A s \in promised : OnDisk(s) /\ (phase # "down" => Manual(s))
  BY DEF ServerInv, PromisesKept, OnDisk, HistoryOK
<1>1. CASE \/ \E w \in Worker, status \in Statuses : ServeWorker(w, status)
           \/ \E h \in Host, tabs \in SUBSET Sid : ServeHost(h, tabs)
  <2>1. /\ UNCHANGED <<disk, promised>> /\ phase = "up"
        /\ \/ \E w \in Worker, st \in Statuses : WorkerReport(w, st)
           \/ \E h \in Host, tb \in SUBSET Sid : HostReport(h, tb)
    BY <1>1 DEF ServeWorker, ServeHost, Served, Unlocked
  <2>2. \A s \in promised : Manual(s)'
    BY <1>0, <2>1, ReportKeepsManual, ManualStays
  <2>3. QED
    BY <1>0, <2>1, <2>2 DEF PromisesKept, OnDisk
<1>2. ASSUME NEW s \in Sid, ServeRemove(s) \/ ServeResume(s)
      PROVE  PromisesKept'
  <2>1. /\ UNCHANGED disk /\ phase = "up"
        /\ \/ /\ removed' = Put(removed, s, [manual |-> TRUE, age |-> 0])
              /\ UNCHANGED promised
           \/ /\ removed' = Put(removed, s, [manual |-> FALSE, age |-> 0])
              /\ promised' = promised \ {s}
    BY <1>2 DEF ServeRemove, ServeResume, MarkRemoved, MarkResumed, Marked, Unlocked
  <2>2. \A t \in promised' : Manual(t)'
    BY <1>0, <2>1 DEF Manual, Put
  <2>3. QED
    BY <1>0, <2>1, <2>2 DEF PromisesKept, OnDisk
<1>3. CASE Beat \/ Restore
  <2>1. /\ Prune /\ UNCHANGED disk /\ phase # "down"
        /\ promised' = promised \ (DOMAIN removed \ DOMAIN removed')
    BY <1>3 DEF Beat, Restore, Unlocked
  <2>2. \A s \in promised' : Manual(s)'
    BY <1>0, <2>1, ManualStays DEF Manual
  <2>3. QED
    BY <1>0, <2>1, <2>2 DEF PromisesKept, OnDisk
<1>4. CASE Commit
  BY <1>4, CommitPromises
<1>5. CASE Fail \/ UNCHANGED serverVars
  <2>1. UNCHANGED <<disk, promised, phase, removed>>
    BY <1>5 DEF Fail, serverVars, running, history, vars, store
  <2>2. QED
    BY <1>0, <2>1 DEF PromisesKept, OnDisk, Manual
<1>6. CASE Crash
  BY <1>0, <1>6 DEF Crash, PromisesKept, OnDisk
<1>7. CASE Load
  BY <1>0, <1>7 DEF Load, history, PromisesKept, OnDisk, Manual
<1>8. ASSUME NEW s \in Sid, NEW manual \in BOOLEAN, OfflineMark(s, manual)
      PROVE  PromisesKept'
  <2>1. /\ disk'.removed = Put(disk.removed, s, [manual |-> manual, age |-> 0])
        /\ phase' = "down"
        /\ promised' = IF manual THEN promised \cup {s} ELSE promised \ {s}
    BY <1>0, <1>8 DEF OfflineMark, Shape
  <2>2. QED
    BY <1>0, <2>1 DEF PromisesKept, OnDisk, Put
<1>9. CASE Clock
  <2>1. /\ Tick /\ UNCHANGED <<phase, promised>>
        /\ disk'.removed = AgedMarks(disk.removed)
    BY <1>0, <1>9 DEF Clock, history, Shape
  <2>2. \A s \in promised : phase # "down" => Manual(s)'
    <3>1. DOMAIN removed' = DOMAIN removed
      BY <2>1 DEF Tick, AgedMarks
    <3>2. QED
      BY <1>0, <2>1, <3>1, ManualStays DEF Manual
  <2>3. \A s \in promised : OnDisk(s)'
    <3>1. TAKE s \in promised
    <3>2. disk.removed[s] \in Mark /\ OnDisk(s)
      BY <1>0 DEF TablesOK, MarksOK, OnDisk
    <3>3. /\ s \in DOMAIN disk'.removed
          /\ disk'.removed[s] = [disk.removed[s] EXCEPT
                                   !.age = IF disk.removed[s].manual THEN Older(@) ELSE @]
      BY <2>1, <3>2 DEF AgedMarks, OnDisk
    <3>4. QED
      BY <3>2, <3>3 DEF OnDisk, Mark
  <2>4. QED
    BY <2>1, <2>2, <2>3 DEF PromisesKept, OnDisk
<1>10. CASE (\E i \in Instance : Process(i)) \/ (\E s \in Archivable : ArchiveFile(s))
  <2>1. UNCHANGED <<disk, promised, phase, removed>>
    BY <1>10 DEF Process, Start, Die, ArchiveFile, Archive, running, history, store
  <2>2. QED
    BY <1>0, <2>1 DEF PromisesKept, OnDisk, Manual
<1>11. QED
  BY <1>1, <1>2, <1>3, <1>4, <1>5, <1>6, <1>7, <1>8, <1>9, <1>10 DEF ServerNext

-------------------------------------------------------------------------------
(***************************************************************************)
(* The theorems.                                                           *)
(***************************************************************************)

LEMMA ServerInitInv == ServerInit => ServerInv
<1> SUFFICES ASSUME ServerInit PROVE ServerInv
  OBVIOUS
<1>1. StoreInv
  BY StoreInitInv DEF ServerInit
<1>2. TablesOK(disk) /\ Shape
  BY DEF ServerInit, NoTables, EmptyMap, TablesOK, RowsOK, MarksOK, CountsOK, Shape
<1>3. ControlOK
  BY DEF ServerInit, ControlOK, JobsOK, Phase
<1>4. HistoryOK /\ PromisesKept
  BY DEF ServerInit, EmptyMap, HistoryOK, PromisesKept
<1>5. QED
  BY <1>1, <1>2, <1>3, <1>4 DEF ServerInv

\* Types, well-formed transactions and kept promises in every reachable state.
THEOREM ServerInvariant == ServerSpec => []ServerInv
<1>1. ServerInv /\ [ServerNext]_serverVars => ServerInv'
  BY StoreInvNext, DiskNext, ControlNext, HistoryNext, PromisesNext DEF ServerInv
<1>2. QED
  BY <1>1, ServerInitInv, PTL DEF ServerSpec

\* Memory, the file and the transactions between them are well typed.
THEOREM ServerTypeCorrect == ServerSpec => []ServerTypeOK
<1>1. ASSUME ServerInv PROVE ServerTypeOK
  <2>1. TypeOK
    BY <1>1, TypeParts DEF ServerInv, StoreInv
  <2>2. DOMAIN disk = DOMAIN NoTables
    BY <1>1, TableNames DEF ServerInv, Shape
  <2>3. /\ DOMAIN disk.snapshots \subseteq Instance
        /\ DOMAIN disk.removed \subseteq Sid
        /\ disk.removed \in [DOMAIN disk.removed -> [manual : BOOLEAN, age : Age]]
        /\ disk.hosted \subseteq Sid
        /\ DOMAIN disk.turns \subseteq Sid /\ disk.turns \in [DOMAIN disk.turns -> Turns]
    BY <1>1 DEF ServerInv, TablesOK, RowsOK, MarksOK, Mark, CountsOK, CountOK, Shape
  <2>4. QED
    BY <1>1, <2>1, <2>2, <2>3 DEF ServerInv, ControlOK, HistoryOK, ServerTypeOK
<1>2. QED
  BY <1>1, ServerInvariant, PTL

\* README.md:413-417: no crash, failed write or restart loses a removal the
\* user was told of.
THEOREM PromisesAlwaysKept == ServerSpec => []PromisesKept
<1>1. ServerInv => PromisesKept
  BY DEF ServerInv
<1>2. QED
  BY <1>1, ServerInvariant, PTL

\* The store of a server that was killed and started again pairs its counters,
\* whatever was left half written.
THEOREM RestartedTurnsPaired == ServerSpec => []TurnsArePaired
<1>1. ServerInv => TurnsArePaired
  BY DEF ServerInv, StoreInv
<1>2. QED
  BY <1>1, ServerInvariant, PTL

-------------------------------------------------------------------------------
(***************************************************************************)
(* Where the holder of the mutex is: `writing` is what is left of one of   *)
(* three lists, all of memory, a report or a mark.                         *)
(***************************************************************************)

IsSync(w) == \/ w = <<Whole("snapshots"), Whole("removed"), Whole("hosted"), Whole("turns")>>
             \/ w = <<Whole("removed"), Whole("hosted"), Whole("turns")>>
             \/ w = <<Whole("hosted"), Whole("turns")>>
             \/ w = <<Whole("turns")>>
IsReport(w, counted) ==
  \/ \E i \in Instance :
       \/ w = <<Rows("snapshots", {i}), Whole("hosted"), Rows("turns", counted)>>
       \/ w = <<Rows("snapshots", {i}), Rows("turns", counted)>>
  \/ w = <<Whole("hosted"), Rows("turns", counted)>>
  \/ w = <<Rows("turns", counted)>>
IsMark(w) == \E s \in Sid : w = <<Rows("removed", {s})>>

Syncing   == IsSync(writing)
Reporting == IsReport(writing, DOMAIN turns)

PendingOK == /\ writing = <<>> \/ IsMark(writing) \/ Syncing \/ Reporting
             /\ phase = "starting" => Syncing

\* What a list begins and ends with, and what is left of it.
LEMMA Lists ==
  ASSUME NEW a, NEW b, NEW c, NEW d
  PROVE  /\ /\ Head(<<a, b, c, d>>) = a /\ Tail(<<a, b, c, d>>) = <<b, c, d>>
            /\ <<a, b, c, d>>[Len(<<a, b, c, d>>)] = d /\ <<a, b, c, d>> # <<>>
         /\ /\ Head(<<a, b, c>>) = a /\ Tail(<<a, b, c>>) = <<b, c>>
            /\ <<a, b, c>>[Len(<<a, b, c>>)] = c /\ <<a, b, c>> # <<>>
         /\ /\ Head(<<a, b>>) = a /\ Tail(<<a, b>>) = <<b>>
            /\ <<a, b>>[Len(<<a, b>>)] = b /\ <<a, b>> # <<>>
         /\ /\ Head(<<a>>) = a /\ Tail(<<a>>) = <<>>
            /\ <<a>>[Len(<<a>>)] = a /\ <<a>> # <<>>
  OBVIOUS

LEMMA SyncList ==
  ASSUME NEW w, IsSync(w)
  PROVE  /\ w # <<>> /\ w[Len(w)] = Whole("turns")
         /\ \/ /\ IsSync(Tail(w))
               /\ Head(w) \in {Whole("snapshots"), Whole("removed"), Whole("hosted")}
            \/ w = <<Whole("turns")>> /\ Tail(w) = <<>>
<1> DEFINE a == Whole("snapshots")  b == Whole("removed")  c == Whole("hosted")  d == Whole("turns")
<1>1. w \in {<<a, b, c, d>>, <<b, c, d>>, <<c, d>>, <<d>>}
  BY DEF IsSync
<1>2. \A u : u \in {<<b, c, d>>, <<c, d>>, <<d>>} => IsSync(u)
  BY DEF IsSync
<1> HIDE DEF a, b, c, d
<1>3. CASE w = <<a, b, c, d>>
  BY <1>2, <1>3, Lists DEF a, b, c, d
<1>4. CASE w = <<b, c, d>>
  BY <1>2, <1>4, Lists DEF a, b, c, d
<1>5. CASE w = <<c, d>>
  BY <1>2, <1>5, Lists DEF a, b, c, d
<1>6. CASE w = <<d>>
  BY <1>6, Lists DEF d
<1>7. QED
  BY <1>1, <1>3, <1>4, <1>5, <1>6

LEMMA ReportList ==
  ASSUME NEW w, NEW counted, IsReport(w, counted)
  PROVE  /\ w # <<>> /\ w[Len(w)] = Rows("turns", counted)
         /\ \/ /\ IsReport(Tail(w), counted)
               /\ \/ Head(w) = Whole("hosted")
                  \/ \E i \in Instance : Head(w) = Rows("snapshots", {i})
            \/ w = <<Rows("turns", counted)>> /\ Tail(w) = <<>>
<1> DEFINE c == Whole("hosted")  d == Rows("turns", counted)
           A == {Rows("snapshots", {i}) : i \in Instance}
<1>1. w \in {<<c, d>>, <<d>>} \/ \E a \in A : w \in {<<a, c, d>>, <<a, d>>}
  BY DEF IsReport
<1>2. \A u : u \in {<<c, d>>, <<d>>} => IsReport(u, counted)
  BY DEF IsReport
<1>3. \A a \in A : \E i \in Instance : a = Rows("snapshots", {i})
  OBVIOUS
<1> HIDE DEF A, c, d
<1>4. ASSUME NEW a \in A, w = <<a, c, d>>
      PROVE  w # <<>> /\ w[Len(w)] = d /\ IsReport(Tail(w), counted) /\ Head(w) = a
  BY <1>2, <1>4, Lists
<1>5. ASSUME NEW a \in A, w = <<a, d>>
      PROVE  w # <<>> /\ w[Len(w)] = d /\ IsReport(Tail(w), counted) /\ Head(w) = a
  BY <1>2, <1>5, Lists
<1>6. CASE w = <<c, d>>
  BY <1>2, <1>6, Lists DEF c, d
<1>7. CASE w = <<d>>
  BY <1>7, Lists DEF d
<1>8. QED
  BY <1>1, <1>3, <1>4, <1>5, <1>6, <1>7 DEF c, d

LEMMA MarkList ==
  ASSUME NEW w, IsMark(w)
  PROVE  \E s \in Sid : /\ w # <<>> /\ w[Len(w)] = Rows("removed", {s})
                        /\ Head(w) = Rows("removed", {s}) /\ Tail(w) = <<>>
<1>1. PICK s \in Sid : w = <<Rows("removed", {s})>>
  BY DEF IsMark
<1> DEFINE a == Rows("removed", {s})
<1> HIDE DEF a
<1>2. w # <<>> /\ w[Len(w)] = a /\ Head(w) = a /\ Tail(w) = <<>>
  BY <1>1, Lists DEF a
<1>3. QED
  BY <1>2 DEF a

\* No list is of two kinds.
LEMMA KindsDiffer ==
  ASSUME NEW w, NEW counted
  PROVE  /\ ~(IsSync(w) /\ IsReport(w, counted))
         /\ w = <<>> \/ IsMark(w) => ~IsSync(w) /\ ~IsReport(w, counted)
<1>1. /\ Whole("turns") # Rows("turns", counted)
      /\ \A s \in Sid : Rows("removed", {s}) \notin {Whole("turns"), Rows("turns", counted)}
  BY DEF Whole, Rows
<1>2. IsSync(w) => w # <<>> /\ w[Len(w)] = Whole("turns")
  BY SyncList
<1>3. IsReport(w, counted) => w # <<>> /\ w[Len(w)] = Rows("turns", counted)
  BY ReportList
<1>4. IsMark(w) => \E s \in Sid : w[Len(w)] = Rows("removed", {s})
  BY MarkList
<1>5. QED
  BY <1>1, <1>2, <1>3, <1>4

\* A commit takes the first transaction off, and keeps the kind until nothing
\* is left.
LEMMA CommitKinds ==
  ASSUME PendingOK, Commit
  PROVE  /\ writing' = Tail(writing) /\ writing # <<>> /\ UNCHANGED vars
         /\ \/ /\ Syncing /\ Syncing' /\ UNCHANGED phase
               /\ Head(writing) \in {Whole("snapshots"), Whole("removed"), Whole("hosted")}
            \/ /\ Syncing /\ writing = <<Whole("turns")>>
               /\ writing' = <<>> /\ phase' = "up"
            \/ /\ IsMark(writing) /\ writing' = <<>> /\ phase' = "up"
               /\ \E s \in Sid : Head(writing) = Rows("removed", {s})
            \/ /\ Reporting /\ Reporting' /\ UNCHANGED phase
               /\ \/ Head(writing) = Whole("hosted")
                  \/ \E i \in Instance : Head(writing) = Rows("snapshots", {i})
            \/ /\ Reporting /\ writing = <<Rows("turns", DOMAIN turns)>>
               /\ writing' = <<>> /\ phase' = "up"
<1>1. /\ writing # <<>> /\ writing' = Tail(writing) /\ UNCHANGED <<vars, turns>>
      /\ phase' = IF writing' = <<>> THEN "up" ELSE phase
  BY DEF Commit, vars, store
<1>2. CASE Syncing
  BY <1>1, <1>2, SyncList DEF Syncing
<1>3. CASE Reporting
  BY <1>1, <1>3, ReportList DEF Reporting
<1>4. CASE IsMark(writing)
  BY <1>1, <1>4, MarkList
<1>5. QED
  BY <1>1, <1>2, <1>3, <1>4 DEF PendingOK

LEMMA ReportLists ==
  ASSUME NEW i \in Instance, NEW some \in BOOLEAN, NEW counted
  PROVE  IsReport(ReportJobs(i, some, counted), counted)
  BY DEF ReportJobs, IsReport

LEMMA PendingNext ==
  ASSUME ServerInv, PendingOK, [ServerNext]_serverVars
  PROVE  PendingOK'
<1>1. ASSUME NEW i \in Instance, Unlocked, Served(i)
      PROVE  PendingOK'
  BY <1>1, ReportLists DEF Served, Hold, Unlocked, PendingOK, Reporting
<1>2. ASSUME NEW s \in Sid, Unlocked, Marked(s)
      PROVE  PendingOK'
  BY <1>2 DEF Marked, Hold, Unlocked, PendingOK, IsMark
<1>3. CASE Beat
  BY <1>3 DEF Beat, Hold, Unlocked, PendingOK, Syncing, IsSync, SyncJobs
<1>4. CASE Commit
  BY <1>4, CommitKinds, KindsDiffer DEF PendingOK, Syncing, Reporting
<1>5. CASE Fail \/ Crash
  BY <1>5 DEF Fail, Crash, Hold, PendingOK
<1>6. CASE Load \/ (\E s \in Sid, manual \in BOOLEAN : OfflineMark(s, manual))
  <2>1. writing = <<>> /\ UNCHANGED writing /\ phase' # "starting"
    BY <1>6 DEF Load, OfflineMark, ServerInv, ControlOK
  <2>2. QED
    BY <2>1 DEF PendingOK
<1>7. CASE Restore
  BY <1>7 DEF Restore, PendingOK, Syncing, IsSync, SyncJobs
<1>8. CASE Clock \/ (\E i \in Instance : Process(i)) \/ (\E s \in Archivable : ArchiveFile(s))
           \/ UNCHANGED serverVars
  <2>1. UNCHANGED <<phase, writing, turns>>
    BY <1>8 DEF Clock, Tick, Process, Start, Die, ArchiveFile, Archive,
                store, vars, running, serverVars
  <2>2. QED
    BY <2>1 DEF PendingOK, Syncing, Reporting
<1>9. QED
  BY <1>1, <1>2, <1>3, <1>4, <1>5, <1>6, <1>7, <1>8
     DEF ServerNext, ServeWorker, ServeHost, ServeRemove, ServeResume, Instance

\* A commit makes one table of the file what its transaction writes.
LEMMA CommitWrites ==
  ASSUME ServerInv, Commit
  PROVE  LET job == Head(writing)
         IN  /\ JobOK(job) /\ UNCHANGED vars
             /\ disk'.snapshots = IF job.table = "snapshots" THEN Written(job) ELSE disk.snapshots
             /\ disk'.removed = IF job.table = "removed" THEN Written(job) ELSE disk.removed
             /\ disk'.hosted = IF job.table = "hosted" THEN Written(job) ELSE disk.hosted
             /\ disk'.turns = IF job.table = "turns" THEN Written(job) ELSE disk.turns
<1> DEFINE job == Head(writing)
           w   == Written(job)
<1>1. JobOK(job) /\ job.table \in DOMAIN NoTables
  BY TailOK DEF ServerInv, Commit, JobOK, Jobs
<1>2. disk' = [disk EXCEPT ![job.table] = w] /\ UNCHANGED vars
  BY DEF Commit
<1>3. DOMAIN disk = {"snapshots", "removed", "hosted", "turns"}
  BY DEF ServerInv, Shape
<1> HIDE DEF w, job
<1>4. QED
  BY <1>1, <1>2, <1>3, TableNames DEF w, job

\* A report that is not written lags.
LEMMA FailLags ==
  ASSUME ServerInv, Fail
  PROVE  /\ UNCHANGED <<vars, snapshots, turns, hosted, phase, disk>>
         /\ phase = "up" /\ writing' = <<>> /\ seen' = Read(Memory)
         /\ (lagging => lagging') /\ (Reporting => lagging')
<1>1. /\ UNCHANGED <<vars, snapshots, turns, hosted, phase, disk>>
      /\ phase = "up" /\ writing' = <<>> /\ seen' = Read(Memory)
  BY DEF Fail, Hold, vars, store, Memory
<1>2. lagging' = (lagging \/ \E n \in DOMAIN writing :
                                writing[n].table = "turns" /\ ~writing[n].whole)
  BY DEF Fail
<1>3. Reporting => writing # <<>> /\ writing[Len(writing)] = Rows("turns", DOMAIN turns)
  BY ReportList DEF Reporting
<1>4. writing # <<>> => Len(writing) \in DOMAIN writing
  BY DEF ServerInv, ControlOK
<1>5. \A c : Rows("turns", c).table = "turns" /\ ~Rows("turns", c).whole
  BY DEF Rows
<1>6. Reporting => \E n \in DOMAIN writing : writing[n].table = "turns" /\ ~writing[n].whole
  BY <1>3, <1>4, <1>5, Zenon
<1>7. (lagging => lagging') /\ (Reporting => lagging')
  BY <1>2, <1>6, Zenon
<1>8. QED
  BY <1>1, <1>7

\* Time passes in every table alike.
LEMMA ClockTables ==
  ASSUME ServerInv, Clock
  PROVE  /\ disk'.snapshots = AgedRows(disk.snapshots) /\ disk'.removed = AgedMarks(disk.removed)
         /\ disk'.hosted = disk.hosted /\ disk'.turns = disk.turns
         /\ snapshots' = AgedRows(snapshots) /\ removed' = AgedMarks(removed)
         /\ UNCHANGED <<alive, revived, quiet, hosted, turns, phase, writing, history>>
<1> DEFINE b == AgedRows(disk.snapshots)
           r == AgedMarks(disk.removed)
<1>1. disk' = [disk EXCEPT !.snapshots = b, !.removed = r]
  BY DEF Clock
<1>2. disk = [snapshots |-> disk.snapshots, removed |-> disk.removed,
              hosted |-> disk.hosted, turns |-> disk.turns]
  BY DEF ServerInv, Shape
<1> HIDE DEF b, r
<1>3. disk' = [snapshots |-> b, removed |-> r, hosted |-> disk.hosted, turns |-> disk.turns]
  BY <1>1, <1>2
<1>4. QED
  BY <1>3 DEF b, r, Clock, Tick

-------------------------------------------------------------------------------
(***************************************************************************)
(* The tabs: what is hosted in memory is in the file, but for a report     *)
(* that is being written or was lost.                                      *)
(***************************************************************************)

TabsWritten == \A n \in 1 .. Len(writing) : writing[n].table # "hosted"

TabsOK == /\ phase \in {"loaded", "starting"} => hosted \subseteq disk.hosted
          /\ phase = "up" /\ ~lagging /\ ~Reporting => hosted \subseteq disk.hosted
          /\ TabsWritten /\ (Syncing \/ Reporting) => hosted \subseteq disk.hosted

\* A report with tabs writes the tabs.
LEMMA TabsServed ==
  ASSUME NEW i \in Instance, Unlocked, Served(i)
  PROVE  Reporting' /\ (TabsWritten' => hosted' = {})
<1>1. PICK some \in BOOLEAN : /\ writing' = ReportJobs(i, some, DOMAIN turns')
                              /\ hosted' # {} => some
  BY DEF Served, Hold
<1>2. Reporting'
  BY <1>1, ReportLists DEF Reporting
<1>3. ASSUME some PROVE ~TabsWritten'
  <2> DEFINE r == Rows("snapshots", {i})
             h == Whole("hosted")
             c == Rows("turns", DOMAIN turns')
  <2>1. writing' = <<r, h, c>> /\ h.table = "hosted"
    BY <1>1, <1>3 DEF ReportJobs, Whole
  <2> HIDE DEF r, h, c
  <2>2. 2 \in 1 .. Len(writing') /\ writing'[2] = h
    BY <2>1
  <2>3. QED
    BY <2>1, <2>2 DEF TabsWritten
<1>4. QED
  BY <1>1, <1>2, <1>3

\* So does all of memory.
LEMMA TabsSynced ==
  ASSUME writing' = SyncJobs
  PROVE  ~TabsWritten'
<1> DEFINE a == Whole("snapshots")
           b == Whole("removed")
           c == Whole("hosted")
           d == Whole("turns")
<1>1. writing' = <<a, b, c, d>> /\ c.table = "hosted"
  BY DEF SyncJobs, Whole
<1> HIDE DEF a, b, c, d
<1>2. 3 \in 1 .. Len(writing') /\ writing'[3] = c
  BY <1>1
<1>3. QED
  BY <1>1, <1>2 DEF TabsWritten

LEMMA TabsCommit ==
  ASSUME ServerInv, PendingOK, TabsOK, Commit
  PROVE  TabsOK'
<1> DEFINE job == Head(writing)
<1>1. /\ JobOK(job) /\ UNCHANGED <<vars, hosted, turns>>
      /\ disk'.hosted = IF job.table = "hosted" THEN Written(job) ELSE disk.hosted
  BY CommitWrites DEF vars, store
<1>2. CASE job.table = "hosted"
  <2>1. Written(job) = hosted
    BY <1>1, <1>2 DEF JobOK, Written, Memory
  <2>2. QED
    BY <1>1, <1>2, <2>1 DEF TabsOK
<1>3. CASE job.table # "hosted"
  <2>1. TabsWritten' => TabsWritten
    <3>1. writing \in Seq(Jobs) /\ writing # <<>> /\ writing' = Tail(writing)
      BY CommitKinds DEF ServerInv, ControlOK
    <3>2. \A n \in 1 .. Len(writing) :
            n = 1 \/ (n - 1 \in 1 .. Len(writing') /\ writing'[n - 1] = writing[n])
      BY <3>1
    <3>3. writing[1] = job
      BY <3>1
    <3>4. QED
      BY <1>3, <3>2, <3>3 DEF TabsWritten
  <2>2. /\ lagging' = (lagging /\ job.table # "turns")
        /\ disk'.hosted = disk.hosted /\ phase' \in {"up", phase}
    BY <1>1, <1>3 DEF Commit
  <2>3. CASE Syncing /\ Syncing' /\ UNCHANGED phase /\ job.table # "turns"
    BY <1>1, <2>1, <2>2, <2>3, KindsDiffer DEF TabsOK, Syncing, Reporting
  <2>4. CASE Reporting /\ Reporting' /\ UNCHANGED phase
    BY <1>1, <2>1, <2>2, <2>4 DEF TabsOK
  <2>5. CASE writing' = <<>> /\ phase' = "up" /\ (Syncing \/ Reporting)
    <3>1. TabsWritten'
      BY <2>5 DEF TabsWritten
    <3>2. QED
      BY <1>1, <2>1, <2>2, <2>5, <3>1 DEF TabsOK
  <2>6. CASE IsMark(writing) /\ writing' = <<>> /\ phase' = "up" /\ job.table # "turns"
    <3>1. ~Syncing /\ ~Reporting /\ ~Syncing' /\ ~Reporting' /\ phase # "starting"
      BY <2>6, KindsDiffer DEF Syncing, Reporting, PendingOK
    <3>2. phase = "up"
      BY <3>1 DEF ServerInv, ControlOK, Commit
    <3>3. QED
      BY <1>1, <2>2, <2>6, <3>1, <3>2 DEF TabsOK
  <2>7. /\ \A t \in DOMAIN NoTables : Whole(t).table = t
        /\ \A s : Rows("removed", {s}).table = "removed"
    BY DEF Whole, Rows
  <2>8. QED
    BY <2>3, <2>4, <2>5, <2>6, <2>7, CommitKinds, TableNames
<1>4. QED
  BY <1>2, <1>3

LEMMA TabsNextOK ==
  ASSUME ServerInv, PendingOK, TabsOK, [ServerNext]_serverVars
  PROVE  TabsOK'
<1>1. ASSUME NEW i \in Instance, Unlocked, Served(i)
      PROVE  TabsOK'
  <2>1. phase' = "up"
    BY <1>1 DEF Served, Unlocked
  <2>2. QED
    BY <1>1, <2>1, TabsServed DEF TabsOK
<1>2. ASSUME NEW s \in Sid, ServeRemove(s) \/ ServeResume(s)
      PROVE  TabsOK'
  <2>1. /\ UNCHANGED <<hosted, turns, phase, disk, lagging>> /\ phase = "up" /\ writing = <<>>
        /\ IsMark(writing')
    BY <1>2 DEF ServeRemove, ServeResume, MarkRemoved, MarkResumed, Marked, Hold, Unlocked, IsMark
  <2>2. ~Syncing /\ ~Reporting /\ ~Syncing' /\ ~Reporting'
    BY <2>1, KindsDiffer DEF Syncing, Reporting
  <2>3. QED
    BY <2>1, <2>2 DEF TabsOK
<1>3. CASE Beat
  <2>1. /\ UNCHANGED <<phase, disk, lagging>> /\ phase = "up" /\ writing = <<>>
        /\ hosted' \subseteq hosted
        /\ writing' = <<>> \/ writing' = SyncJobs
    BY <1>3 DEF Beat, Hold, Unlocked, Prune
  <2>2. ~Reporting /\ (writing' = <<>> => ~Syncing' /\ ~Reporting')
    BY <2>1, KindsDiffer DEF Syncing, Reporting
  <2>3. QED
    BY <2>1, <2>2, TabsSynced DEF TabsOK
<1>4. CASE Commit
  BY <1>4, TabsCommit
<1>5. CASE Fail
  <2>1. ~Syncing' /\ ~Reporting'
    BY <1>5, FailLags, KindsDiffer DEF Syncing, Reporting
  <2>2. QED
    BY <1>5, <2>1, FailLags DEF TabsOK
<1>6. CASE Crash \/ Load \/ (\E s \in Sid, manual \in BOOLEAN : OfflineMark(s, manual))
  <2>1. writing' = <<>>
    BY <1>6 DEF Crash, Load, OfflineMark, ServerInv, ControlOK
  <2>2. ~Syncing' /\ ~Reporting' /\ phase' \notin {"starting", "up"}
    BY <1>6, <2>1, KindsDiffer DEF Syncing, Reporting, Crash, Load, OfflineMark
  <2>3. phase' = "loaded" => hosted' = disk'.hosted
    BY <1>6 DEF Crash, Load, OfflineMark
  <2>4. QED
    BY <2>2, <2>3 DEF TabsOK
<1>7. CASE Restore
  <2>1. /\ UNCHANGED disk /\ phase = "loaded" /\ phase' = "starting" /\ writing' = SyncJobs
        /\ hosted' \subseteq hosted
    BY <1>7 DEF Restore, Prune
  <2>2. QED
    BY <2>1, TabsSynced DEF TabsOK
<1>8. CASE Clock \/ (\E i \in Instance : Process(i)) \/ (\E s \in Archivable : ArchiveFile(s))
           \/ UNCHANGED serverVars
  <2>1. UNCHANGED <<phase, writing, turns, lagging, hosted>> /\ disk'.hosted = disk.hosted
    BY <1>8, ClockTables DEF Clock, Tick, Process, Start, Die, ArchiveFile, Archive,
                store, vars, running, history, serverVars
  <2>2. QED
    BY <2>1 DEF TabsOK, TabsWritten, Syncing, Reporting
<1>9. QED
  BY <1>1, <1>2, <1>3, <1>4, <1>5, <1>6, <1>7, <1>8
     DEF ServerNext, ServeWorker, ServeHost, Instance

\* db.rs:275-277: what a client reads of the tabs survives a crash.
THEOREM TabsAlwaysDurable == ServerSpec => []TabsAreDurable
<1>1. ServerInit => PendingOK /\ TabsOK
  <2>1. SUFFICES ASSUME ServerInit PROVE PendingOK /\ TabsOK
    OBVIOUS
  <2>2. writing = <<>> /\ phase = "down"
    BY <2>1 DEF ServerInit
  <2>3. ~Syncing /\ ~Reporting
    BY <2>2, KindsDiffer DEF Syncing, Reporting
  <2>4. QED
    BY <2>2, <2>3 DEF PendingOK, TabsOK
<1>2. ServerInv /\ PendingOK /\ TabsOK /\ [ServerNext]_serverVars => PendingOK' /\ TabsOK'
  BY PendingNext, TabsNextOK
<1>3. PendingOK /\ TabsOK => TabsAreDurable
  BY KindsDiffer DEF TabsOK, TabsAreDurable, Unlocked, Reporting
<1>4. QED
  BY <1>1, <1>2, <1>3, ServerInvariant, PTL DEF ServerSpec

-------------------------------------------------------------------------------
(***************************************************************************)
(* The counters clients read: those of a server that is up are in memory,  *)
(* and in the file unless a report was lost, so they survive it.           *)
(***************************************************************************)

\* The sessions that some snapshots mention, and what some counters say of one.
Met(b)        == {s \in Sid : Mentions(b, s) # {}}
EndedIn(t, s) == IF s \in DOMAIN t THEN t[s].ended ELSE 0

\* A server that has loaded the file has it in memory.
LoadedOK == phase = "loaded" => /\ snapshots = disk.snapshots /\ removed = disk.removed
                                /\ hosted = disk.hosted /\ turns = disk.turns

SeenIs(b, t) == /\ DOMAIN seen = Met(b)
                /\ \A s \in DOMAIN seen : seen[s].ended = EndedIn(t, s)

SeenFile == phase \in {"down", "loaded"} => SeenIs(disk.snapshots, disk.turns)
SeenRows == Unlocked => DOMAIN seen \subseteq Met(snapshots)
SeenNow  == phase = "up" /\ ~Reporting =>
              \A s \in Met(snapshots) :
                s \in DOMAIN seen /\ seen[s].ended = EndedIn(turns, s)
SeenBelow == phase \in {"starting", "up"} =>
               \A s \in DOMAIN seen \cap (Met(snapshots) \cup DOMAIN turns) :
                 seen[s].ended <= EndedIn(turns, s)
SeenStored == phase \in {"starting", "up"} /\ ~lagging =>
                \A s \in DOMAIN seen \cap (Met(snapshots) \cup Met(disk.snapshots)) :
                  seen[s].ended <= EndedIn(disk.turns, s)

SeenOK == SeenFile /\ SeenRows /\ SeenNow /\ SeenBelow /\ SeenStored

LEMMA LoadedNext ==
  ASSUME ServerInv, LoadedOK, [ServerNext]_serverVars
  PROVE  LoadedOK'
<1>1. CASE Load
  BY <1>1 DEF Load, LoadedOK
<1>2. CASE Clock
  BY <1>2, ClockTables DEF LoadedOK
<1>3. CASE Commit
  BY <1>3 DEF Commit, LoadedOK, ServerInv, ControlOK
<1>4. CASE \/ \E i \in Instance : Process(i)
           \/ \E s \in Archivable : ArchiveFile(s)
           \/ UNCHANGED serverVars
  BY <1>4 DEF Process, Start, Die, ArchiveFile, Archive, LoadedOK, store, vars, running, serverVars
<1>5. CASE phase' # "loaded"
  BY <1>5 DEF LoadedOK
<1>6. QED
  BY <1>1, <1>2, <1>3, <1>4, <1>5
     DEF ServerNext, ServeWorker, ServeHost, Served, ServeRemove, ServeResume, Marked, Unlocked,
         Beat, Fail, Crash, Restore, OfflineMark

-------------------------------------------------------------------------------
\* What a client reads of some tables.
LEMMA ReadSays ==
  ASSUME NEW m
  PROVE  /\ DOMAIN Read(m) = Met(m.snapshots)
         /\ \A s \in DOMAIN Read(m) : Read(m)[s].ended = EndedIn(m.turns, s)
  BY DEF Read, Met, EndedIn

LEMMA MemorySays ==
  /\ DOMAIN Read(Memory) = Met(snapshots)
  /\ \A s \in Met(snapshots) : Read(Memory)[s].ended = EndedIn(turns, s)
  BY ReadSays DEF Memory

\* Counters are numbers.
LEMMA EndedType ==
  ASSUME ServerInv
  PROVE  /\ \A s : EndedIn(turns, s) \in Nat /\ EndedIn(disk.turns, s) \in Nat
         /\ \A s \in DOMAIN seen : s \in Sid /\ seen[s].ended \in Nat
<1>1. TablesOK(Memory) /\ TablesOK(disk) /\ HistoryOK
  BY MemoryTables DEF ServerInv
<1>2. CountsOK(turns) /\ CountsOK(disk.turns)
  BY <1>1 DEF TablesOK, Memory
<1>3. QED
  BY <1>1, <1>2 DEF CountsOK, CountOK, Turns, EndedIn, HistoryOK

\* The passing of time mentions nobody else.
LEMMA MetAged ==
  ASSUME NEW b, RowsOK(b)
  PROVE  Met(AgedRows(b)) = Met(b)
<1>1. \A i \in DOMAIN b : [b[i] EXCEPT !.age = Older(@)].status = b[i].status
  BY DEF RowsOK, SnapshotOK
<1>2. \A s : Mentions(AgedRows(b), s) = Mentions(b, s)
  BY <1>1 DEF Mentions, AgedRows
<1>3. QED
  BY <1>2 DEF Met

\* A report mentions what it reports, and no counter falls.
LEMMA UpdateEnds ==
  ASSUME StoreInv, NEW i, NEW status \in Statuses, NEW tabs, Update(i, status, tabs)
  PROVE  /\ Met(snapshots') \cup DOMAIN turns' \subseteq Sid
         /\ \A s : EndedIn(turns, s) <= EndedIn(turns', s)
<1>1. DOMAIN status \subseteq Sid /\ DOMAIN turns \subseteq Sid
  BY DEF Statuses, StoreInv, TurnsOK
<1>2. turns' = [s \in DOMAIN turns \cup DOMAIN status |->
                  IF s \in DOMAIN status THEN TurnsAfter(TurnsOf(s), status[s] \in Busy)
                                         ELSE turns[s]]
  BY DEF Update
<1>3. ASSUME NEW s
      PROVE  EndedIn(turns, s) <= EndedIn(turns', s)
  <2>1. EndedIn(turns, s) \in Nat
    BY DEF EndedIn, StoreInv, TurnsOK, Turns
  <2>2. CASE s \in DOMAIN status
    <3> DEFINE busy == status[s] \in Busy
               t    == TurnsOf(s)
    <3>1. EndedIn(turns', s) = TurnsAfter(t, busy).ended
      BY <1>2, <2>2 DEF EndedIn
    <3>2. t.ended = EndedIn(turns, s)
      BY DEF TurnsOf, EndedIn, NoTurns
    <3> HIDE DEF t, busy
    <3>3. TurnsAfter(t, busy).ended \in {t.ended, t.ended + 1}
      BY DEF TurnsAfter
    <3>4. QED
      BY <2>1, <3>1, <3>2, <3>3
  <2>3. CASE s \notin DOMAIN status
    BY <1>2, <2>1, <2>3 DEF EndedIn
  <2>4. QED
    BY <2>2, <2>3
<1>4. QED
  BY <1>1, <1>2, <1>3 DEF Met

\* Retention keeps the counters of the sessions it keeps.
LEMMA PruneEnds ==
  ASSUME StoreInv, Prune
  PROVE  /\ Met(snapshots') \subseteq Met(snapshots)
         /\ DOMAIN turns' \subseteq DOMAIN turns
         /\ \A s \in Met(snapshots') \cup DOMAIN turns' : EndedIn(turns', s) = EndedIn(turns, s)
<1>1. PICK G : snapshots' = Without(snapshots, G)
  BY DEF Prune
<1>2. PICK T : turns' = Without(turns, T) /\ T = Sid \ Met(snapshots')
  BY DEF Prune, Met
<1>3. /\ DOMAIN snapshots' = DOMAIN snapshots \ G
      /\ \A i \in DOMAIN snapshots \ G : snapshots'[i] = snapshots[i]
  BY <1>1, WithoutEntries
<1>4. Met(snapshots') \subseteq Met(snapshots)
  BY <1>3 DEF Met, Mentions
<1>5. /\ DOMAIN turns' = DOMAIN turns \ T
      /\ \A s \in DOMAIN turns \ T : turns'[s] = turns[s]
  <2>1. turns' = Without(turns, T)
    BY <1>2
  <2>2. QED
    BY <2>1, WithoutEntries
<1>6. QED
  BY <1>2, <1>4, <1>5 DEF EndedIn, StoreInv, TurnsOK

\* A transaction mentions what memory and the file did.
LEMMA CommitMet ==
  ASSUME ServerInv, Commit
  PROVE  Met(disk'.snapshots) \subseteq Met(snapshots) \cup Met(disk.snapshots)
<1> DEFINE job == Head(writing)
           w   == Written(job)
<1>1. JobOK(job) /\ disk'.snapshots = IF job.table = "snapshots" THEN w ELSE disk.snapshots
  BY CommitWrites
<1>2. CASE job.table = "snapshots"
  <2>1. \A i \in DOMAIN w : \/ i \in DOMAIN snapshots /\ w[i] = snapshots[i]
                            \/ i \in DOMAIN disk.snapshots /\ w[i] = disk.snapshots[i]
    BY <1>1, <1>2 DEF Written, Memory, JobOK
  <2>2. QED
    BY <1>1, <1>2, <2>1 DEF Met, Mentions
<1>3. CASE job.table # "snapshots"
  BY <1>1, <1>3
<1>4. QED
  BY <1>2, <1>3

\* The counters a commit writes are those of memory.
LEMMA CommitEnds ==
  ASSUME ServerInv, PendingOK, Commit, writing' = <<>>, ~IsMark(writing)
  PROVE  \A s : EndedIn(turns, s) <= EndedIn(disk'.turns, s)
<1> DEFINE job == Head(writing)
<1>1. JobOK(job) /\ disk'.turns = IF job.table = "turns" THEN Written(job) ELSE disk.turns
  BY CommitWrites
<1>2. job \in {Whole("turns"), Rows("turns", DOMAIN turns)}
  <2>1. IsSync(writing) \/ IsReport(writing, DOMAIN turns)
    BY DEF PendingOK, Syncing, Reporting, Commit
  <2>2. writing \in {<<Whole("turns")>>, <<Rows("turns", DOMAIN turns)>>}
    BY <2>1, SyncList, ReportList, KindsDiffer DEF Commit
  <2>3. QED
    BY <2>2
<1>3. /\ \A s : EndedIn(turns, s) \in Nat /\ EndedIn(disk.turns, s) \in Nat
      /\ Memory.turns = turns
  BY EndedType DEF Memory
<1>4. CASE job = Whole("turns")
  <2>1. disk'.turns = turns
    BY <1>1, <1>3, <1>4 DEF Whole, Written
  <2>2. QED
    BY <1>3, <2>1
<1>5. CASE job = Rows("turns", DOMAIN turns)
  <2>1. disk'.turns = [s \in DOMAIN disk.turns \cup DOMAIN turns |->
                         IF s \in DOMAIN turns THEN turns[s] ELSE disk.turns[s]]
    BY <1>1, <1>3, <1>5 DEF Rows, Written
  <2>2. \A s : EndedIn(disk'.turns, s) =
                 IF s \in DOMAIN turns THEN EndedIn(turns, s) ELSE EndedIn(disk.turns, s)
    BY <2>1 DEF EndedIn
  <2>3. \A s : s \notin DOMAIN turns => EndedIn(turns, s) = 0
    BY DEF EndedIn
  <2>4. QED
    BY <1>3, <2>2, <2>3
<1>6. QED
  BY <1>2, <1>4, <1>5

-------------------------------------------------------------------------------
\* When nothing is left to write, clients read memory.
LEMMA SeenMemory ==
  ASSUME ServerInv, seen' = Read(Memory), UNCHANGED <<snapshots, turns>>, phase' = "up",
         ~lagging' => \A s \in Met(snapshots) : EndedIn(turns, s) <= EndedIn(disk'.turns, s)
  PROVE  SeenOK'
<1>1. DOMAIN seen' = Met(snapshots) /\ \A s \in DOMAIN seen' : seen'[s].ended = EndedIn(turns, s)
  BY MemorySays
<1>2. Met(snapshots') = Met(snapshots) /\ \A s : EndedIn(turns', s) = EndedIn(turns, s)
                                                /\ EndedIn(turns, s) \in Nat
  BY EndedType
<1>3. QED
  BY <1>1, <1>2 DEF SeenOK, SeenFile, SeenRows, SeenNow, SeenBelow, SeenStored

\* While the mutex is taken, and in steps outside the server, clients read what
\* they read before.
LEMMA SeenSame ==
  ASSUME SeenOK, UNCHANGED <<seen, phase, lagging, turns>>, disk'.turns = disk.turns,
         Met(snapshots') = Met(snapshots),
         phase # "up" => Met(disk'.snapshots) = Met(disk.snapshots),
         Met(disk'.snapshots) \subseteq Met(snapshots) \cup Met(disk.snapshots),
         Unlocked' => Unlocked, Reporting => Reporting'
  PROVE  SeenOK'
BY DEF SeenOK, SeenFile, SeenRows, SeenNow, SeenBelow, SeenStored, SeenIs

LEMMA SeenServed ==
  ASSUME ServerInv, StoreInv', SeenOK, NEW i \in Instance, NEW status \in Statuses, NEW tabs,
         Unlocked, Update(i, status, tabs), Served(i)
  PROVE  SeenOK' /\ UNCHANGED seen
<1>1. UNCHANGED <<seen, phase, disk, lagging>> /\ phase = "up" /\ writing' # <<>> /\ Reporting'
  <2>1. PICK some \in BOOLEAN : Hold(ReportJobs(i, some, DOMAIN turns'))
    BY DEF Served
  <2>2. IsReport(ReportJobs(i, some, DOMAIN turns'), DOMAIN turns')
    BY ReportLists
  <2>3. writing' # <<>> /\ Reporting' /\ UNCHANGED seen
    BY <2>1, <2>2, KindsDiffer DEF Hold, Reporting
  <2>4. QED
    BY <2>3 DEF Served, Unlocked
<1>2. DOMAIN seen \subseteq Met(snapshots)
  BY DEF SeenOK, SeenRows
<1>3. \A s : EndedIn(turns, s) <= EndedIn(turns', s)
  BY UpdateEnds DEF ServerInv
<1>4. \A s \in DOMAIN seen : seen[s].ended <= EndedIn(turns, s) /\ seen[s].ended \in Nat
  BY <1>1, <1>2, EndedType DEF SeenOK, SeenBelow
<1>5. \A s : EndedIn(turns, s) \in Nat /\ EndedIn(turns', s) \in Nat
  BY EndedType DEF StoreInv, TurnsOK, Turns, EndedIn
<1>6. SeenBelow'
  BY <1>1, <1>3, <1>4, <1>5 DEF SeenBelow
<1>7. SeenStored'
  BY <1>1, <1>2 DEF SeenOK, SeenStored
<1>8. QED
  BY <1>1, <1>6, <1>7 DEF SeenOK, SeenFile, SeenRows, SeenNow, Unlocked

LEMMA SeenBeat ==
  ASSUME ServerInv, SeenOK, Beat
  PROVE  SeenOK' /\ \A s \in DOMAIN seen \cap DOMAIN seen' : seen'[s].ended = seen[s].ended
<1>1. /\ Unlocked /\ phase = "up" /\ writing = <<>> /\ Prune
      /\ UNCHANGED <<phase, disk, lagging>>
      /\ \/ writing' = <<>> /\ Memory' = Memory /\ seen' = Read(Memory')
         \/ writing' = SyncJobs /\ UNCHANGED seen
  BY DEF Beat, Hold, Unlocked, SyncJobs
<1>2. ~Reporting
  BY <1>1, KindsDiffer DEF Reporting
<1>3. \A s \in Met(snapshots) : s \in DOMAIN seen /\ seen[s].ended = EndedIn(turns, s)
  BY <1>1, <1>2 DEF SeenOK, SeenNow
<1>4. /\ Met(snapshots') \subseteq Met(snapshots)
      /\ DOMAIN turns' \subseteq DOMAIN turns
      /\ \A s \in Met(snapshots') \cup DOMAIN turns' : EndedIn(turns', s) = EndedIn(turns, s)
  BY <1>1, PruneEnds DEF ServerInv
<1>5. CASE writing' = <<>> /\ Memory' = Memory /\ seen' = Read(Memory')
  <2>1. UNCHANGED <<snapshots, turns>>
    BY <1>5 DEF Memory
  <2>2. ~lagging' => \A s \in Met(snapshots) : EndedIn(turns, s) <= EndedIn(disk'.turns, s)
    BY <1>1, <1>3 DEF SeenOK, SeenStored
  <2>3. SeenOK'
    BY <1>1, <1>5, <2>1, <2>2, SeenMemory
  <2>4. QED
    BY <1>3, <1>5, <2>3, MemorySays
<1>6. CASE writing' = SyncJobs /\ UNCHANGED seen
  <2>1. writing' # <<>>
    BY <1>6 DEF SyncJobs
  <2>2. SeenNow'
    BY <1>3, <1>4, <1>6 DEF SeenNow
  <2>3. SeenBelow'
    BY <1>1, <1>4, <1>6 DEF SeenOK, SeenBelow
  <2>4. SeenStored'
    BY <1>1, <1>4, <1>6 DEF SeenOK, SeenStored
  <2>5. QED
    BY <1>1, <1>6, <2>1, <2>2, <2>3, <2>4 DEF SeenOK, SeenFile, SeenRows, Unlocked
<1>7. QED
  BY <1>1, <1>5, <1>6

LEMMA SeenCommit ==
  ASSUME ServerInv, PendingOK, SeenOK, Commit
  PROVE  SeenOK' /\ \A s \in DOMAIN seen \cap DOMAIN seen' : seen'[s].ended >= seen[s].ended
<1> DEFINE job == Head(writing)
<1>1. /\ UNCHANGED <<vars, snapshots, turns>> /\ phase \in {"starting", "up"}
      /\ lagging' = (lagging /\ job.table # "turns")
      /\ seen' = IF writing' = <<>> THEN Read(Memory) ELSE seen
      /\ disk'.turns = IF job.table = "turns" THEN Written(job) ELSE disk.turns
  BY CommitWrites DEF Commit, ServerInv, ControlOK, vars, store
<1>2. Met(disk'.snapshots) \subseteq Met(snapshots) \cup Met(disk.snapshots)
  BY CommitMet
<1>3. CASE writing' # <<>>
  <2>1. UNCHANGED phase /\ job.table # "turns" /\ (Reporting => Reporting')
    <3>1. /\ \A t \in DOMAIN NoTables : Whole(t).table = t
          /\ \A i : Rows("snapshots", {i}).table = "snapshots"
      BY DEF Whole, Rows
    <3>2. QED
      BY <1>3, <3>1, CommitKinds, KindsDiffer, TableNames DEF Syncing, Reporting
  <2>2. UNCHANGED <<seen, lagging>> /\ disk'.turns = disk.turns
    BY <1>1, <1>3, <2>1 DEF ServerInv, HistoryOK
  <2>3. SeenNow' /\ SeenRows' /\ SeenFile'
    BY <1>1, <1>3, <2>1, <2>2 DEF SeenOK, SeenNow, SeenRows, SeenFile, Unlocked
  <2>4. SeenBelow' /\ SeenStored'
    BY <1>1, <1>2, <2>1, <2>2 DEF SeenOK, SeenBelow, SeenStored
  <2>5. QED
    BY <2>2, <2>3, <2>4, EndedType DEF SeenOK
<1>4. CASE writing' = <<>>
  <2>1. seen' = Read(Memory) /\ phase' = "up"
    BY <1>1, <1>4 DEF Commit
  <2>2. ~lagging' => \A s \in Met(snapshots) : EndedIn(turns, s) <= EndedIn(disk'.turns, s)
    <3>1. CASE ~IsMark(writing)
      BY <1>4, <3>1, CommitEnds
    <3>2. CASE IsMark(writing)
      <4>1. job.table # "turns" /\ ~Reporting /\ ~Syncing
        <5>1. \A s : Rows("removed", {s}).table = "removed"
          BY DEF Rows
        <5>2. QED
          BY <3>2, <5>1, MarkList, KindsDiffer DEF Reporting, Syncing
      <4>2. phase = "up" /\ UNCHANGED lagging /\ disk'.turns = disk.turns
        BY <1>1, <4>1 DEF PendingOK, ServerInv, HistoryOK
      <4>3. QED
        BY <4>1, <4>2 DEF SeenOK, SeenNow, SeenStored
    <3>3. QED
      BY <3>1, <3>2
  <2>3. SeenOK'
    BY <1>1, <2>1, <2>2, SeenMemory
  <2>4. \A s \in DOMAIN seen \cap Met(snapshots) : EndedIn(turns, s) >= seen[s].ended
    BY <1>1, EndedType DEF SeenOK, SeenBelow
  <2>5. QED
    BY <2>1, <2>3, <2>4, MemorySays
<1>5. QED
  BY <1>3, <1>4

LEMMA SeenCrash ==
  ASSUME ServerInv, SeenOK, Crash
  PROVE  /\ SeenOK'
         /\ ~lagging => \A s \in DOMAIN seen \cap DOMAIN seen' : seen'[s].ended >= seen[s].ended
<1>1. /\ phase' = "down" /\ UNCHANGED disk /\ seen' = Read(disk)
      /\ phase \in {"loaded", "starting", "up"}
  BY DEF Crash, ServerInv, ControlOK, Phase
<1>2. /\ DOMAIN seen' = Met(disk.snapshots)
      /\ \A s \in DOMAIN seen' : seen'[s].ended = EndedIn(disk.turns, s)
  BY <1>1, ReadSays
<1>3. SeenOK'
  BY <1>1, <1>2 DEF SeenOK, SeenFile, SeenIs, SeenRows, SeenNow, SeenBelow, SeenStored, Unlocked
<1>4. ~lagging => \A s \in DOMAIN seen \cap Met(disk.snapshots) :
                    seen[s].ended <= EndedIn(disk.turns, s)
  BY <1>1, EndedType DEF SeenOK, SeenFile, SeenIs, SeenStored
<1>5. QED
  BY <1>2, <1>3, <1>4, EndedType

LEMMA SeenRestore ==
  ASSUME ServerInv, LoadedOK, SeenOK, Restore
  PROVE  SeenOK' /\ UNCHANGED seen
<1>1. /\ phase = "loaded" /\ phase' = "starting" /\ UNCHANGED <<disk, seen>>
      /\ snapshots = disk.snapshots /\ turns = disk.turns /\ Prune
  BY DEF Restore, LoadedOK
<1>2. DOMAIN seen = Met(snapshots) /\ \A s \in DOMAIN seen : seen[s].ended = EndedIn(turns, s)
  BY <1>1 DEF SeenOK, SeenFile, SeenIs
<1>3. /\ Met(snapshots') \subseteq Met(snapshots)
      /\ \A s \in Met(snapshots') \cup DOMAIN turns' : EndedIn(turns', s) = EndedIn(turns, s)
  BY <1>1, PruneEnds DEF ServerInv
<1>4. \A s : EndedIn(turns, s) \in Nat
  BY EndedType
<1>5. SeenBelow'
  BY <1>1, <1>2, <1>3, <1>4 DEF SeenBelow
<1>6. SeenStored'
  BY <1>1, <1>2, <1>4 DEF SeenStored
<1>7. QED
  BY <1>1, <1>5, <1>6 DEF SeenOK, SeenFile, SeenRows, SeenNow, Unlocked

\* What a client reads of a session's ended turns does not fall.
SeenRises == ~lagging => \A s \in DOMAIN seen \cap DOMAIN seen' : seen'[s].ended >= seen[s].ended

LEMMA SeenNext ==
  ASSUME ServerInv, StoreInv', PendingOK, LoadedOK, SeenOK, [ServerNext]_serverVars
  PROVE  SeenOK' /\ SeenRises
<1>0. UNCHANGED seen => SeenRises
  BY EndedType DEF SeenRises
<1>1. ASSUME NEW w \in Worker, NEW status \in Statuses, ServeWorker(w, status)
      PROVE  SeenOK' /\ SeenRises
  BY <1>0, <1>1, SeenServed DEF ServeWorker, WorkerReport, Instance
<1>2. ASSUME NEW h \in Host, NEW tabs \in SUBSET Sid, ServeHost(h, tabs)
      PROVE  SeenOK' /\ SeenRises
  <2>1. EmptyMap \in Statuses
    BY DEF EmptyMap, Statuses
  <2>2. QED
    BY <1>0, <1>2, <2>1, SeenServed DEF ServeHost, HostReport, Instance
<1>3. ASSUME NEW s \in Sid, ServeRemove(s) \/ ServeResume(s)
      PROVE  SeenOK' /\ SeenRises
  <2>1. /\ UNCHANGED <<snapshots, turns, seen, phase, disk, lagging>> /\ phase = "up" /\ Unlocked
        /\ IsMark(writing')
    BY <1>3 DEF ServeRemove, ServeResume, MarkRemoved, MarkResumed, Marked, Hold, Unlocked, IsMark
  <2>2. writing' # <<>> /\ ~Reporting
    BY <2>1, MarkList, KindsDiffer DEF Reporting, Unlocked
  <2>3. QED
    BY <1>0, <2>1, <2>2 DEF SeenOK, SeenFile, SeenRows, SeenNow, SeenBelow, SeenStored, Unlocked
<1>4. CASE Beat
  <2>1. SeenOK' /\ \A s \in DOMAIN seen \cap DOMAIN seen' : seen'[s].ended = seen[s].ended
    BY <1>4, SeenBeat
  <2>2. QED
    BY <2>1, EndedType DEF SeenRises
<1>5. CASE Commit
  BY <1>5, SeenCommit DEF SeenRises
<1>6. CASE Fail
  <2>1. ~lagging' => \A s \in Met(snapshots) : EndedIn(turns, s) <= EndedIn(disk'.turns, s)
    BY <1>6, FailLags DEF SeenOK, SeenNow, SeenStored
  <2>2. SeenOK'
    BY <1>6, <2>1, FailLags, SeenMemory
  <2>3. SeenRises
    BY <1>6, FailLags, MemorySays, EndedType DEF SeenOK, SeenBelow, SeenRises
  <2>4. QED
    BY <2>2, <2>3
<1>7. CASE Crash
  BY <1>7, SeenCrash DEF SeenRises
<1>8. CASE Load
  <2>1. UNCHANGED <<seen, disk>> /\ phase = "down" /\ phase' = "loaded"
    BY <1>8 DEF Load, history
  <2>2. QED
    BY <1>0, <2>1 DEF SeenOK, SeenFile, SeenIs, SeenRows, SeenNow, SeenBelow, SeenStored, Unlocked
<1>9. CASE Restore
  BY <1>0, <1>9, SeenRestore
<1>10. ASSUME NEW s \in Sid, NEW manual \in BOOLEAN, OfflineMark(s, manual)
       PROVE  SeenOK' /\ SeenRises
  <2>1. /\ phase = "down" /\ phase' = "down" /\ seen' = Read(disk')
        /\ disk'.snapshots = disk.snapshots /\ disk'.turns = disk.turns
    BY <1>10 DEF OfflineMark, ServerInv, Shape
  <2>2. /\ DOMAIN seen' = Met(disk.snapshots)
        /\ \A t \in DOMAIN seen' : seen'[t].ended = EndedIn(disk.turns, t)
    BY <2>1, ReadSays
  <2>3. SeenOK'
    BY <2>1, <2>2 DEF SeenOK, SeenFile, SeenIs, SeenRows, SeenNow, SeenBelow, SeenStored, Unlocked
  <2>4. QED
    BY <2>1, <2>2, <2>3, EndedType DEF SeenOK, SeenFile, SeenIs, SeenRises
<1>11. CASE Clock
  <2>1. Met(snapshots') = Met(snapshots) /\ Met(disk'.snapshots) = Met(disk.snapshots)
    <3>1. RowsOK(snapshots) /\ RowsOK(disk.snapshots)
      BY MemoryTables DEF ServerInv, TablesOK, Memory
    <3>2. QED
      BY <1>11, <3>1, ClockTables, MetAged
  <2>2. /\ UNCHANGED <<seen, phase, lagging, turns, writing>> /\ disk'.turns = disk.turns
    BY <1>11, ClockTables DEF history
  <2>3. QED
    BY <1>0, <2>1, <2>2, SeenSame DEF Unlocked, Reporting
<1>12. CASE \/ \E i \in Instance : Process(i)
            \/ \E s \in Archivable : ArchiveFile(s)
            \/ UNCHANGED serverVars
  <2>1. UNCHANGED <<seen, phase, lagging, turns, writing, disk, snapshots>>
    BY <1>12 DEF Process, Start, Die, ArchiveFile, Archive, store, vars, running, history, serverVars
  <2>2. QED
    BY <1>0, <2>1, SeenSame DEF Unlocked, Reporting
<1>13. QED
  BY <1>1, <1>2, <1>3, <1>4, <1>5, <1>6, <1>7, <1>8, <1>9, <1>10, <1>11, <1>12 DEF ServerNext

\* README.md:320-322: no crash, failed write of something else or restart takes
\* back a turn a script saw end.
THEOREM SeenCountersNeverEverFall == ServerSpec => SeenCountersNeverFall
<1>1. ServerInit => PendingOK /\ LoadedOK /\ SeenOK
  <2>1. SUFFICES ASSUME ServerInit PROVE PendingOK /\ LoadedOK /\ SeenOK
    OBVIOUS
  <2>2. /\ writing = <<>> /\ phase = "down" /\ seen = EmptyMap /\ disk.snapshots = EmptyMap
    BY <2>1 DEF ServerInit, NoTables
  <2>3. ~Syncing /\ ~Reporting
    BY <2>2, KindsDiffer DEF Syncing, Reporting
  <2>4. DOMAIN seen = {} /\ Met(disk.snapshots) = {}
    BY <2>2 DEF EmptyMap, Met, Mentions
  <2>5. QED
    BY <2>2, <2>3, <2>4 DEF PendingOK, LoadedOK, SeenOK, SeenFile, SeenIs, SeenRows, SeenNow,
                            SeenBelow, SeenStored, Unlocked
<1>2. /\ ServerInv /\ ServerInv' /\ PendingOK /\ LoadedOK /\ SeenOK /\ [ServerNext]_serverVars
        => PendingOK' /\ LoadedOK' /\ SeenOK'
  BY PendingNext, LoadedNext, SeenNext DEF ServerInv
<1>3. ServerInv /\ ServerInv' /\ PendingOK /\ LoadedOK /\ SeenOK /\ [ServerNext]_serverVars
        => [SeenRises]_serverVars
  BY SeenNext DEF ServerInv
<1>4. QED
  BY <1>1, <1>2, <1>3, ServerInvariant, PTL DEF ServerSpec, SeenCountersNeverFall, SeenRises

-------------------------------------------------------------------------------
(***************************************************************************)
(* A server that starts: what it knows to have been revived, and what a    *)
(* half-written file means.                                                *)
(***************************************************************************)

RevivedOK == phase \in {"loaded", "starting"} =>
               \A s \in Sid : Manual(s) /\ SnapshotStatus(snapshots, s) \in Busy => s \in revived

\* Fewer, or older, rows show a session busy only if it was.
LEMMA BusyBefore ==
  ASSUME NEW b, NEW c, NEW s,
         \A i \in Fresh(c, s) : i \in Fresh(b, s) /\ c[i].status[s] = b[i].status[s],
         SnapshotStatus(c, s) \in Busy
  PROVE  SnapshotStatus(b, s) \in Busy
BY DEF SnapshotStatus, Busy

\* A session is busy when a fresh row says so.
LEMMA BusyIsFresh ==
  ASSUME NEW b, NEW s, SnapshotStatus(b, s) \in Busy
  PROVE  \E i : BusyEntry(b, i, s)
BY DEF SnapshotStatus, Busy, Fresh, BusyEntry

LEMMA RevivedNext ==
  ASSUME ServerInv, RevivedOK, [ServerNext]_serverVars
  PROVE  RevivedOK'
<1>1. CASE Load
  <2>1. /\ snapshots' = disk.snapshots /\ removed' = disk.removed
        /\ revived' = {s \in DOMAIN disk.removed :
                         disk.removed[s].manual /\ SnapshotStatus(disk.snapshots, s) \in Busy}
    BY <1>1 DEF Load
  <2>2. QED
    BY <2>1 DEF RevivedOK, Manual
<1>2. CASE Restore
  <2>1. PICK G, L : /\ snapshots' = Without(snapshots, G) /\ removed' = Without(removed, L)
                    /\ revived' = revived \cap (DOMAIN removed \ L)
    BY <1>2 DEF Restore, Prune
  <2>2. /\ DOMAIN snapshots' = DOMAIN snapshots \ G
        /\ \A i \in DOMAIN snapshots \ G : snapshots'[i] = snapshots[i]
    BY <2>1, WithoutEntries
  <2>3. /\ DOMAIN removed' = DOMAIN removed \ L
        /\ \A s \in DOMAIN removed \ L : removed'[s] = removed[s]
    BY <2>1, WithoutEntries
  <2>4. ASSUME NEW s \in Sid, Manual(s)', SnapshotStatus(snapshots', s) \in Busy
        PROVE  s \in revived'
    <3>1. SnapshotStatus(snapshots, s) \in Busy
      BY <2>2, <2>4, BusyBefore DEF Fresh, Mentions
    <3>2. Manual(s) /\ s \in DOMAIN removed \ L
      BY <2>3, <2>4 DEF Manual
    <3>3. QED
      BY <1>2, <2>1, <3>1, <3>2 DEF Restore, RevivedOK
  <2>5. QED
    BY <2>4 DEF RevivedOK
<1>3. CASE Clock
  <2>1. /\ snapshots' = AgedRows(snapshots) /\ removed' = AgedMarks(removed)
        /\ UNCHANGED <<revived, phase>>
    BY <1>3, ClockTables
  <2>2. ASSUME NEW s \in Sid, Manual(s)', SnapshotStatus(snapshots', s) \in Busy
        PROVE  SnapshotStatus(snapshots, s) \in Busy
    <3>1. \A i \in DOMAIN snapshots :
            /\ [snapshots[i] EXCEPT !.age = Older(@)].status = snapshots[i].status
            /\ [snapshots[i] EXCEPT !.age = Older(@)].age = Older(snapshots[i].age)
            /\ snapshots[i].age \in Nat
      BY AgeType DEF ServerInv, StoreInv, SnapshotsOK, SnapshotOK
    <3>2. \A n \in Nat : Older(n) <= Stale => n <= Stale
      BY StoreConstants DEF Older
    <3>3. \A i \in Fresh(snapshots', s) :
            i \in Fresh(snapshots, s) /\ snapshots'[i].status[s] = snapshots[i].status[s]
      BY <2>1, <3>1, <3>2 DEF Fresh, Mentions, AgedRows
    <3>4. QED
      BY <2>2, <3>3, BusyBefore
  <2>3. ASSUME NEW s \in Sid, Manual(s)'
        PROVE  Manual(s)
    <3>1. s \in DOMAIN removed /\ removed[s] \in Mark
      BY <2>1, <2>3 DEF Manual, AgedMarks, ServerInv, StoreInv, RemovedOK, Mark
    <3>2. removed'[s] = [removed[s] EXCEPT !.age = IF removed[s].manual THEN Older(@) ELSE @]
      BY <2>1, <3>1 DEF AgedMarks
    <3>3. removed'[s].manual = removed[s].manual
      BY <3>1, <3>2 DEF Mark
    <3>4. QED
      BY <2>3, <3>1, <3>3 DEF Manual
  <2>4. QED
    BY <2>1, <2>2, <2>3 DEF RevivedOK
<1>4. CASE \/ Commit
           \/ \E i \in Instance : Process(i)
           \/ \E s \in Archivable : ArchiveFile(s)
           \/ UNCHANGED serverVars
  <2>1. UNCHANGED <<snapshots, removed, revived>> /\ phase' \in {phase, "up"}
    BY <1>4 DEF Commit, Process, Start, Die, ArchiveFile, Archive, store, vars, running, serverVars
  <2>2. QED
    BY <2>1 DEF RevivedOK, Manual
<1>5. CASE phase' \notin {"loaded", "starting"}
  BY <1>5 DEF RevivedOK
<1>6. QED
  BY <1>1, <1>2, <1>3, <1>4, <1>5
     DEF ServerNext, ServeWorker, ServeHost, Served, ServeRemove, ServeResume, Marked, Unlocked,
         Beat, Fail, Crash, OfflineMark

\* What the list of a server that begins to listen shows of a removed session.
ShowsBusy(s) ==
  Manual(s)' => /\ SnapshotStatus(snapshots', s) \in Busy => Listed(s)'
                /\ Listed(s)' => \E i \in Mentions(snapshots', s) :
                                   snapshots'[i].status[s] \in Busy

LEMMA StartShows ==
  ASSUME ServerInv, RevivedOK, Commit, phase = "starting", NEW s \in Sid
  PROVE  ShowsBusy(s)
<1>1. UNCHANGED <<alive, snapshots, removed, revived, quiet, hosted>>
  BY DEF Commit, vars, store
<1>2. (Manual(s)' <=> Manual(s)) /\ (Listed(s)' <=> Listed(s))
  BY <1>1 DEF Manual, Listed, ListedBy, Best, Kept, Keep, ClosedTab, Hosting, LiveHosts
<1>3. ASSUME Manual(s)
      PROVE  /\ SnapshotStatus(snapshots, s) \in Busy => Listed(s)
             /\ Listed(s) => \E i \in Mentions(snapshots, s) : snapshots[i].status[s] \in Busy
  <2>1. Listed(s) <=> s \in revived /\ \E i : BusyEntry(snapshots, i, s)
    BY <1>3, ListedRemoved DEF ServerInv
  <2>2. SnapshotStatus(snapshots, s) \in Busy => s \in revived
    BY <1>3 DEF RevivedOK
  <2>3. QED
    BY <2>1, <2>2, BusyIsFresh DEF BusyEntry
<1>4. QED
  BY <1>1, <1>2, <1>3 DEF ShowsBusy

\* store.rs:243-246: a server that begins to listen shows the removed sessions
\* that are busy, though nothing in the file says which were revived.
THEOREM StartAlwaysShowsBusyRemovals == ServerSpec => StartShowsBusyRemovals
<1> DEFINE Shows == phase = "starting" /\ phase' = "up"
                      => \A s \in DOMAIN removed' : removed'[s].manual =>
                           /\ SnapshotStatus(snapshots', s) \in Busy => Listed(s)'
                           /\ Listed(s)' => \E i \in Mentions(snapshots', s) :
                                              snapshots'[i].status[s] \in Busy
<1>1. ServerInit => RevivedOK
  BY DEF ServerInit, RevivedOK
<1>2. ServerInv /\ RevivedOK /\ [ServerNext]_serverVars => RevivedOK'
  BY RevivedNext
<1>3. ServerInv /\ ServerInv' /\ RevivedOK /\ [ServerNext]_serverVars => [Shows]_serverVars
  <2>1. SUFFICES ASSUME ServerInv, ServerInv', RevivedOK, [ServerNext]_serverVars,
                        phase = "starting", phase' = "up", NEW s \in DOMAIN removed',
                        removed'[s].manual
                 PROVE  /\ SnapshotStatus(snapshots', s) \in Busy => Listed(s)'
                        /\ Listed(s)' => \E i \in Mentions(snapshots', s) :
                                           snapshots'[i].status[s] \in Busy
    OBVIOUS
  <2>2. Commit
    BY <2>1 DEF ServerNext, ServeWorker, ServeHost, ServeRemove, ServeResume, Unlocked, Beat, Fail,
                Crash, Load, Restore, OfflineMark, Clock, Process, ArchiveFile, running, serverVars
  <2>3. s \in Sid /\ Manual(s)'
    BY <2>1 DEF ServerInv, StoreInv, RemovedOK, Manual
  <2>4. QED
    BY <2>1, <2>2, <2>3, StartShows DEF ShowsBusy
<1>4. QED
  BY <1>1, <1>2, <1>3, ServerInvariant, PTL DEF ServerSpec, StartShowsBusyRemovals

-------------------------------------------------------------------------------
(***************************************************************************)
(* The tables of a server that starts are its memory, or what it loaded;   *)
(* they differ in what the prune of the next start drops again.            *)
(***************************************************************************)

\* Rows, tabs, counters and marks of the file d against those of memory.
RowsAgree(d) == /\ \A i \in DOMAIN snapshots :
                     i \in DOMAIN d.snapshots /\ d.snapshots[i] = snapshots[i]
                /\ \A i \in DOMAIN d.snapshots \ DOMAIN snapshots : d.snapshots[i].age > Retention
TabsAgree(d) == hosted \subseteq d.hosted /\ d.hosted \cap Met(snapshots) \subseteq hosted
CountsAgree(d) == \A s \in Met(snapshots) : /\ s \in DOMAIN turns <=> s \in DOMAIN d.turns
                                            /\ s \in DOMAIN turns => turns[s] = d.turns[s]
Expired(m)   == ~(m.manual /\ m.age <= Retention)
MarksAgree(d) == /\ \A s \in DOMAIN removed :
                      s \in DOMAIN d.removed /\ d.removed[s] = removed[s]
                 /\ \A s \in DOMAIN d.removed \ DOMAIN removed :
                      s \notin Met(snapshots) /\ Expired(d.removed[s])

StartOK == phase = "starting" =>
             RowsAgree(disk) /\ TabsAgree(disk) /\ CountsAgree(disk) /\ MarksAgree(disk)

LEMMA RestoreAgrees ==
  ASSUME ServerInv, LoadedOK, Restore
  PROVE  StartOK'
<1>1. /\ UNCHANGED disk /\ snapshots = disk.snapshots /\ removed = disk.removed
      /\ hosted = disk.hosted /\ turns = disk.turns /\ Prune
  BY DEF Restore, LoadedOK
<1>2. PICK G, L, T :
        /\ snapshots' = Without(snapshots, G)
        /\ removed' = Without(removed, L)
        /\ turns' = Without(turns, T)
        /\ G = {i \in DOMAIN snapshots : i \notin alive /\ snapshots[i].age > Retention}
        /\ L = {s \in DOMAIN removed : s \notin Met(snapshots') /\ Expired(removed[s])}
        /\ T = Sid \ Met(snapshots')
        /\ hosted' = hosted \cap Met(snapshots')
  BY <1>1 DEF Prune, Met, Expired
<1>3. /\ DOMAIN snapshots' = DOMAIN snapshots \ G
      /\ \A i \in DOMAIN snapshots \ G : snapshots'[i] = snapshots[i]
  <2>1. snapshots' = Without(snapshots, G)
    BY <1>2
  <2>2. QED
    BY <2>1, WithoutEntries
<1>4. /\ DOMAIN removed' = DOMAIN removed \ L
      /\ \A s \in DOMAIN removed \ L : removed'[s] = removed[s]
  <2>1. removed' = Without(removed, L)
    BY <1>2
  <2>2. QED
    BY <2>1, WithoutEntries
<1>5. /\ DOMAIN turns' = DOMAIN turns \ T
      /\ \A s \in DOMAIN turns \ T : turns'[s] = turns[s]
  <2>1. turns' = Without(turns, T)
    BY <1>2
  <2>2. QED
    BY <2>1, WithoutEntries
<1>6. RowsAgree(disk)'
  BY <1>1, <1>2, <1>3 DEF RowsAgree
<1>7. TabsAgree(disk)'
  BY <1>1, <1>2 DEF TabsAgree
<1>8. CountsAgree(disk)'
  BY <1>1, <1>2, <1>5 DEF CountsAgree, Met
<1>9. MarksAgree(disk)'
  BY <1>1, <1>2, <1>4 DEF MarksAgree, Expired
<1>10. QED
  BY <1>6, <1>7, <1>8, <1>9 DEF StartOK

LEMMA CommitAgrees ==
  ASSUME ServerInv, PendingOK, StartOK, Commit
  PROVE  StartOK'
<1> DEFINE job == Head(writing)
<1>1. SUFFICES ASSUME phase' = "starting" PROVE StartOK'
  BY DEF StartOK
<1>2. phase = "starting" /\ Syncing /\ job.whole
  <2>1. phase = "starting"
    BY <1>1 DEF Commit
  <2>2. Syncing /\ ~Reporting /\ ~IsMark(writing)
    BY <2>1, KindsDiffer DEF PendingOK, Syncing, Reporting
  <2>3. \E t : job = Whole(t)
    BY <1>1, <2>2, CommitKinds
  <2>4. QED
    BY <2>1, <2>2, <2>3 DEF Whole
<1>3. UNCHANGED <<snapshots, removed, hosted, turns>>
  BY DEF Commit, vars, store
<1>4. /\ disk'.snapshots \in {snapshots, disk.snapshots}
      /\ disk'.removed \in {removed, disk.removed}
      /\ disk'.hosted \in {hosted, disk.hosted}
      /\ disk'.turns \in {turns, disk.turns}
  BY <1>2, CommitWrites DEF Written, Memory
<1>5. RowsAgree(disk) /\ TabsAgree(disk) /\ CountsAgree(disk) /\ MarksAgree(disk)
  BY <1>2 DEF StartOK
<1>6. Met(snapshots') = Met(snapshots)
  BY <1>3
<1>7. RowsAgree(disk)'
  BY <1>3, <1>4, <1>5 DEF RowsAgree
<1>8. TabsAgree(disk)'
  BY <1>3, <1>4, <1>5, <1>6 DEF TabsAgree
<1>9. CountsAgree(disk)'
  BY <1>3, <1>4, <1>5, <1>6 DEF CountsAgree
<1>10. MarksAgree(disk)'
  BY <1>3, <1>4, <1>5, <1>6 DEF MarksAgree
<1>11. QED
  BY <1>7, <1>8, <1>9, <1>10 DEF StartOK

LEMMA ClockAgrees ==
  ASSUME ServerInv, StartOK, Clock
  PROVE  StartOK'
<1>1. SUFFICES ASSUME phase = "starting" PROVE StartOK'
  BY ClockTables DEF StartOK
<1>2. /\ snapshots' = AgedRows(snapshots) /\ disk'.snapshots = AgedRows(disk.snapshots)
      /\ removed' = AgedMarks(removed) /\ disk'.removed = AgedMarks(disk.removed)
      /\ UNCHANGED <<hosted, turns>> /\ disk'.hosted = disk.hosted /\ disk'.turns = disk.turns
  BY ClockTables
<1>3. RowsAgree(disk) /\ TabsAgree(disk) /\ CountsAgree(disk) /\ MarksAgree(disk)
  BY <1>1 DEF StartOK
<1>4. RowsOK(snapshots) /\ RowsOK(disk.snapshots) /\ MarksOK(disk.removed)
  BY MemoryTables DEF ServerInv, TablesOK, Memory
<1>5. Met(snapshots') = Met(snapshots)
  BY <1>2, <1>4, MetAged
<1>6. \A n \in Nat : n > Retention => Older(n) > Retention
  BY StoreConstants DEF Older
<1>7. RowsAgree(disk)'
  <2>1. \A i \in DOMAIN disk.snapshots :
          /\ [disk.snapshots[i] EXCEPT !.age = Older(@)].age = Older(disk.snapshots[i].age)
          /\ disk.snapshots[i].age \in Nat
    BY <1>4, AgeType DEF RowsOK, SnapshotOK
  <2>2. QED
    BY <1>2, <1>3, <1>6, <2>1 DEF RowsAgree, AgedRows
<1>8. MarksAgree(disk)'
  <2>1. ASSUME NEW s \in DOMAIN disk.removed, Expired(disk.removed[s])
        PROVE  Expired(disk'.removed[s])
    <3> DEFINE m == disk.removed[s]
    <3>1. m \in Mark
      BY <1>4 DEF MarksOK
    <3>2. disk'.removed[s] = [m EXCEPT !.age = IF m.manual THEN Older(@) ELSE @]
      BY <1>2 DEF AgedMarks
    <3>3. Expired(m)
      BY <2>1
    <3> HIDE DEF m
    <3>4. m.age \in Nat /\ m.manual \in BOOLEAN
      BY <3>1, AgeType DEF Mark
    <3>5. CASE m.manual
      <4>1. disk'.removed[s].age = Older(m.age)
        BY <3>1, <3>2, <3>5 DEF Mark
      <4>2. m.age > Retention
        BY <3>3, <3>4, <3>5, StoreConstants DEF Expired
      <4>3. Older(m.age) > Retention /\ Older(m.age) \in Nat
        BY <1>6, <3>4, <4>2 DEF Older
      <4>4. QED
        BY <4>1, <4>3, StoreConstants DEF Expired
    <3>6. CASE ~m.manual
      BY <3>1, <3>2, <3>6 DEF Expired, Mark
    <3>7. QED
      BY <3>5, <3>6
  <2>2. /\ DOMAIN removed' = DOMAIN removed
        /\ DOMAIN disk'.removed = DOMAIN disk.removed
        /\ \A s \in DOMAIN removed : s \in DOMAIN disk.removed /\ disk'.removed[s] = removed'[s]
    BY <1>2, <1>3 DEF AgedMarks, MarksAgree
  <2>3. QED
    BY <1>3, <1>5, <2>1, <2>2 DEF MarksAgree
<1>9. TabsAgree(disk)' /\ CountsAgree(disk)'
  BY <1>2, <1>3, <1>5 DEF TabsAgree, CountsAgree
<1>10. QED
  BY <1>7, <1>8, <1>9 DEF StartOK

LEMMA StartNext ==
  ASSUME ServerInv, PendingOK, LoadedOK, StartOK, [ServerNext]_serverVars
  PROVE  StartOK'
<1>1. CASE Restore
  BY <1>1, RestoreAgrees
<1>2. CASE Commit
  BY <1>2, CommitAgrees
<1>3. CASE Clock
  BY <1>3, ClockAgrees
<1>4. CASE \/ \E i \in Instance : Process(i)
           \/ \E s \in Archivable : ArchiveFile(s)
           \/ UNCHANGED serverVars
  <2>1. UNCHANGED <<snapshots, removed, hosted, turns, disk, phase>>
    BY <1>4 DEF Process, Start, Die, ArchiveFile, Archive, store, vars, running, serverVars
  <2>2. QED
    BY <2>1 DEF StartOK, RowsAgree, TabsAgree, CountsAgree, MarksAgree, Met
<1>5. CASE phase' # "starting"
  BY <1>5 DEF StartOK
<1>6. QED
  BY <1>1, <1>2, <1>3, <1>4, <1>5
     DEF ServerNext, ServeWorker, ServeHost, Served, ServeRemove, ServeResume, Marked, Unlocked,
         Beat, Fail, Crash, Load, OfflineMark

\* Tables that agree mean the same to the next server.
LEMMA AgreeRecovers ==
  ASSUME ServerInv, RowsAgree(disk), TabsAgree(disk), CountsAgree(disk), MarksAgree(disk),
         alive \cap (DOMAIN disk.snapshots \ DOMAIN snapshots) = {}
  PROVE  Recovered(disk) = Recovered(Memory)
<1> DEFINE kept(d) == {i \in DOMAIN d.snapshots : i \in alive \/ ~(d.snapshots[i].age > Retention)}
           live    == Met(Surviving(Memory))
<1>1. /\ Memory.snapshots = snapshots /\ Memory.removed = removed
      /\ Memory.hosted = hosted /\ Memory.turns = turns
  BY DEF Memory
<1>2. ASSUME NEW d
      PROVE  Surviving(d) = [i \in kept(d) |-> d.snapshots[i]]
  BY DEF Surviving, Without, Restrict
<1>3. Surviving(disk) = Surviving(Memory)
  <2>1. kept(disk) = kept(Memory)
    BY <1>1 DEF RowsAgree
  <2>2. \A i \in kept(Memory) : disk.snapshots[i] = Memory.snapshots[i]
    BY <1>1 DEF RowsAgree
  <2>3. QED
    BY <1>2, <2>1, <2>2
<1>4. live \subseteq Met(snapshots)
  <2>1. \A i \in DOMAIN Surviving(Memory) :
          i \in DOMAIN snapshots /\ Surviving(Memory)[i] = snapshots[i]
    BY <1>1, <1>2
  <2>2. QED
    BY <2>1 DEF Met, Mentions
<1> HIDE DEF live
<1>5. disk.hosted \cap live = hosted \cap live
  BY <1>4 DEF TabsAgree
<1>6. Restrict(disk.turns, DOMAIN disk.turns \cap live) = Restrict(turns, DOMAIN turns \cap live)
  <2>1. DOMAIN disk.turns \cap live = DOMAIN turns \cap live
    BY <1>4 DEF CountsAgree
  <2>2. \A s \in DOMAIN turns \cap live : disk.turns[s] = turns[s]
    BY <1>4 DEF CountsAgree
  <2>3. QED
    BY <2>1, <2>2 DEF Restrict
<1>7. {s \in DOMAIN disk.removed :
         s \in live \/ (disk.removed[s].manual /\ disk.removed[s].age <= Retention)}
      = {s \in DOMAIN removed :
           s \in live \/ (removed[s].manual /\ removed[s].age <= Retention)}
  BY <1>4 DEF MarksAgree, Expired
<1>8. QED
  BY <1>1, <1>3, <1>5, <1>6, <1>7 DEF Recovered, live, Met

\* A crash between the transactions of a start costs nothing.
THEOREM StartAlwaysRepeatable == ServerSpec => []StartIsRepeatable
<1>1. ServerInit => PendingOK /\ LoadedOK /\ StartOK
  <2>1. SUFFICES ASSUME ServerInit PROVE PendingOK /\ LoadedOK /\ StartOK
    OBVIOUS
  <2>2. writing = <<>> /\ phase = "down"
    BY <2>1 DEF ServerInit
  <2>3. QED
    BY <2>2 DEF PendingOK, LoadedOK, StartOK
<1>2. /\ ServerInv /\ PendingOK /\ LoadedOK /\ StartOK /\ [ServerNext]_serverVars
        => PendingOK' /\ LoadedOK' /\ StartOK'
  BY PendingNext, LoadedNext, StartNext
<1>3. ServerInv /\ StartOK => StartIsRepeatable
  BY AgreeRecovers DEF StartOK, StartIsRepeatable
<1>4. QED
  BY <1>1, <1>2, <1>3, ServerInvariant, PTL DEF ServerSpec
===============================================================================
