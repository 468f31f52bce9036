---------------------------- MODULE ClientsProofs -----------------------------
(***************************************************************************)
(* Theorems about the pane commands and about the reader of a log.         *)
(***************************************************************************)
EXTENDS LogReader, PaneCommands, SequenceTheorems, TLAPS

(***************************************************************************)
(* The pane commands, for any agents, hosts and panes.                     *)
(***************************************************************************)
\* The shape of the scene and of the server's record: sessions with a process of
\* their own are run by agents and never tabbed; a process that is gone has no tabs.
SceneOK ==
  /\ runsIn \in [Proc -> TmuxPane \cup {Away, Dead}]
  /\ agentOf \in [Own -> Agent \cup {NoOne}]
  /\ tabs \in [Host -> SUBSET Tab] /\ front \in [Host -> Tab \cup {NoOne}]
  /\ \A h \in Host : runsIn[h] = Dead => tabs[h] = {}

RecordOK ==
  /\ heard \in [Own -> Agent \cup {NoOne}]
  /\ told \in [Host -> [tabs : SUBSET Tab, front : Tab \cup {NoOne}]]

\* What a row says of a session is so: of one of its own its process, of a tab a
\* host that lives and tabs it, if there is any, and that it is in front only if it is.
RowRight(row, o) ==
  IF o \in Own THEN row.pid = agentOf[o] /\ row.host = NoOne /\ ~row.tabbed
  ELSE /\ row.tabbed
       /\ row.host = NoOne => \A h \in Host : o \notin tabs[h]
       /\ row.host # NoOne => /\ row.host \in Host /\ Alive(row.host)
                              /\ o \in tabs[row.host]
                              /\ row.front => front[row.host] = o

\* A session that outlives the pane.
Spared(o, pn) ==
  o \in Carried(pn) => o \in Tab /\ \E h \in Host : runsIn[h] # pn /\ o \in tabs[h]

\* A command knows about the settled sessions what it needs.
CmdOK ==
  /\ settled \subseteq AnySession
  /\ cmd.step = "listed" =>
       /\ cmd.on \in AnySession
       /\ \A o \in settled : RowRight(cmd.rows[o], o)
  /\ cmd.step = "found" =>
       /\ cmd.kind = "stop" /\ ~cmd.force => \A o \in settled \ {cmd.on} : Spared(o, cmd.pane)
       /\ cmd.kind = "send" /\ cmd.on \in settled => cmd.on \in OnShow(cmd.pane)

PaneInv == SceneOK /\ RecordOK /\ CmdOK

-------------------------------------------------------------------------------
\* Where a right row's session is found.
LEMMA OwnIsFound ==
  ASSUME SceneOK, NEW o \in Own, NEW row, RowRight(row, o)
  PROVE  /\ RunningIn(row) = IF Alive(agentOf[o]) THEN Located(row) ELSE {}
         /\ PaneOf(agentOf[o]) # {} =>
              Located(row) = {[pane |-> q, own |-> TRUE] : q \in PaneOf(agentOf[o])}
<1>1. row.pid = agentOf[o] /\ row.host = NoOne /\ ~row.tabbed
  BY DEF RowRight
<1>2. ~Alive(NoOne)
  BY PaneConstants DEF Alive, Proc
<1>3. PaneOf(NoOne) = {}
  BY <1>2 DEF PaneOf
<1>4. QED
  BY <1>1, <1>2, <1>3 DEF RunningIn, Located

LEMMA TabIsFound ==
  ASSUME SceneOK, NEW o \in Tab, NEW row, RowRight(row, o)
  PROVE  /\ row.host # NoOne => RunningIn(row) = Located(row)
         /\ Located(row) = {[pane |-> q, own |-> row.front] : q \in PaneOf(row.host)}
<1>1. row.tabbed /\ (row.host # NoOne => Alive(row.host))
  BY PaneConstants DEF RowRight
<1>2. QED
  BY <1>1 DEF RunningIn, Located

LEMMA ShowsInPanes ==
  ASSUME NEW row, NEW pn \in ShowingIn(row)
  PROVE  pn \in TmuxPane
<1>1. PICK r \in Located(row) : r.own /\ r.pane = pn
  BY DEF ShowingIn, RunningIn
<1>2. \A p : PaneOf(p) \subseteq TmuxPane
  BY DEF PaneOf
<1>3. r \notin {[pane |-> q, own |-> FALSE] : q \in RunningClient}
  BY <1>1
<1>4. \/ r \in {[pane |-> q, own |-> row.front] : q \in PaneOf(row.host)}
      \/ r \in {[pane |-> q, own |-> TRUE] : q \in PaneOf(row.pid)}
  BY <1>1, <1>3 DEF Located
<1>5. QED
  BY <1>1, <1>2, <1>4

\* `stop` leaves the sessions alone that it was told right of and that share the pane.
LEMMA OthersAreSpared ==
  ASSUME SceneOK, NEW rows, NEW s, NEW o \in AnySession \ {s}, RowRight(rows[o], o),
         NEW pn \in TmuxPane, Others(rows, s, pn) = {}
  PROVE  Spared(o, pn)
<1>1. \A own : [pane |-> pn, own |-> own] \notin RunningIn(rows[o])
  BY DEF Others
<1>2. CASE o \in Own
  <2>1. o \in Carried(pn) => agentOf[o] \in In(pn)
    BY <1>2, PaneConstants DEF Carried, SceneOK
  <2>2. ASSUME agentOf[o] \in In(pn) PROVE FALSE
    <3>1. Alive(agentOf[o]) /\ PaneOf(agentOf[o]) = {pn}
      BY <2>2 DEF In, Alive, PaneOf, TmuxPane, Dead
    <3>2. RunningIn(rows[o]) = {[pane |-> q, own |-> TRUE] : q \in {pn}}
      BY <1>2, <3>1, OwnIsFound
    <3>3. [pane |-> pn, own |-> TRUE] \in RunningIn(rows[o])
      BY <3>2
    <3>4. QED
      BY <1>1, <3>3
  <2>3. QED
    BY <2>1, <2>2 DEF Spared
<1>3. CASE o \in Tab
  <2> SUFFICES ASSUME o \in Carried(pn)
               PROVE  \E h \in Host : runsIn[h] # pn /\ o \in tabs[h]
    BY <1>3 DEF Spared
  <2>1. PICK h \in Host : o \in tabs[h]
    BY <1>3, PaneConstants DEF Carried
  <2> DEFINE h0 == rows[o].host
  <2>2. o \notin Own
    BY <1>3, PaneConstants
  <2>3. h0 \in Host /\ Alive(h0) /\ o \in tabs[h0]
    BY <2>1, <2>2 DEF RowRight
  <2>4. RunningIn(rows[o]) = {[pane |-> q, own |-> rows[o].front] : q \in PaneOf(h0)}
    BY <1>3, <2>3, TabIsFound, PaneConstants
  <2>5. pn \notin PaneOf(h0)
    <3>1. pn \in PaneOf(h0) => [pane |-> pn, own |-> rows[o].front] \in RunningIn(rows[o])
      BY <2>4
    <3>2. QED
      BY <1>1, <3>1
  <2>6. runsIn[h0] # pn
    BY <2>3, <2>5 DEF PaneOf
  <2>7. QED
    BY <2>3, <2>6
<1>4. QED
  BY <1>2, <1>3 DEF AnySession

\* A pane that `send` finds for a session it was told right of shows that session.
LEMMA FoundIsOnShow ==
  ASSUME SceneOK, NEW o \in AnySession, NEW row, RowRight(row, o), NEW pn \in ShowingIn(row)
  PROVE  o \in OnShow(pn)
<1>1. PICK r \in RunningIn(row) : r.own /\ r.pane = pn
  BY DEF ShowingIn
<1>2. CASE o \in Own
  <2>1. Alive(agentOf[o]) /\ r \in Located(row)
    BY <1>1, <1>2, OwnIsFound
  <2>2. PaneOf(row.host) = {} /\ row.pid = agentOf[o] /\ ~row.tabbed
    BY <1>2, PaneConstants DEF RowRight, PaneOf, Alive, Proc
  <2>3. CASE PaneOf(agentOf[o]) = {}
    <3>1. r \in {[pane |-> q, own |-> FALSE] : q \in RunningClient}
      BY <2>1, <2>2, <2>3 DEF Located
    <3>2. QED
      BY <1>1, <3>1
  <2>4. CASE PaneOf(agentOf[o]) # {}
    <3>1. pn \in PaneOf(agentOf[o])
      BY <1>1, <1>2, <2>1, <2>4, OwnIsFound
    <3>2. agentOf[o] \in In(pn)
      BY <2>1, <3>1 DEF PaneOf, In, Alive
    <3>3. QED
      BY <1>2, <3>2 DEF OnShow
  <2>5. QED
    BY <2>3, <2>4
<1>3. CASE o \in Tab
  <2>1. r \in {[pane |-> q, own |-> row.front] : q \in PaneOf(row.host)}
    BY <1>1, <1>3, TabIsFound DEF RunningIn
  <2>2. row.front /\ pn \in PaneOf(row.host)
    BY <1>1, <2>1
  <2>3. row.host \in Proc /\ runsIn[row.host] = pn /\ row.host # NoOne
    BY <2>2, PaneConstants DEF PaneOf, Alive, Proc
  <2>4. o \notin Own
    BY <1>3, PaneConstants
  <2>5. row.host \in Host /\ front[row.host] = o
    BY <2>2, <2>3, <2>4 DEF RowRight
  <2>6. row.host \in In(pn) \cap Host
    BY <2>3, <2>5 DEF In
  <2>7. QED
    BY <2>5, <2>6 DEF OnShow
<1>4. QED
  BY <1>2, <1>3 DEF AnySession

-------------------------------------------------------------------------------
\* The listing is right about what was reported as it is.
LEMMA UpToDateIsRight ==
  ASSUME SceneOK, RecordOK, NEW rows \in Listings, NEW o \in AnySession, UpToDate(o)
  PROVE  RowRight(rows[o], o)
<1>1. PICK pick \in {f \in [AnySession -> UNION {HostOf(s) : s \in AnySession}] :
                       \A s \in AnySession : f[s] \in HostOf(s)} :
        rows = [s \in AnySession |-> ListedRow(s, pick[s])]
  BY DEF Listings
<1> DEFINE h == pick[o]
           row == rows[o]
<1>2. h \in HostOf(o) /\ h \in Host \cup {NoOne}
  BY <1>1 DEF HostOf, ShownBy, TabbedBy
<1>3. row = ListedRow(o, h)
  BY <1>1
<1>4. /\ row.pid = IF o \in Own THEN heard[o] ELSE Server
      /\ row.host = h /\ row.tabbed = (o \in Tab)
      /\ row.front = (h # NoOne /\ told[h].front = o)
  BY <1>3 DEF ListedRow
<1> HIDE DEF h, row
<1>5. CASE o \in Own
  <2>1. TabbedBy(o) = {}
    BY <1>5, PaneConstants DEF TabbedBy, RecordOK
  <2>2. h = NoOne
    BY <1>2, <2>1 DEF HostOf, ShownBy
  <2>3. o \notin Tab /\ heard[o] = agentOf[o]
    BY <1>5, PaneConstants DEF UpToDate
  <2>4. QED
    BY <1>4, <1>5, <2>2, <2>3 DEF RowRight, row
<1>6. CASE o \in Tab
  <2>1. o \notin Own
    BY <1>6, PaneConstants
  <2>2. \A g \in Host : /\ (o \in told[g].tabs) = (o \in tabs[g])
                        /\ (told[g].front = o) = (front[g] = o)
    BY <2>1 DEF UpToDate
  <2>3. h # NoOne => h \in TabbedBy(o)
    BY <1>2 DEF HostOf, ShownBy
  <2>4. h = NoOne => TabbedBy(o) = {}
    BY <1>2, PaneConstants DEF HostOf, ShownBy, TabbedBy
  <2>5. h = NoOne => \A g \in Host : o \notin tabs[g]
    BY <2>2, <2>4 DEF TabbedBy, Alive, SceneOK, Proc
  <2>6. h # NoOne => h \in Host /\ Alive(h) /\ o \in tabs[h]
    BY <2>2, <2>3 DEF TabbedBy
  <2>7. row.front => front[h] = o
    BY <1>4, <2>2, <2>6
  <2>8. QED
    BY <1>4, <1>6, <2>1, <2>5, <2>6, <2>7 DEF RowRight, row
<1>7. QED
  BY <1>5, <1>6 DEF AnySession

\* A session that stays in its place keeps what was known of it.
LEMMA PlaceTells ==
  ASSUME SceneOK, SceneOK', NEW o \in AnySession, Place(o)' = Place(o)
  PROVE  /\ o \in Own => /\ agentOf'[o] = agentOf[o]
                         /\ agentOf[o] \in Proc => runsIn'[agentOf[o]] = runsIn[agentOf[o]]
         /\ o \in Tab => \A h \in Host : /\ (o \in tabs'[h]) = (o \in tabs[h])
                                         /\ (front'[h] = o) = (front[h] = o)
                                         /\ runsIn'[h] = runsIn[h]
<1>1. CASE o \in Own
  <2> DEFINE F == [h \in {agentOf[o]} |-> IF h \in Proc THEN runsIn[h] ELSE Dead]
             G == [h \in {agentOf'[o]} |-> IF h \in Proc THEN runsIn'[h] ELSE Dead]
  <2>1. F = G
    BY <1>1 DEF Place
  <2>2. DOMAIN F = {agentOf[o]} /\ DOMAIN G = {agentOf'[o]}
    OBVIOUS
  <2>3. agentOf'[o] = agentOf[o]
    BY <2>1, <2>2
  <2>4. F[agentOf[o]] = G[agentOf[o]]
    BY <2>1
  <2>5. agentOf[o] \in Proc => runsIn'[agentOf[o]] = runsIn[agentOf[o]]
    BY <2>3, <2>4
  <2>6. o \notin Tab
    BY <1>1, PaneConstants
  <2>7. QED
    BY <2>3, <2>5, <2>6
<1>2. CASE o \in Tab
  <2>1. o \notin Own
    BY <1>2, PaneConstants
  <2> DEFINE F == [h \in Host |-> <<o \in tabs[h], front[h] = o, runsIn[h]>>]
             G == [h \in Host |-> <<o \in tabs'[h], front'[h] = o, runsIn'[h]>>]
  <2>2. F = G
    BY <2>1 DEF Place
  <2>3. \A h \in Host : F[h] = G[h]
    BY <2>2
  <2>4. ASSUME NEW h \in Host
        PROVE  <<o \in tabs[h], front[h] = o, runsIn[h]>> = <<o \in tabs'[h], front'[h] = o, runsIn'[h]>>
    BY <2>3
  <2>5. QED
    BY <2>1, <2>4
<1>3. QED
  BY <1>1, <1>2 DEF AnySession

-------------------------------------------------------------------------------
\* What agents and users do leaves the scene well formed.
Happens ==
  \/ \E s \in Own, p \in Agent : SwitchTo(s, p) \/ \E at \in TmuxPane \cup {Away} : Start(s, p, at)
  \/ \E h \in Host : \E at \in TmuxPane : StartHost(h, at)
  \/ \E h \in Host, s \in Tab : ShowTab(h, s) \/ CloseTab(h, s)
  \/ \E p \in Proc : Exit(p)

LEMMA StoppedKeepsScene ==
  ASSUME SceneOK, NEW dead, Stopped(dead)
  PROVE  SceneOK'
BY PaneConstants DEF Stopped, SceneOK, Proc

LEMMA HappensKeepsScene ==
  ASSUME SceneOK, Happens
  PROVE  SceneOK'
<1>1. ASSUME NEW s \in Own, NEW p \in Agent, SwitchTo(s, p)
      PROVE  SceneOK'
  BY <1>1 DEF SwitchTo, SceneOK
<1>2. ASSUME NEW s \in Own, NEW p \in Agent, NEW at \in TmuxPane \cup {Away}, Start(s, p, at)
      PROVE  SceneOK'
  <2>1. /\ runsIn' = [runsIn EXCEPT ![p] = at] /\ agentOf' = [agentOf EXCEPT ![s] = p]
        /\ UNCHANGED <<tabs, front>>
    BY <1>2 DEF Start
  <2>2. p \in Proc /\ p \notin Host
    BY PaneConstants DEF Proc
  <2>3. runsIn' \in [Proc -> TmuxPane \cup {Away, Dead}] /\ agentOf' \in [Own -> Agent \cup {NoOne}]
    BY <2>1, <2>2 DEF SceneOK
  <2>4. \A h \in Host : runsIn'[h] = runsIn[h]
    BY <2>1, <2>2 DEF SceneOK, Proc
  <2>5. QED
    BY <2>1, <2>3, <2>4 DEF SceneOK
<1>3. ASSUME NEW h \in Host, NEW at \in TmuxPane, StartHost(h, at)
      PROVE  SceneOK'
  <2>1. PICK srv \in IF runsIn[Server] = Dead THEN {at, Away} ELSE {runsIn[Server]} :
          runsIn' = [runsIn EXCEPT ![h] = at, ![Server] = srv]
    BY <1>3 DEF StartHost
  <2>2. UNCHANGED <<agentOf, tabs, front>>
    BY <1>3 DEF StartHost
  <2>3. Server \in Proc /\ h \in Proc /\ Server \notin Host
    BY PaneConstants DEF Proc
  <2>4. srv \in TmuxPane \cup {Away, Dead}
    BY <2>3 DEF SceneOK
  <2>5. runsIn' \in [Proc -> TmuxPane \cup {Away, Dead}]
    BY <2>1, <2>4 DEF SceneOK
  <2>6. \A g \in Host : runsIn'[g] = IF g = h THEN at ELSE runsIn[g]
    BY <2>1, <2>3 DEF SceneOK, Proc
  <2>7. at # Dead
    BY PaneConstants DEF TmuxPane, Dead
  <2>8. QED
    BY <2>2, <2>5, <2>6, <2>7 DEF SceneOK
<1>4. ASSUME NEW h \in Host, NEW s \in Tab, ShowTab(h, s) \/ CloseTab(h, s)
      PROVE  SceneOK'
  <2>1. runsIn' = runsIn /\ agentOf' = agentOf
    BY <1>4 DEF ShowTab, CloseTab
  <2>2. CASE ShowTab(h, s)
    <3>1. /\ tabs' = [tabs EXCEPT ![h] = @ \cup {s}] /\ front' = [front EXCEPT ![h] = s]
          /\ runsIn[h] # Dead
      BY <2>2 DEF ShowTab, Alive
    <3>2. QED
      BY <2>1, <3>1 DEF SceneOK
  <2>3. CASE CloseTab(h, s)
    <3>1. /\ tabs' = [tabs EXCEPT ![h] = @ \ {s}]
          /\ front' = [front EXCEPT ![h] = IF @ = s THEN NoOne ELSE @]
      BY <2>3 DEF CloseTab
    <3>2. QED
      BY <2>1, <3>1 DEF SceneOK
  <2>4. QED
    BY <1>4, <2>2, <2>3
<1>5. ASSUME NEW p \in Proc, Exit(p)
      PROVE  SceneOK'
  BY <1>5, StoppedKeepsScene DEF Exit
<1>6. QED
  BY <1>1, <1>2, <1>3, <1>4, <1>5 DEF Happens

\* While the command is on its way the scene changes: it goes on knowing what it needs.
LEMMA HappensKeepsCmd ==
  ASSUME SceneOK, CmdOK, SceneOK',
         settled' = {s \in settled : Place(s)' = Place(s)}, UNCHANGED cmd
  PROVE  CmdOK'
<1>1. settled' \subseteq settled /\ settled \subseteq AnySession
  BY DEF CmdOK
<1>2. ASSUME NEW o \in settled'
      PROVE  /\ o \in AnySession
             /\ o \in Own => /\ agentOf'[o] = agentOf[o]
                             /\ agentOf[o] \in Proc => runsIn'[agentOf[o]] = runsIn[agentOf[o]]
             /\ o \in Tab => \A h \in Host : /\ (o \in tabs'[h]) = (o \in tabs[h])
                                             /\ (front'[h] = o) = (front[h] = o)
                                             /\ runsIn'[h] = runsIn[h]
  BY <1>1, PlaceTells
<1>3. ASSUME cmd.step = "listed", NEW o \in settled'
      PROVE  RowRight(cmd.rows[o], o)'
  <2>1. RowRight(cmd.rows[o], o)
    BY <1>1, <1>3 DEF CmdOK
  <2>2. CASE o \in Own
    BY <1>2, <2>1, <2>2 DEF RowRight
  <2>3. CASE o \in Tab
    <3>1. o \notin Own
      BY <2>3, PaneConstants
    <3>2. \A h \in Host : Alive(h)' = Alive(h)
      BY <1>2, <2>3 DEF Alive
    <3>3. QED
      BY <1>2, <2>1, <2>3, <3>1, <3>2 DEF RowRight
  <2>4. QED
    BY <1>2, <2>2, <2>3 DEF AnySession
<1>4. ASSUME NEW o \in settled', NEW pn
      PROVE  /\ (o \in Carried(pn)) = (o \in Carried(pn)')
             /\ (o \in OnShow(pn)) = (o \in OnShow(pn)')
  <2>1. CASE o \in Own
    <3>1. (agentOf[o] \in In(pn)) = (agentOf'[o] \in In(pn)')
      BY <1>2, <2>1 DEF In
    <3>2. /\ o \in Carried(pn) <=> agentOf[o] \in In(pn)
          /\ o \in Carried(pn)' <=> agentOf'[o] \in In(pn)'
          /\ o \in OnShow(pn) <=> agentOf[o] \in In(pn)
          /\ o \in OnShow(pn)' <=> agentOf'[o] \in In(pn)'
      BY <2>1, PaneConstants DEF Carried, OnShow, SceneOK
    <3>3. QED
      BY <3>1, <3>2
  <2>2. CASE o \in Tab
    <3>1. o \notin Own
      BY <2>2, PaneConstants
    <3>2. \A h \in Host : (h \in In(pn)) = (h \in In(pn)')
      BY <1>2, <2>2 DEF In
    <3>3. /\ o \in Carried(pn) <=> \E h \in Host : h \in In(pn) /\ o \in tabs[h]
          /\ o \in Carried(pn)' <=> \E h \in Host : h \in In(pn)' /\ o \in tabs'[h]
          /\ o \in OnShow(pn) <=> \E h \in Host : h \in In(pn) /\ front[h] = o
          /\ o \in OnShow(pn)' <=> \E h \in Host : h \in In(pn)' /\ front'[h] = o
      BY <3>1 DEF Carried, OnShow
    <3>4. QED
      BY <1>2, <2>2, <3>2, <3>3
  <2>3. QED
    BY <1>2, <2>1, <2>2 DEF AnySession
<1>5. ASSUME NEW o \in settled', NEW pn, Spared(o, pn)
      PROVE  Spared(o, pn)'
  BY <1>2, <1>4, <1>5 DEF Spared
<1>6. QED
  BY <1>1, <1>2, <1>3, <1>4, <1>5 DEF CmdOK

\* The commands.
LEMMA LookKeepsCmd ==
  ASSUME SceneOK, CmdOK, Look
  PROVE  CmdOK'
<1>1. cmd.step = "listed" /\ cmd.on \in AnySession /\ settled \subseteq AnySession
      /\ \A o \in settled : RowRight(cmd.rows[o], o)
  BY DEF Look, CmdOK
<1>2. CASE Return
  BY <1>2 DEF Return, NoCmd, CmdOK
<1>3. ASSUME NEW pn \in Target,
             cmd' = [step |-> "found", kind |-> cmd.kind, on |-> cmd.on, force |-> cmd.force,
                     pane |-> pn],
             UNCHANGED settled
      PROVE  CmdOK'
  <2>1. UNCHANGED <<runsIn, agentOf, tabs, front>>
    BY DEF Look, scene
  <2>2. cmd.kind = "send" => pn \in ShowingIn(cmd.rows[cmd.on])
    BY <1>3 DEF Target
  <2>3. cmd.kind = "stop" /\ ~cmd.force => Others(cmd.rows, cmd.on, pn) = {}
    BY <1>3 DEF Target
  <2>4. cmd.kind = "stop" => pn \in ShowingIn(cmd.rows[cmd.on])
    BY <1>3 DEF Target
  <2>5. ASSUME cmd.kind = "stop", ~cmd.force, NEW o \in settled \ {cmd.on}
        PROVE  Spared(o, pn)
    <3>1. pn \in TmuxPane
      BY <2>4, <2>5, ShowsInPanes
    <3>2. QED
      BY <1>1, <2>3, <2>5, <3>1, OthersAreSpared
  <2>6. ASSUME cmd.kind = "send", cmd.on \in settled
        PROVE  cmd.on \in OnShow(pn)
    BY <1>1, <2>2, <2>6, FoundIsOnShow
  <2>7. \A o : Spared(o, pn) => Spared(o, pn)'
    BY <2>1 DEF Spared, Carried, In
  <2>8. OnShow(pn)' = OnShow(pn)
    BY <2>1 DEF OnShow, In
  <2>9. QED
    BY <1>1, <1>3, <2>5, <2>6, <2>7, <2>8 DEF CmdOK
<1>4. QED
  BY <1>2, <1>3 DEF Look

LEMMA CommandsKeep ==
  ASSUME PaneInv,
         \/ \E s \in AnySession, force \in BOOLEAN, kind \in {"send", "stop", "attach"} :
              Ask(kind, s, force)
         \/ Look \/ Kill \/ Decline \/ TypeText \/ Enter \/ AttachTo
  PROVE  PaneInv'
<1>1. SceneOK /\ RecordOK /\ CmdOK
  BY DEF PaneInv
<1>2. UNCHANGED <<heard, told>>
  BY DEF Ask, Look, Kill, Decline, TypeText, Enter, AttachTo, record
<1>3. RecordOK'
  BY <1>1, <1>2 DEF RecordOK
<1>4. CASE Kill
  <2>1. SceneOK'
    BY <1>1, <1>4, StoppedKeepsScene DEF Kill
  <2>2. CmdOK'
    BY <1>4 DEF Kill, Return, NoCmd, CmdOK
  <2>3. QED
    BY <1>3, <2>1, <2>2 DEF PaneInv
<1>5. ASSUME UNCHANGED <<runsIn, agentOf, tabs, front>>
      PROVE  SceneOK'
  BY <1>1, <1>5 DEF SceneOK
<1>6. CASE Look
  BY <1>1, <1>3, <1>5, <1>6, LookKeepsCmd DEF Look, scene, PaneInv
<1>7. CASE Decline \/ Enter \/ AttachTo
  <2>1. CmdOK'
    BY <1>7 DEF Decline, Enter, AttachTo, Return, NoCmd, CmdOK
  <2>2. SceneOK'
    BY <1>5, <1>7 DEF Decline, Enter, AttachTo, scene
  <2>3. QED
    BY <1>3, <2>1, <2>2 DEF PaneInv
<1>8. CASE TypeText
  <2>1. CmdOK'
    BY <1>1, <1>8 DEF TypeText, CmdOK
  <2>2. SceneOK'
    BY <1>5, <1>8 DEF TypeText, scene
  <2>3. QED
    BY <1>3, <2>1, <2>2 DEF PaneInv
<1>9. ASSUME NEW s \in AnySession, NEW force \in BOOLEAN, NEW kind \in {"send", "stop", "attach"},
             Ask(kind, s, force)
      PROVE  PaneInv'
  <2>1. PICK rows \in Listings :
          cmd' = [step |-> "listed", kind |-> kind, on |-> s, force |-> force, rows |-> rows]
    BY <1>9 DEF Ask
  <2>2. settled' = {o \in AnySession : UpToDate(o)} /\ UNCHANGED <<runsIn, agentOf, tabs, front>>
    BY <1>9 DEF Ask, scene
  <2>3. \A o \in settled' : RowRight(rows[o], o)
    BY <1>1, <2>2, UpToDateIsRight
  <2>4. \A o, row : RowRight(row, o) => RowRight(row, o)'
    BY <2>2 DEF RowRight, Alive
  <2>5. CmdOK'
    BY <2>1, <2>2, <2>3, <2>4 DEF CmdOK
  <2>6. QED
    BY <1>3, <1>5, <2>2, <2>5 DEF PaneInv
<1>10. QED
  BY <1>4, <1>6, <1>7, <1>8, <1>9

LEMMA ReportsKeep ==
  ASSUME PaneInv,
         \/ \E h \in Host : HostReports(h)
         \/ \E s \in Own : HookArrives(s)
         \/ UNCHANGED paneVars
  PROVE  PaneInv'
<1>1. UNCHANGED <<runsIn, agentOf, tabs, front, cmd, settled>>
  BY DEF HostReports, HookArrives, scene, paneVars
<1>2. SceneOK /\ RecordOK /\ CmdOK
  BY DEF PaneInv
<1>3. SceneOK'
  BY <1>1, <1>2 DEF SceneOK
<1>4. CmdOK'
  <2>1. \A o, row : RowRight(row, o)' = RowRight(row, o)
    BY <1>1 DEF RowRight, Alive
  <2>2. \A o, pn : Spared(o, pn)' = Spared(o, pn)
    BY <1>1 DEF Spared, Carried, In
  <2>3. \A pn : OnShow(pn)' = OnShow(pn)
    BY <1>1 DEF OnShow, In
  <2>4. QED
    BY <1>1, <1>2, <2>1, <2>2, <2>3 DEF CmdOK
<1>5. RecordOK'
  BY <1>2 DEF RecordOK, SceneOK, HostReports, HookArrives, paneVars, record
<1>6. QED
  BY <1>3, <1>4, <1>5 DEF PaneInv

LEMMA PaneInvInit ==
  PaneInit => PaneInv
BY DEF PaneInit, PaneInv, SceneOK, RecordOK, CmdOK, NoCmd

LEMMA PaneInvNext ==
  PaneInv /\ [PaneNext]_paneVars => PaneInv'
<1> SUFFICES ASSUME PaneInv, [PaneNext]_paneVars PROVE PaneInv'
  OBVIOUS
<1>1. CASE Happens
  <2>1. settled' = {s \in settled : Place(s)' = Place(s)} /\ UNCHANGED <<heard, told, cmd>>
    BY <1>1 DEF Happens, SwitchTo, Start, StartHost, ShowTab, CloseTab, Exit, Step, record
  <2>2. SceneOK'
    BY <1>1, HappensKeepsScene DEF PaneInv
  <2>3. CmdOK'
    BY <2>1, <2>2, HappensKeepsCmd DEF PaneInv
  <2>4. QED
    BY <2>1, <2>2, <2>3 DEF PaneInv, RecordOK
<1>2. QED
  BY <1>1, CommandsKeep, ReportsKeep DEF PaneNext, Happens

\* A command does to a pane what it was asked to do to its session.
THEOREM PaneInvariant == PaneSpec => []PaneInv
BY PaneInvInit, PaneInvNext, PTL DEF PaneSpec

THEOREM CommandsAlwaysHitTheirSession == PaneSpec => CommandsHitTheirSession
<1> DEFINE Hits ==
      /\ Kill /\ ~cmd.force =>
           \A o \in settled \ {cmd.on} :
             o \in Carried(cmd.pane) => o \in Tab /\ \E h \in Host : runsIn[h] # cmd.pane /\ o \in tabs[h]
      /\ TypeText /\ cmd.on \in settled => cmd.on \in OnShow(cmd.pane)
<1>1. ASSUME PaneInv
      PROVE  Hits
  BY <1>1 DEF PaneInv, CmdOK, Spared, Kill, TypeText
<1>2. ASSUME PaneInv, [PaneNext]_paneVars
      PROVE  [Hits]_paneVars
  BY <1>1, <1>2
<1>3. QED
  BY <1>2, PaneInvariant, PTL DEF PaneSpec, CommandsHitTheirSession

-------------------------------------------------------------------------------
(***************************************************************************)
(* The reader of a log, for any rows, sizes and limits.                    *)
(*                                                                         *)
(* A log is rows, one after the other.  A reader whose checkpoint is in    *)
(* the log has read it from some block on, in the middle of a row unless   *)
(* that is the first: it keeps the line it is in, lists the newest row     *)
(* that it saw from the start, and without the note on omitted records     *)
(* lists all of them.  One that has read what was cut holds a row in its   *)
(* checkpoint that the log will not have again, and starts over.           *)
(***************************************************************************)
Block == [row : Nat \ {0}, key : Message \cup {Marker, Bad, Corrupt}, at : Nat \ {0},
          size : Nat \ {0}]

Entry == [key : Message, row : Nat \ {0}]

\* Rows are written one after the other, block by block.
Rows(B) ==
  /\ B \in Seq(Block)
  /\ \A i \in DOMAIN B : B[i].at <= B[i].size
  /\ B # <<>> => B[1].at = 1
  /\ \A i \in 2 .. Len(B) :
       IF Ends(B[i - 1]) THEN B[i].at = 1
       ELSE /\ B[i].at = B[i - 1].at + 1 /\ B[i].row = B[i - 1].row
            /\ B[i].key = B[i - 1].key /\ B[i].size = B[i - 1].size

LogFile(id, blocks, writes) == [id |-> id, blocks |-> blocks, writes |-> writes]

LogOK ==
  /\ log = LogFile(log.id, log.blocks, log.writes)
  /\ log.id \in Nat /\ log.writes \in Nat /\ rowsOut \in Nat
  /\ Rows(log.blocks)
  /\ \A i \in DOMAIN log.blocks : log.blocks[i].row <= rowsOut

OpenFile == [id : Nat, len : Nat, modified : Nat, at : {"closed", "checkpoint", "bytes", "sign"},
             rest : Seq(Block), cut : BOOLEAN]

OpenedOK ==
  /\ opened \in OpenFile
  /\ opened.id <= log.id
  /\ opened.id = log.id /\ ~opened.cut => opened.len <= Len(log.blocks)

\* What the first n blocks say.
Upto(B, n) == FoldLeft(AddRow, <<>>, SubSeq(B, 1, n))

\* A frame that cannot be decoded is not given to the reader.
Lost(b)  == compressed /\ b.key = Corrupt
Given(b) == Ends(b) /\ ~Lost(b)

Reader(of, pe, sk, en, ch, mo, id, om, to) ==
  [offset |-> of, pending |-> pe, skipping |-> sk, entries |-> en, checkpoint |-> ch,
   modified |-> mo, identity |-> id, omitted |-> om, torn |-> to]

IsReader(r) == r = Reader(r.offset, r.pending, r.skipping, r.entries, r.checkpoint,
                          r.modified, r.identity, r.omitted, r.torn)

\* After n blocks, from the S-th on: no row was given that ends; the last one, given
\* or not, ended at e.
NoEnd(B, S, n) == S > 0 /\ \A k \in S + 1 .. n : ~Given(B[k])

LastEnd(B, S, n, e) ==
  /\ e \in S .. n
  /\ e = 0 \/ (e > S /\ Ends(B[e]))
  /\ \A k \in e + 1 .. n : ~Ends(B[k])

\* The row that ends at i began where the reader could tell: after another.
Told(B, S, i) == S = 0 \/ \E k \in S + 1 .. i - B[i].size : Given(B[k])

\* The line that is being read is kept as long as it is not too long.
Line(r, B, n, e) ==
  IF n - e <= RecordLimit THEN ~r.skipping /\ r.pending = SubSeq(B, e + 1, n) ELSE r.skipping

LineKept(r, B, n, e) ==
  IF n > e /\ Lost(B[n]) THEN ~r.skipping /\ r.pending = <<>> ELSE Line(r, B, n, e)

Shown(r, row) == \E x \in DOMAIN r.entries : r.entries[x].row = row

Newest(B, S, n, i) == i \in S + 1 .. n /\ Given(B[i]) /\ \A k \in i + 1 .. n : ~Given(B[k])

NewestShown(r, B, S, n) ==
  \A i \in 1 .. n :
    Newest(B, S, n, i) /\ B[i].key \in Message /\ B[i].size <= RecordLimit /\ Told(B, S, i)
      => Shown(r, B[i].row)

\* No row among the first n blocks was malformed.
Clean(B, n) ==
  \A k \in 1 .. n : Ends(B[k]) => B[k].key # Bad /\ (B[k].key = Corrupt => compressed)

\* A reader that began to read after the first S blocks, in the middle of a row if
\* there are any, and has read n.
ReadTo(r, B, S, n) ==
  /\ r.skipping \in BOOLEAN /\ (r.skipping => r.omitted)
  /\ r.entries \in Seq(Entry) /\ Len(r.entries) <= EntryLimit
  /\ \/ NoEnd(B, S, n) /\ r.skipping
     \/ \E e \in S .. n : LastEnd(B, S, n, e) /\ LineKept(r, B, n, e)
  /\ NewestShown(r, B, S, n)
  /\ ~r.omitted => S = 0 /\ r.entries = Upto(B, n) /\ Clean(B, n)

\* It jumped to J; S is the start of the first frame from there on.
BeganAt(B, J, S) ==
  /\ J \in Nat /\ S \in Nat /\ J <= S
  /\ IF S = 0 THEN J = 0 ELSE J > 0 /\ J + ReadLimit <= Len(B)
  /\ IF compressed THEN \A i \in J + 1 .. S : B[i].at # 1 ELSE J = S

\* What it has read of B, from the S-th block on.
HasRead(r, B, J, S) ==
  /\ BeganAt(B, J, S) /\ S <= r.offset
  /\ compressed => r.offset = S \/ Ends(B[r.offset])
  /\ ReadTo(r, B, S, r.offset)

Reads(r, B) == r.offset \in 0 .. Len(B) /\ \E J, S \in Nat : HasRead(r, B, J, S)

Agrees(r, B) == Reads(r, B) /\ r.checkpoint = Check(B, r.offset)

\* A reader of what the file held before it was cut: its checkpoint has a row that
\* will never be written again.
Outdated(r) ==
  \E i \in DOMAIN r.checkpoint :
    /\ r.checkpoint[i].row \in 0 .. rowsOut
    /\ \A j \in DOMAIN log.blocks : log.blocks[j].row # r.checkpoint[i].row

\* The checkpoint has been compared, and there is no new one yet.
Within == At("bytes") \/ At("sign")

TailOK ==
  /\ IsReader(tail) /\ tail.offset \in Nat
  /\ tail = FreshReader \/ tail.identity \in 0 .. log.id
  /\ Within => tail.identity = opened.id
  /\ tail.identity = log.id /\ ~tail.torn =>
       IF Within THEN Reads(tail, log.blocks) ELSE Agrees(tail, log.blocks) \/ Outdated(tail)

LogInv == compressed \in BOOLEAN /\ LogOK /\ OpenedOK /\ TailOK
Feeds == INSTANCE FoldLemmas WITH Op <- FeedText
Adds  == INSTANCE FoldLemmas WITH Op <- AddRow

\* A set of places has a first and a last.
LEMMA FirstPlace ==
  ASSUME NEW n \in Nat, NEW P \in SUBSET (1 .. n), P # {}
  PROVE  Min(P) \in P /\ \A i \in P : Min(P) <= i
<1>1. \E x \in P : \A y \in P : x <= y
  BY Adds!SomeFirst
<1>2. QED
  BY <1>1 DEF Min

LEMMA LastPlace ==
  ASSUME NEW n \in Nat, NEW P \in SUBSET (1 .. n), P # {}
  PROVE  Max(P) \in P /\ \A i \in P : i <= Max(P)
<1>1. \E x \in P : \A y \in P : x >= y
  BY Adds!SomeLast
<1>2. \A x, y \in P : x >= y <=> y <= x
  OBVIOUS
<1>3. QED
  BY <1>1, <1>2 DEF Max

\* Where the row of a block begins.
RowStart(B, j) == j - B[j].at + 1

LEMMA RowsOfBlocks ==
  ASSUME NEW B, Rows(B), NEW j \in 1 .. Len(B)
  PROVE  /\ B[j] \in Block /\ B[j].at <= B[j].size
         /\ RowStart(B, j) \in 1 .. j
         /\ RowStart(B, j) # 1 => Ends(B[RowStart(B, j) - 1])
         /\ \A k \in RowStart(B, j) .. j :
              /\ B[k].row = B[j].row /\ B[k].key = B[j].key /\ B[k].size = B[j].size
              /\ B[k].at = k - RowStart(B, j) + 1
         /\ \A k \in RowStart(B, j) .. j - 1 : ~Ends(B[k])
<1> DEFINE InOrder(i) ==
             /\ RowStart(B, i) \in 1 .. i
             /\ RowStart(B, i) # 1 => Ends(B[RowStart(B, i) - 1])
             /\ \A k \in RowStart(B, i) .. i :
                  /\ B[k].row = B[i].row /\ B[k].key = B[i].key /\ B[k].size = B[i].size
                  /\ B[k].at = k - RowStart(B, i) + 1
           T == {i \in Nat : i > 0 => InOrder(i)}
<1>1. /\ B \in Seq(Block) /\ Len(B) \in Nat /\ DOMAIN B = 1 .. Len(B)
      /\ \A i \in 1 .. Len(B) : B[i] \in Block /\ B[i].at <= B[i].size
  BY DEF Rows
<1>2. \A i \in 1 .. Len(B) : B[i].at \in Nat \ {0} /\ B[i].size \in Nat \ {0}
  BY <1>1 DEF Block
<1>3. 0 \in T
  OBVIOUS
<1>4. ASSUME NEW i \in 1 .. Len(B), i - 1 \in T
      PROVE  i \in T
  <2>1. CASE B[i].at = 1
    <3>1. RowStart(B, i) = i
      BY <1>1, <2>1 DEF RowStart
    <3>2. i # 1 => Ends(B[i - 1])
      <4>1. SUFFICES ASSUME i # 1, ~Ends(B[i - 1]) PROVE FALSE
        OBVIOUS
      <4>2. i \in 2 .. Len(B) /\ i - 1 \in 1 .. Len(B)
        BY <1>1, <4>1
      <4>3. B[i].at = B[i - 1].at + 1
        BY <4>1, <4>2 DEF Rows
      <4>4. QED
        BY <1>2, <2>1, <4>2, <4>3
    <3>3. QED
      BY <1>1, <2>1, <3>1, <3>2
  <2>2. CASE B[i].at # 1
    <3>1. i \in 2 .. Len(B)
      <4>1. i # 1
        BY <1>1, <2>2 DEF Rows
      <4>2. QED
        BY <1>1, <4>1
    <3>2. /\ B[i].at = B[i - 1].at + 1 /\ B[i].row = B[i - 1].row
          /\ B[i].key = B[i - 1].key /\ B[i].size = B[i - 1].size
      BY <2>2, <3>1 DEF Rows
    <3>3. i - 1 \in 1 .. Len(B) /\ InOrder(i - 1)
      BY <1>1, <1>4, <3>1
    <3>4. RowStart(B, i) = RowStart(B, i - 1)
      <4>1. B[i - 1].at \in Nat /\ i \in Nat
        BY <1>2, <3>3
      <4>2. B[i].at = B[i - 1].at + 1
        BY <3>2
      <4> HIDE <2>2
      <4>3. QED
        BY <4>1, <4>2 DEF RowStart
    <3>5. RowStart(B, i) \in 1 .. i /\ B[i].at = i - RowStart(B, i) + 1
      <4>1. RowStart(B, i) \in 1 .. i
        BY <1>1, <3>1, <3>3, <3>4
      <4>2. QED
        BY <1>2, <4>1 DEF RowStart
    <3>6. ASSUME NEW k \in RowStart(B, i) .. i
          PROVE  /\ B[k].row = B[i].row /\ B[k].key = B[i].key /\ B[k].size = B[i].size
                 /\ B[k].at = k - RowStart(B, i) + 1
      <4>1. CASE k = i
        BY <3>5, <4>1
      <4>2. CASE k # i
        <5>1. k \in RowStart(B, i - 1) .. i - 1
          BY <3>4, <3>5, <4>2
        <5>2. QED
          BY <3>2, <3>3, <3>4, <5>1
      <4>3. QED
        BY <4>1, <4>2
    <3>7. QED
      BY <1>1, <3>3, <3>4, <3>5, <3>6
  <2>3. QED
    BY <2>1, <2>2
<1> HIDE DEF T
<1>5. j \in T
  <2>1. 0 .. Len(B) \subseteq T
    BY <1>1, <1>3, <1>4, Adds!UpToFollows
  <2>2. QED
    BY <1>1, <2>1
<1>6. InOrder(j)
  BY <1>5 DEF T
<1>7. ASSUME NEW k \in RowStart(B, j) .. j - 1
      PROVE  ~Ends(B[k])
  <2>1. B[k].at = k - RowStart(B, j) + 1 /\ B[k].size = B[j].size
        /\ B[j].at = j - RowStart(B, j) + 1
    BY <1>6
  <2>2. B[k].at < B[j].at /\ B[j].at <= B[k].size
    BY <1>1, <1>2, <1>6, <2>1
  <2>3. QED
    BY <1>1, <1>2, <2>1, <2>2 DEF Ends
<1>8. QED
  BY <1>1, <1>6, <1>7
\* What the blocks say changes where a row of a message ends.
LEMMA UptoSteps ==
  ASSUME NEW B \in Seq(Block)
  PROVE  /\ Upto(B, 0) = <<>>
         /\ \A k \in 1 .. Len(B) : Upto(B, k) = AddRow(Upto(B, k - 1), B[k])
<1> DEFINE fold(s) == FoldLeft(AddRow, <<>>, s)
<1>1. \A s \in Seq(Block) : Adds!Folded(<<>>, s) = fold(s)
  BY DEF Adds!Folded, FoldLeft, Adds!FoldLeft, MapThenFoldSet, Adds!MapThenFoldSet,
         Max, Adds!Max
<1>2. \A n \in 0 .. Len(B) : /\ SubSeq(B, 1, n) \in Seq(Block) /\ Len(SubSeq(B, 1, n)) = n
                             /\ \A i \in 1 .. n : SubSeq(B, 1, n)[i] = B[i]
  OBVIOUS
<1> HIDE DEF fold
<1>3. ASSUME NEW n \in 0 .. Len(B)
      PROVE  \E g : /\ g[0] = <<>>
                    /\ \A k \in 1 .. n : g[k] = AddRow(g[k - 1], B[k])
                    /\ Upto(B, n) = g[n]
  <2> DEFINE s == SubSeq(B, 1, n)
  <2>1. s \in Seq(Block) /\ Len(s) = n /\ \A i \in 1 .. n : s[i] = B[i]
    BY <1>2
  <2>2. Upto(B, n) = Adds!Folded(<<>>, s)
    BY <1>1, <2>1 DEF Upto, fold
  <2> HIDE DEF s
  <2>3. \E g : /\ g[0] = <<>>
               /\ \A k \in 1 .. Len(s) : g[k] = AddRow(g[k - 1], s[k])
               /\ Adds!Folded(<<>>, s) = g[Len(s)]
    BY <2>1, Adds!FoldLeftSteps
  <2>4. QED
    BY <2>1, <2>2, <2>3
<1>4. Len(B) \in Nat
  OBVIOUS
<1>5. Upto(B, 0) = <<>>
  BY <1>3, <1>4
<1>6. ASSUME NEW k \in 1 .. Len(B)
      PROVE  Upto(B, k) = AddRow(Upto(B, k - 1), B[k])
  <2>1. k \in 0 .. Len(B) /\ k - 1 \in 0 .. Len(B) /\ k \in Nat \ {0}
    BY <1>4
  <2>2. PICK g : /\ g[0] = <<>>
                 /\ \A i \in 1 .. k : g[i] = AddRow(g[i - 1], B[i])
                 /\ Upto(B, k) = g[k]
    BY <1>3, <2>1
  <2>3. PICK h : /\ h[0] = <<>>
                 /\ \A i \in 1 .. k - 1 : h[i] = AddRow(h[i - 1], B[i])
                 /\ Upto(B, k - 1) = h[k - 1]
    BY <1>3, <2>1
  <2> DEFINE T == {i \in Nat : i <= k - 1 => g[i] = h[i]}
  <2>4. 0 \in T
    BY <2>2, <2>3
  <2>5. ASSUME NEW i \in 1 .. k - 1, i - 1 \in T
        PROVE  i \in T
    <3>1. g[i - 1] = h[i - 1]
      BY <2>1, <2>5
    <3>2. i \in 1 .. k
      BY <2>1
    <3>3. QED
      BY <2>2, <2>3, <3>1, <3>2
  <2> HIDE DEF T
  <2>6. 0 .. k - 1 \subseteq T
    <3>1. k - 1 \in Nat
      BY <2>1
    <3>2. QED
      BY <2>4, <2>5, <3>1, Adds!UpToFollows
  <2>7. g[k - 1] = h[k - 1]
    <3>1. k - 1 \in 0 .. k - 1 /\ k - 1 \in Nat /\ k - 1 <= k - 1
      BY <2>1
    <3>2. k - 1 \in T
      BY <2>6, <3>1
    <3>3. QED
      BY <3>1, <3>2 DEF T
  <2>8. QED
    BY <2>1, <2>2, <2>3, <2>7
<1>7. QED
  BY <1>5, <1>6

\* They say no more where no row ends.
LEMMA UptoStays ==
  ASSUME NEW B \in Seq(Block), NEW n \in 0 .. Len(B), NEW m \in n .. Len(B),
         \A i \in n + 1 .. m : ~(Ends(B[i]) /\ B[i].key \in Message)
  PROVE  Upto(B, m) = Upto(B, n)
<1> DEFINE T == {k \in Nat : n + k <= m => Upto(B, n + k) = Upto(B, n)}
<1>1. 0 \in T
  OBVIOUS
<1>2. ASSUME NEW k \in Nat, k \in T
      PROVE  k + 1 \in T
  <2>1. SUFFICES ASSUME n + (k + 1) <= m
                 PROVE  Upto(B, n + (k + 1)) = Upto(B, n)
    OBVIOUS
  <2>2. Upto(B, n + k) = Upto(B, n)
    BY <1>2, <2>1
  <2>3. /\ n + (k + 1) \in 1 .. Len(B) /\ n + (k + 1) \in n + 1 .. m
        /\ (n + (k + 1)) - 1 = n + k
    BY <2>1
  <2>4. Upto(B, n + (k + 1)) = AddRow(Upto(B, n + k), B[n + (k + 1)])
    BY <2>3, UptoSteps
  <2>5. ~(Ends(B[n + (k + 1)]) /\ B[n + (k + 1)].key \in Message)
    BY <2>3
  <2>6. QED
    BY <2>2, <2>4, <2>5 DEF AddRow
<1> HIDE DEF T
<1>3. Nat \subseteq T
  BY <1>1, <1>2, Adds!NumbersFollow
<1>4. m - n \in T /\ n + (m - n) = m /\ n + (m - n) <= m
  BY <1>3
<1>5. QED
  BY <1>4 DEF T

\* What comes after does not matter.
LEMMA UptoOfLonger ==
  ASSUME NEW B \in Seq(Block), NEW b \in Block, NEW n \in 0 .. Len(B)
  PROVE  Upto(Append(B, b), n) = Upto(B, n)
<1>1. SubSeq(Append(B, b), 1, n) = SubSeq(B, 1, n)
  OBVIOUS
<1>2. QED
  BY <1>1 DEF Upto
-------------------------------------------------------------------------------
\* What a block does to the reader, case by case.  (The backends take a record with
\* the truth for a field better when the truth has a name.)
Yes == TRUE
No  == FALSE
Cleared(r)   == [r EXCEPT !.pending = <<>>, !.skipping = No]
TooLong(r)   == [r EXCEPT !.pending = <<>>, !.skipping = Yes, !.omitted = Yes]
Longer(r, b) == [r EXCEPT !.pending = Append(@, b)]
Omits(r)     == [r EXCEPT !.omitted = Yes]
Lists(r, en) == [r EXCEPT !.entries = en]
EntryOf(b)   == [key |-> b.key, row |-> b.row]

LEMMA ReaderFields ==
  ASSUME NEW of, NEW pe, NEW sk, NEW en, NEW ch, NEW mo, NEW id, NEW om, NEW to,
         NEW r,
         r = Reader(of, pe, sk, en, ch, mo, id, om, to)
  PROVE  /\ IsReader(r) /\ r.offset = of /\ r.pending = pe /\ r.skipping = sk
         /\ r.entries = en /\ r.checkpoint = ch /\ r.modified = mo /\ r.identity = id
         /\ r.omitted = om /\ r.torn = to
  BY DEF IsReader, Reader

LEMMA ReaderChanges ==
  ASSUME NEW r, IsReader(r), NEW b, NEW en
  PROVE  /\ Cleared(r) = Reader(r.offset, <<>>, No, r.entries, r.checkpoint, r.modified,
                                r.identity, r.omitted, r.torn)
         /\ TooLong(r) = Reader(r.offset, <<>>, Yes, r.entries, r.checkpoint, r.modified,
                                r.identity, Yes, r.torn)
         /\ Longer(r, b) = Reader(r.offset, Append(r.pending, b), r.skipping, r.entries,
                                  r.checkpoint, r.modified, r.identity, r.omitted, r.torn)
         /\ Omits(r) = Reader(r.offset, r.pending, r.skipping, r.entries, r.checkpoint,
                              r.modified, r.identity, Yes, r.torn)
         /\ Lists(r, en) = Reader(r.offset, r.pending, r.skipping, en, r.checkpoint,
                                  r.modified, r.identity, r.omitted, r.torn)
<1> DEFINE p == [r EXCEPT !.pending = <<>>]
           q == [p EXCEPT !.skipping = Yes]
<1>1. r = Reader(r.offset, r.pending, r.skipping, r.entries, r.checkpoint, r.modified,
                 r.identity, r.omitted, r.torn)
  BY DEF IsReader
<1>2. p = Reader(r.offset, <<>>, r.skipping, r.entries, r.checkpoint, r.modified, r.identity,
                 r.omitted, r.torn)
  BY <1>1 DEF Reader
<1>3. q = Reader(r.offset, <<>>, Yes, r.entries, r.checkpoint, r.modified, r.identity,
                 r.omitted, r.torn)
  <2> HIDE DEF p
  <2>1. QED
    BY <1>2 DEF Reader
<1>4. Cleared(r) = [p EXCEPT !.skipping = No] /\ TooLong(r) = [q EXCEPT !.omitted = Yes]
  BY DEF Cleared, TooLong
<1>5. [p EXCEPT !.skipping = No]
        = Reader(r.offset, <<>>, No, r.entries, r.checkpoint, r.modified, r.identity, r.omitted, r.torn)
  <2> HIDE DEF p
  <2>1. QED
    BY <1>2 DEF Reader
<1>6. [q EXCEPT !.omitted = Yes]
        = Reader(r.offset, <<>>, Yes, r.entries, r.checkpoint, r.modified, r.identity, Yes, r.torn)
  <2> HIDE DEF q
  <2>1. QED
    BY <1>3 DEF Reader
<1>7. Longer(r, b) = Reader(r.offset, Append(r.pending, b), r.skipping, r.entries, r.checkpoint,
                            r.modified, r.identity, r.omitted, r.torn)
  BY <1>1 DEF Reader, Longer
<1>8. Omits(r) = Reader(r.offset, r.pending, r.skipping, r.entries, r.checkpoint, r.modified,
                        r.identity, Yes, r.torn)
  BY <1>1 DEF Reader, Omits
<1>9. Lists(r, en) = Reader(r.offset, r.pending, r.skipping, en, r.checkpoint, r.modified,
                            r.identity, r.omitted, r.torn)
  BY <1>1 DEF Reader, Lists
<1> HIDE DEF p, q
<1>10. QED
  BY <1>4, <1>5, <1>6, <1>7, <1>8, <1>9

LEMMA FeedCases ==
  ASSUME NEW r, IsReader(r), NEW b
  PROVE  /\ r.skipping /\ ~Ends(b) => Feed(r, b) = r
         /\ r.skipping /\ Ends(b) => Feed(r, b) = Cleared(r)
         /\ ~r.skipping /\ Len(r.pending) >= RecordLimit /\ ~Ends(b) => Feed(r, b) = TooLong(r)
         /\ ~r.skipping /\ Len(r.pending) >= RecordLimit /\ Ends(b)
              => Feed(r, b) = Cleared(TooLong(r))
         /\ ~r.skipping /\ ~(Len(r.pending) >= RecordLimit) /\ ~Ends(b)
              => Feed(r, b) = Longer(r, b)
         /\ ~r.skipping /\ ~(Len(r.pending) >= RecordLimit) /\ Ends(b)
              => Feed(r, b) = Cleared(Record(Longer(r, b)))
<1>1. TooLong(r).skipping = Yes /\ Longer(r, b).skipping = r.skipping
  <2>1. TooLong(r) = Reader(r.offset, <<>>, Yes, r.entries, r.checkpoint, r.modified,
                            r.identity, Yes, r.torn)
    BY ReaderChanges
  <2>2. Longer(r, b) = Reader(r.offset, Append(r.pending, b), r.skipping, r.entries,
                              r.checkpoint, r.modified, r.identity, r.omitted, r.torn)
    BY ReaderChanges
  <2>3. QED
    BY <2>1, <2>2, ReaderFields
<1> DEFINE kept == IF r.skipping THEN r
                   ELSE IF Len(r.pending) >= RecordLimit THEN TooLong(r) ELSE Longer(r, b)
           line == IF kept.skipping THEN kept ELSE Record(kept)
<1>2. Feed(r, b) = IF Ends(b) THEN Cleared(line) ELSE kept
  BY DEF Feed, Cleared, TooLong, Longer, Yes, No
<1>3. r.skipping => kept = r /\ line = r
  OBVIOUS
<1>4. ~r.skipping /\ Len(r.pending) >= RecordLimit => kept = TooLong(r) /\ line = TooLong(r)
  BY <1>1 DEF Yes
<1>5. ~r.skipping /\ ~(Len(r.pending) >= RecordLimit)
        => kept = Longer(r, b) /\ line = Record(Longer(r, b))
  BY <1>1
<1> HIDE DEF kept, line
<1>6. QED
  BY <1>2, <1>3, <1>4, <1>5

LEMMA RecordCases ==
  ASSUME NEW r, NEW b, b = r.pending[1]
  PROVE  /\ ~Whole(r.pending) \/ b.key \in {Bad, Corrupt} => Record(r) = Omits(r)
         /\ Whole(r.pending) /\ b.key \notin {Bad, Corrupt} /\ b.key = Marker => Record(r) = r
         /\ Whole(r.pending) /\ b.key \notin {Bad, Corrupt} /\ b.key # Marker =>
              Record(r) = IF Len(Revised(r.entries, EntryOf(b))) > EntryLimit
                          THEN Omits(Lists(r, Tail(Revised(r.entries, EntryOf(b)))))
                          ELSE Lists(r, Revised(r.entries, EntryOf(b)))
<1> DEFINE en == Revised(r.entries, EntryOf(b))
<1>1. Record(r) = IF ~Whole(r.pending) \/ b.key \in {Bad, Corrupt} THEN [r EXCEPT !.omitted = TRUE]
                  ELSE IF b.key = Marker THEN r
                  ELSE IF Len(en) > EntryLimit
                       THEN [r EXCEPT !.entries = Tail(en), !.omitted = TRUE]
                  ELSE [r EXCEPT !.entries = en]
  BY DEF Record, EntryOf
<1>2. [r EXCEPT !.entries = Tail(en), !.omitted = TRUE] = Omits(Lists(r, Tail(en)))
  BY DEF Omits, Lists, Yes
<1>3. [r EXCEPT !.entries = en] = Lists(r, en) /\ [r EXCEPT !.omitted = TRUE] = Omits(r)
  BY DEF Omits, Lists, Yes
<1> HIDE DEF en
<1>4. QED
  BY <1>1, <1>2, <1>3 DEF en

\* Whatever the block, what it says of the file stays.
LEMMA RecordKeepsFile ==
  ASSUME NEW r, IsReader(r)
  PROVE  /\ IsReader(Record(r)) /\ Record(r).identity = r.identity
         /\ Record(r).modified = r.modified /\ Record(r).offset = r.offset
         /\ Record(r).torn = r.torn
<1> DEFINE b == r.pending[1]
           en == Revised(r.entries, EntryOf(b))
           Same(q) == /\ IsReader(q) /\ q.identity = r.identity /\ q.modified = r.modified
                      /\ q.offset = r.offset /\ q.torn = r.torn
<1> HIDE DEF en
<1>1. \A q : IsReader(q) /\ Same(q) => Same(Omits(q))
  <2> TAKE q
  <2>1. SUFFICES ASSUME IsReader(q), Same(q) PROVE Same(Omits(q))
    OBVIOUS
  <2>2. Omits(q) = Reader(q.offset, q.pending, q.skipping, q.entries, q.checkpoint, q.modified,
                          q.identity, Yes, q.torn)
    BY <2>1, ReaderChanges
  <2>3. QED
    BY <2>1, <2>2, ReaderFields
<1>2. \A x : Same(Lists(r, x))
  <2> TAKE x
  <2>1. Lists(r, x) = Reader(r.offset, r.pending, r.skipping, x, r.checkpoint, r.modified,
                             r.identity, r.omitted, r.torn)
    BY ReaderChanges
  <2>2. QED
    BY <2>1, ReaderFields
<1>3. Same(r)
  OBVIOUS
<1>4. \/ Record(r) = Omits(r) \/ Record(r) = r
      \/ Record(r) = Omits(Lists(r, Tail(en))) \/ Record(r) = Lists(r, en)
  <2>1. /\ ~Whole(r.pending) \/ b.key \in {Bad, Corrupt} => Record(r) = Omits(r)
        /\ Whole(r.pending) /\ b.key \notin {Bad, Corrupt} /\ b.key = Marker => Record(r) = r
        /\ Whole(r.pending) /\ b.key \notin {Bad, Corrupt} /\ b.key # Marker =>
             Record(r) = IF Len(en) > EntryLimit THEN Omits(Lists(r, Tail(en)))
                         ELSE Lists(r, en)
    BY RecordCases DEF en
  <2> HIDE DEF b
  <2>2. QED
    BY <2>1
<1>5. Same(Omits(r)) /\ Same(Lists(r, en)) /\ Same(Omits(Lists(r, Tail(en))))
  BY <1>1, <1>2, <1>3
<1>6. QED
  BY <1>3, <1>4, <1>5

LEMMA FeedKeepsFile ==
  ASSUME NEW r, IsReader(r), NEW b
  PROVE  /\ IsReader(Feed(r, b)) /\ Feed(r, b).identity = r.identity
         /\ Feed(r, b).modified = r.modified /\ Feed(r, b).offset = r.offset
         /\ Feed(r, b).torn = r.torn
<1> DEFINE Same(q) == /\ IsReader(q) /\ q.identity = r.identity /\ q.modified = r.modified
                      /\ q.offset = r.offset /\ q.torn = r.torn
<1>1. ASSUME NEW q, Same(q) PROVE Same(Cleared(q))
  <2>1. Cleared(q) = Reader(q.offset, <<>>, No, q.entries, q.checkpoint, q.modified,
                            q.identity, q.omitted, q.torn)
    BY <1>1, ReaderChanges
  <2>2. QED
    BY <1>1, <2>1, ReaderFields
<1>2. Same(r)
  OBVIOUS
<1>3. Same(TooLong(r))
  <2>1. TooLong(r) = Reader(r.offset, <<>>, Yes, r.entries, r.checkpoint, r.modified,
                            r.identity, Yes, r.torn)
    BY ReaderChanges
  <2>2. QED
    BY <2>1, ReaderFields
<1>4. Same(Longer(r, b))
  <2>1. Longer(r, b) = Reader(r.offset, Append(r.pending, b), r.skipping, r.entries,
                              r.checkpoint, r.modified, r.identity, r.omitted, r.torn)
    BY ReaderChanges
  <2>2. QED
    BY <2>1, ReaderFields
<1>5. Same(Record(Longer(r, b)))
  BY <1>4, RecordKeepsFile
<1> DEFINE F == Feed(r, b)
<1>6. \/ F = r \/ F = Cleared(r) \/ F = TooLong(r) \/ F = Cleared(TooLong(r))
      \/ F = Longer(r, b) \/ F = Cleared(Record(Longer(r, b)))
  BY FeedCases
<1>7. /\ Same(Cleared(r)) /\ Same(Cleared(TooLong(r)))
      /\ Same(Cleared(Record(Longer(r, b))))
  BY <1>1, <1>2, <1>3, <1>5
<1> HIDE DEF F
<1>8. Same(F)
  BY <1>2, <1>3, <1>4, <1>6, <1>7
<1>9. QED
  BY <1>8 DEF F
-------------------------------------------------------------------------------
LEMMA RevisedHas ==
  ASSUME NEW en \in Seq(Entry), NEW e \in Entry
  PROVE  /\ Revised(en, e) \in Seq(Entry)
         /\ \E x \in DOMAIN Revised(en, e) : Revised(en, e)[x].row = e.row
         /\ Len(Revised(en, e)) = Len(en) \/ Revised(en, e) = Append(en, e)
<1>1. CASE \E i \in DOMAIN en : en[i].key = e.key
  <2> DEFINE f == [i \in DOMAIN en |-> IF en[i].key = e.key THEN e ELSE en[i]]
  <2>1. Revised(en, e) = f
    BY <1>1 DEF Revised
  <2>2. DOMAIN en = 1 .. Len(en) /\ Len(en) \in Nat /\ \A i \in 1 .. Len(en) : en[i] \in Entry
    OBVIOUS
  <2>3. f \in [1 .. Len(en) -> Entry]
    BY <2>2
  <2>4. f \in Seq(Entry) /\ Len(f) = Len(en)
    <3> HIDE DEF f
    <3>1. f \in Seq(Entry)
      BY <2>2, <2>3
    <3>2. QED
      BY <2>2, <2>3, <3>1
  <2>5. PICK i \in DOMAIN en : en[i].key = e.key
    BY <1>1
  <2>6. i \in DOMAIN f /\ f[i] = e
    BY <2>5
  <2> HIDE DEF f
  <2>7. QED
    BY <2>1, <2>4, <2>6
<1>2. CASE ~\E i \in DOMAIN en : en[i].key = e.key
  <2>1. Revised(en, e) = Append(en, e)
    BY <1>2 DEF Revised
  <2>2. Append(en, e) \in Seq(Entry) /\ Len(en) + 1 \in DOMAIN Append(en, e)
        /\ Append(en, e)[Len(en) + 1] = e
    OBVIOUS
  <2>3. QED
    BY <2>1, <2>2
<1>3. QED
  BY <1>1, <1>2

\* The newest entry is in the list also when the oldest made room for it.
LEMMA RoomForNewest ==
  ASSUME NEW en \in Seq(Entry), NEW e \in Entry, Len(en) <= EntryLimit,
         Len(Revised(en, e)) > EntryLimit
  PROVE  /\ Tail(Revised(en, e)) \in Seq(Entry) /\ Len(Tail(Revised(en, e))) <= EntryLimit
         /\ \E x \in DOMAIN Tail(Revised(en, e)) : Tail(Revised(en, e))[x].row = e.row
<1>1. EntryLimit \in Nat \ {0} /\ Len(en) \in Nat
  BY ReaderConstants
<1>2. Revised(en, e) = Append(en, e)
  <2>1. Len(Revised(en, e)) # Len(en)
    BY <1>1
  <2>2. QED
    BY <2>1, RevisedHas
<1> DEFINE a == Append(en, e)
<1>3. a \in Seq(Entry) /\ Len(a) = Len(en) + 1 /\ a[Len(en) + 1] = e
  OBVIOUS
<1> HIDE DEF a
<1>4. Len(en) = EntryLimit /\ Len(a) > 1 /\ a # <<>>
  BY <1>1, <1>2, <1>3 DEF a
<1>5. /\ Tail(a) \in Seq(Entry) /\ Len(Tail(a)) = Len(a) - 1
      /\ \A i \in 1 .. Len(a) - 1 : Tail(a)[i] = a[i + 1]
  BY <1>3, <1>4
<1>6. Len(en) \in DOMAIN Tail(a) /\ Tail(a)[Len(en)] = e
  BY <1>1, <1>3, <1>4, <1>5
<1>7. QED
  BY <1>2, <1>3, <1>4, <1>5, <1>6 DEF a

\* A row that ends began where the last one ended.
LEMMA EndedRow ==
  ASSUME NEW B, Rows(B), NEW S \in Nat, NEW n \in S .. Len(B) - 1, Ends(B[n + 1])
  PROVE  /\ NoEnd(B, S, n) => ~Told(B, S, n + 1)
         /\ \A e \in S .. n : LastEnd(B, S, n, e) =>
              RowStart(B, n + 1) = e + 1 /\ B[n + 1].size = n + 1 - e
<1> DEFINE j  == n + 1
           st == RowStart(B, n + 1)
<1>1. j \in 1 .. Len(B) /\ Len(B) \in Nat /\ n \in Nat
  BY DEF Rows
<1> HIDE DEF j, st
<1>2. /\ B[j] \in Block /\ st \in 1 .. j /\ (st # 1 => Ends(B[st - 1]))
      /\ \A k \in st .. j - 1 : ~Ends(B[k])
  BY <1>1, RowsOfBlocks DEF st, j
<1>3. B[j].at \in Nat \ {0} /\ B[j].size \in Nat \ {0} /\ B[j].at = B[j].size
  BY <1>2 DEF Block, Ends, j
<1>4. st = j - B[j].at + 1
  BY DEF st, j, RowStart
<1>5. ASSUME NoEnd(B, S, n), Told(B, S, n + 1)
      PROVE  FALSE
  <2>1. PICK k \in S + 1 .. j - B[j].size : Given(B[k])
    BY <1>1, <1>3, <1>5 DEF NoEnd, Told, Given, j
  <2>2. k \in S + 1 .. n
    BY <1>1, <1>3 DEF j
  <2>3. QED
    BY <1>5, <2>1, <2>2 DEF NoEnd
<1>6. ASSUME NEW e \in S .. n, LastEnd(B, S, n, e)
      PROVE  st = e + 1
  <2>1. ~(st - 1 \in e + 1 .. n)
    <3>1. SUFFICES ASSUME st - 1 \in e + 1 .. n PROVE FALSE
      OBVIOUS
    <3>2. Ends(B[st - 1])
      BY <1>2, <3>1
    <3>3. QED
      BY <1>6, <3>1, <3>2 DEF LastEnd
  <2>2. ~(e \in st .. j - 1)
    <3>1. SUFFICES ASSUME e \in st .. j - 1 PROVE FALSE
      OBVIOUS
    <3>2. e # 0 /\ ~Ends(B[e])
      BY <1>2, <3>1
    <3>3. QED
      BY <1>6, <3>2 DEF LastEnd
  <2>3. QED
    BY <1>1, <1>2, <2>1, <2>2 DEF j
<1>7. QED
  BY <1>1, <1>3, <1>4, <1>5, <1>6 DEF st, j
\* Within a row, or in a frame that is not given, the newest row stays.
LEMMA NewestStays ==
  ASSUME NEW B, NEW S \in Nat, NEW n \in S .. Len(B) - 1, B \in Seq(Block), ~Given(B[n + 1]),
         NEW r, NewestShown(r, B, S, n), NEW q, q.entries = r.entries
  PROVE  NewestShown(q, B, S, n + 1)
<1> SUFFICES ASSUME NEW i \in 1 .. n + 1, Newest(B, S, n + 1, i), B[i].key \in Message,
                    B[i].size <= RecordLimit, Told(B, S, i)
             PROVE  Shown(q, B[i].row)
  BY DEF NewestShown
<1>1. i \in S + 1 .. n + 1 /\ Given(B[i]) /\ \A k \in i + 1 .. n + 1 : ~Given(B[k])
  BY DEF Newest
<1>2. i # n + 1 /\ n \in Nat
  BY <1>1
<1>3. i \in S + 1 .. n /\ i \in 1 .. n /\ \A k \in i + 1 .. n : ~Given(B[k])
  BY <1>1, <1>2
<1>4. Newest(B, S, n, i)
  BY <1>1, <1>3 DEF Newest
<1>5. Shown(r, B[i].row)
  BY <1>3, <1>4 DEF NewestShown
<1>6. QED
  BY <1>5 DEF Shown

\* Where a row is given that ends, it is the newest.
LEMMA NewestIsLast ==
  ASSUME NEW B, NEW S \in Nat, NEW m \in S + 1 .. Len(B), B \in Seq(Block), Given(B[m]), NEW q,
         B[m].key \in Message /\ B[m].size <= RecordLimit /\ Told(B, S, m) => Shown(q, B[m].row)
  PROVE  NewestShown(q, B, S, m)
<1> SUFFICES ASSUME NEW i \in 1 .. m, Newest(B, S, m, i), B[i].key \in Message,
                    B[i].size <= RecordLimit, Told(B, S, i)
             PROVE  Shown(q, B[i].row)
  BY DEF NewestShown
<1>1. i \in S + 1 .. m /\ \A k \in i + 1 .. m : ~Given(B[k])
  BY DEF Newest
<1>2. i = m
  <2>1. ~(m \in i + 1 .. m)
    BY <1>1
  <2>2. QED
    BY <1>1, <2>1
<1>3. QED
  BY <1>2

\* A row that is given is given from its first block on.
LEMMA LineIsGiven ==
  ASSUME NEW B, Rows(B), NEW S \in Nat, NEW n \in S .. Len(B) - 1, ~Lost(B[n + 1]),
         NEW e \in S .. n, LastEnd(B, S, n, e), NEW r
  PROVE  LineKept(r, B, n, e) <=> Line(r, B, n, e)
<1>1. SUFFICES ASSUME n > e, Lost(B[n]) PROVE FALSE
  BY DEF LineKept
<1>2. n \in e + 1 .. n /\ n + 1 \in 2 .. Len(B) /\ (n + 1) - 1 = n
  BY <1>1 DEF Rows
<1>3. ~Ends(B[n])
  BY <1>2 DEF LastEnd
<1>4. B[n + 1].key = B[n].key
  BY <1>2, <1>3 DEF Rows
<1>5. QED
  BY <1>1, <1>4 DEF Lost

\* A block of a frame that cannot be decoded changes nothing.
LEMMA LostReads ==
  ASSUME NEW r, NEW B, Rows(B), NEW S \in Nat, NEW n \in S .. Len(B) - 1, ReadTo(r, B, S, n),
         Lost(B[n + 1])
  PROVE  ReadTo(r, B, S, n + 1)
<1> DEFINE b == B[n + 1]
           m == n + 1
<1>1. B \in Seq(Block) /\ Len(B) \in Nat /\ n \in Nat /\ m \in 1 .. Len(B) /\ b \in Block
      /\ RecordLimit \in Nat \ {0} /\ m - 1 = n
  BY ReaderConstants DEF Rows
<1>2. compressed /\ b.key = Corrupt /\ b.key # Bad /\ b.key \notin Message /\ ~Given(b)
  BY ReaderConstants DEF Lost, Given
<1>3. Upto(B, m) = Upto(B, n)
  <2>1. Upto(B, m) = AddRow(Upto(B, m - 1), B[m])
    BY <1>1, UptoSteps
  <2>2. QED
    BY <1>1, <1>2, <2>1 DEF AddRow
<1>4. Clean(B, n) => Clean(B, m)
  BY <1>1, <1>2 DEF Clean
<1>5. NoEnd(B, S, n) => NoEnd(B, S, m)
  BY <1>1, <1>2 DEF NoEnd
<1>6. NewestShown(r, B, S, m)
  <2>1. NewestShown(r, B, S, n)
    BY DEF ReadTo
  <2>2. QED
    BY <1>1, <1>2, <2>1, NewestStays
<1>7. ASSUME NEW e \in S .. n, LastEnd(B, S, n, e), LineKept(r, B, n, e)
      PROVE  \E f \in S .. m : LastEnd(B, S, m, f) /\ LineKept(r, B, m, f)
  <2>1. ~r.skipping /\ r.pending = <<>>
    <3>1. CASE n > e /\ Lost(B[n])
      BY <1>7, <3>1 DEF LineKept
    <3>2. CASE n = e
      <4>1. Line(r, B, n, n) /\ n - n <= RecordLimit
        BY <1>1, <1>7, <3>2 DEF LineKept
      <4>2. SubSeq(B, n + 1, n) = <<>>
        BY <1>1
      <4>3. QED
        BY <4>1, <4>2 DEF Line
    <3>3. CASE n > e /\ ~Lost(B[n])
      <4>1. n \in e + 1 .. n /\ m \in 2 .. Len(B)
        BY <1>1, <3>3
      <4>2. ~Ends(B[m - 1])
        BY <1>1, <1>7, <4>1 DEF LastEnd
      <4>3. B[m].key = B[m - 1].key
        BY <4>1, <4>2 DEF Rows
      <4>4. QED
        BY <1>1, <1>2, <3>3, <4>3 DEF Lost
    <3>4. QED
      BY <1>1, <3>1, <3>2, <3>3
  <2>2. CASE Ends(b)
    <3>1. m \in S .. m /\ LastEnd(B, S, m, m)
      BY <1>1, <2>2 DEF LastEnd
    <3>2. LineKept(r, B, m, m)
      <4>1. SubSeq(B, m + 1, m) = <<>> /\ m - m <= RecordLimit /\ ~(m > m)
        BY <1>1
      <4>2. QED
        BY <2>1, <4>1 DEF LineKept, Line
    <3>3. QED
      BY <3>1, <3>2
  <2>3. CASE ~Ends(b)
    <3>1. e \in S .. m /\ LastEnd(B, S, m, e)
      BY <1>1, <1>7, <2>3 DEF LastEnd
    <3>2. m > e
      BY <1>1
    <3>3. LineKept(r, B, m, e)
      BY <2>1, <3>2 DEF LineKept
    <3>4. QED
      BY <3>1, <3>3
  <2>4. QED
    BY <2>2, <2>3
<1> HIDE DEF b, m
<1>8. ReadTo(r, B, S, m)
  BY <1>3, <1>4, <1>5, <1>6, <1>7 DEF ReadTo
<1>9. QED
  BY <1>8 DEF m

\* One block further within a row.
LEMMA FeedWithinRow ==
  ASSUME NEW r, IsReader(r), NEW B, Rows(B), NEW S \in Nat, NEW n \in S .. Len(B) - 1,
         ReadTo(r, B, S, n), ~Ends(B[n + 1]), ~Lost(B[n + 1])
  PROVE  ReadTo(Feed(r, B[n + 1]), B, S, n + 1)
<1> DEFINE b == B[n + 1]
           F == Feed(r, b)
<1>1. /\ B \in Seq(Block) /\ Len(B) \in Nat /\ n \in Nat /\ n + 1 \in 1 .. Len(B) /\ b \in Block
      /\ RecordLimit \in Nat \ {0} /\ ~Given(b)
  BY ReaderConstants DEF Rows, Given
<1>2. Upto(B, n + 1) = Upto(B, n) /\ (Clean(B, n) => Clean(B, n + 1))
  <2>1. Upto(B, n + 1) = AddRow(Upto(B, (n + 1) - 1), b) /\ (n + 1) - 1 = n
    BY <1>1, UptoSteps
  <2>2. Clean(B, n) => Clean(B, n + 1)
    BY <1>1 DEF Clean
  <2>3. QED
    BY <2>1, <2>2 DEF AddRow
<1>3. NoEnd(B, S, n) => NoEnd(B, S, n + 1)
  BY <1>1 DEF NoEnd
<1>4. \A e \in S .. n : LastEnd(B, S, n, e) => LastEnd(B, S, n + 1, e) /\ e \in S .. n + 1
  BY <1>1 DEF LastEnd
<1>5. /\ r.skipping \in BOOLEAN /\ (r.skipping => r.omitted)
      /\ r.entries \in Seq(Entry) /\ Len(r.entries) <= EntryLimit
      /\ ~r.omitted => S = 0 /\ r.entries = Upto(B, n) /\ Clean(B, n)
      /\ \/ NoEnd(B, S, n) /\ r.skipping
         \/ \E e \in S .. n : LastEnd(B, S, n, e) /\ Line(r, B, n, e)
      /\ NewestShown(r, B, S, n)
  BY LineIsGiven DEF ReadTo
<1>6. \A q : q.entries = r.entries => NewestShown(q, B, S, n + 1)
  BY <1>1, <1>5, NewestStays
<1>7. \A q, e : Line(q, B, n + 1, e) => LineKept(q, B, n + 1, e)
  BY DEF LineKept
<1> HIDE DEF b, F
<1>8. CASE r.skipping
  <2>1. F = r
    BY <1>8, FeedCases DEF F, b
  <2>2. ASSUME NEW e \in S .. n, Line(r, B, n, e)
        PROVE  Line(F, B, n + 1, e)
    BY <1>1, <1>8, <2>1, <2>2 DEF Line
  <2>3. \/ NoEnd(B, S, n + 1) /\ F.skipping
        \/ \E e \in S .. n + 1 : LastEnd(B, S, n + 1, e) /\ LineKept(F, B, n + 1, e)
    BY <1>3, <1>4, <1>5, <1>7, <1>8, <2>1, <2>2
  <2>4. ReadTo(F, B, S, n + 1)
    BY <1>2, <1>5, <1>6, <2>1, <2>3 DEF ReadTo
  <2>5. QED
    BY <2>4 DEF F, b
<1>9. CASE ~r.skipping /\ Len(r.pending) >= RecordLimit
  <2>1. F = TooLong(r)
    BY <1>9, FeedCases DEF F, b
  <2>2. F = Reader(r.offset, <<>>, Yes, r.entries, r.checkpoint, r.modified, r.identity, Yes,
                   r.torn)
    BY <2>1, ReaderChanges
  <2>3. F.entries = r.entries /\ F.skipping = TRUE /\ F.omitted = TRUE
    BY <2>2 DEF Reader, Yes
  <2>4. PICK e \in S .. n : LastEnd(B, S, n, e) /\ Line(r, B, n, e)
    BY <1>5, <1>9
  <2>5. n + 1 - e > RecordLimit
    <3>1. n - e <= RecordLimit => r.pending = SubSeq(B, e + 1, n)
      BY <2>4 DEF Line
    <3>2. Len(SubSeq(B, e + 1, n)) = n - e
      BY <1>1
    <3>3. QED
      BY <1>1, <1>9, <3>1, <3>2
  <2>6. Line(F, B, n + 1, e)
    BY <1>1, <2>3, <2>5 DEF Line
  <2>7. \E f \in S .. n + 1 : LastEnd(B, S, n + 1, f) /\ LineKept(F, B, n + 1, f)
    BY <1>4, <1>7, <2>4, <2>6
  <2>8. ReadTo(F, B, S, n + 1)
    BY <1>5, <1>6, <2>3, <2>7 DEF ReadTo
  <2>9. QED
    BY <2>8 DEF F, b
<1>10. CASE ~r.skipping /\ ~(Len(r.pending) >= RecordLimit)
  <2>1. F = Longer(r, b)
    BY <1>10, FeedCases DEF F, b
  <2>2. F = Reader(r.offset, Append(r.pending, b), r.skipping, r.entries, r.checkpoint,
                   r.modified, r.identity, r.omitted, r.torn)
    BY <2>1, ReaderChanges
  <2>3. F.entries = r.entries /\ F.skipping = r.skipping /\ F.omitted = r.omitted
        /\ F.pending = Append(r.pending, b)
    BY <2>2 DEF Reader
  <2>4. PICK e \in S .. n : LastEnd(B, S, n, e) /\ Line(r, B, n, e)
    BY <1>5, <1>10
  <2>5. n - e <= RecordLimit /\ r.pending = SubSeq(B, e + 1, n)
    BY <1>1, <1>10, <2>4 DEF Line
  <2>6. n + 1 - e <= RecordLimit /\ F.pending = SubSeq(B, e + 1, n + 1)
    <3>1. Len(SubSeq(B, e + 1, n)) = n - e
      BY <1>1
    <3>2. SubSeq(B, e + 1, n + 1) = Append(SubSeq(B, e + 1, n), b)
      BY <1>1 DEF b
    <3>3. QED
      BY <1>1, <1>10, <2>3, <2>5, <3>1, <3>2
  <2>7. Line(F, B, n + 1, e)
    BY <1>10, <2>3, <2>6 DEF Line
  <2>8. \E f \in S .. n + 1 : LastEnd(B, S, n + 1, f) /\ LineKept(F, B, n + 1, f)
    BY <1>4, <1>7, <2>4, <2>7
  <2>9. ReadTo(F, B, S, n + 1)
    BY <1>2, <1>5, <1>6, <1>10, <2>3, <2>8 DEF ReadTo
  <2>10. QED
    BY <2>9 DEF F, b
<1>11. QED
  BY <1>8, <1>9, <1>10

\* What is kept of a row that is not too long is the row.
LEMMA WholeLine ==
  ASSUME NEW B, Rows(B), NEW S \in Nat, NEW n \in S .. Len(B) - 1, Ends(B[n + 1]),
         NEW e \in S .. n, LastEnd(B, S, n, e), NEW p, p = SubSeq(B, e + 1, n + 1)
  PROVE  /\ Whole(p) /\ p[1].key = B[n + 1].key /\ EntryOf(p[1]) = EntryOf(B[n + 1])
<1> DEFINE m == n + 1
<1>1. B \in Seq(Block) /\ Len(B) \in Nat /\ n \in Nat /\ m \in 1 .. Len(B) /\ e + 1 \in 1 .. m
  BY DEF Rows
<1>2. p \in Seq(Block) /\ Len(p) = m - e /\ \A i \in 1 .. m - e : p[i] = B[e + i]
  <2>1. p = SubSeq(B, e + 1, m)
    OBVIOUS
  <2> HIDE DEF m
  <2>2. /\ e \in Nat /\ m \in Nat /\ e + 1 <= m /\ m - (e + 1) + 1 = m - e
        /\ \A i \in e + 1 .. m : B[i] \in Block
    BY <1>1
  <2>3. /\ SubSeq(B, e + 1, m) \in Seq(Block) /\ Len(SubSeq(B, e + 1, m)) = m - e
        /\ \A i \in 1 .. m - e : SubSeq(B, e + 1, m)[i] = B[e + 1 + i - 1]
    BY <2>2, SubSeqProperties
  <2>4. \A i \in 1 .. m - e : e + 1 + i - 1 = e + i
    BY <2>2
  <2>5. QED
    BY <2>1, <2>3, <2>4
<1>3. RowStart(B, m) = e + 1 /\ B[m].size = m - e
  <2>1. \A f \in S .. n : LastEnd(B, S, n, f) => RowStart(B, n + 1) = f + 1
                                                /\ B[n + 1].size = n + 1 - f
    BY EndedRow
  <2>2. QED
    BY <2>1
<1> HIDE DEF m
<1>4. \A k \in e + 1 .. m : /\ B[k].row = B[m].row /\ B[k].key = B[m].key
                            /\ B[k].size = B[m].size /\ B[k].at = k - (e + 1) + 1
  <2>1. \A k \in RowStart(B, m) .. m : /\ B[k].row = B[m].row /\ B[k].key = B[m].key
                                       /\ B[k].size = B[m].size
                                       /\ B[k].at = k - RowStart(B, m) + 1
    BY <1>1, RowsOfBlocks
  <2>2. QED
    BY <1>3, <2>1
<1>5. \A i \in 1 .. m - e : p[i].row = B[m].row /\ p[i].key = B[m].key /\ p[i].size = B[m].size
                           /\ p[i].at = i
  <2> TAKE i \in 1 .. m - e
  <2>1. e + i \in e + 1 .. m /\ (e + i) - (e + 1) + 1 = i
    BY <1>1
  <2>2. QED
    BY <1>2, <1>4, <2>1
<1>6. 1 \in 1 .. m - e /\ m - e \in Nat \ {0} /\ DOMAIN p = 1 .. m - e /\ p # <<>>
  BY <1>1, <1>2
<1>7. p[1].at = 1 /\ p[1].row = B[m].row /\ p[1].key = B[m].key /\ p[1].size = B[m].size
  BY <1>5, <1>6
<1>8. Whole(p)
  BY <1>2, <1>3, <1>5, <1>6, <1>7 DEF Whole
<1>9. QED
  BY <1>7, <1>8 DEF EntryOf, m

\* A row ends, and the reader is ready for the next.
LEMMA FeedEndsRow ==
  ASSUME NEW r, IsReader(r), NEW B, Rows(B), NEW S \in Nat, NEW n \in S .. Len(B) - 1,
         ReadTo(r, B, S, n), Ends(B[n + 1]), ~Lost(B[n + 1])
  PROVE  ReadTo(Feed(r, B[n + 1]), B, S, n + 1)
<1> DEFINE b == B[n + 1]
           F == Feed(r, b)
           m == n + 1
<1>1. /\ B \in Seq(Block) /\ Len(B) \in Nat /\ n \in Nat /\ n + 1 \in 1 .. Len(B) /\ b \in Block
      /\ RecordLimit \in Nat \ {0} /\ EntryLimit \in Nat \ {0} /\ Given(b)
  BY ReaderConstants DEF Rows, Given
<1>2. Upto(B, m) = AddRow(Upto(B, n), b)
  <2>1. Upto(B, n + 1) = AddRow(Upto(B, (n + 1) - 1), b) /\ (n + 1) - 1 = n
    BY <1>1, UptoSteps
  <2>2. QED
    BY <2>1
<1>3. m \in S .. m /\ LastEnd(B, S, m, m)
  BY <1>1 DEF LastEnd
<1>4. /\ r.skipping \in BOOLEAN /\ (r.skipping => r.omitted)
      /\ r.entries \in Seq(Entry) /\ Len(r.entries) <= EntryLimit
      /\ ~r.omitted => S = 0 /\ r.entries = Upto(B, n) /\ Clean(B, n)
      /\ \/ NoEnd(B, S, n) /\ r.skipping
         \/ \E e \in S .. n : LastEnd(B, S, n, e) /\ Line(r, B, n, e)
  BY LineIsGiven DEF ReadTo
<1>5. SubSeq(B, m + 1, m) = <<>> /\ m - m = 0 /\ m - m <= RecordLimit
  BY <1>1
<1>6. ~(b.size <= RecordLimit /\ Told(B, S, m)) \/
        \E e \in S .. n : /\ LastEnd(B, S, n, e) /\ n - e < RecordLimit /\ b.size = m - e
                          /\ Line(r, B, n, e)
  <2>1. CASE NoEnd(B, S, n)
    BY <2>1, EndedRow
  <2>2. CASE \E e \in S .. n : LastEnd(B, S, n, e) /\ Line(r, B, n, e)
    <3>1. PICK e \in S .. n : LastEnd(B, S, n, e) /\ Line(r, B, n, e)
      BY <2>2
    <3>2. b.size = n + 1 - e
      BY <3>1, EndedRow
    <3>3. b.size <= RecordLimit => n - e < RecordLimit
      BY <1>1, <3>2
    <3>4. QED
      BY <3>1, <3>2, <3>3
  <2>3. QED
    BY <1>4, <2>1, <2>2
<1>7. \A q : Line(q, B, m, m) => LineKept(q, B, m, m)
  BY <1>1 DEF LineKept
<1>8. \A q : (b.key \in Message /\ b.size <= RecordLimit /\ Told(B, S, m) => Shown(q, b.row))
              => NewestShown(q, B, S, m)
  <2>1. m \in S + 1 .. Len(B)
    BY <1>1
  <2>2. QED
    BY <1>1, <2>1, NewestIsLast
<1>9. Clean(B, n) /\ b.key \notin {Bad, Corrupt} => Clean(B, m)
  BY <1>1 DEF Clean
<1> HIDE DEF b, F, m
\* Nothing more is listed, and then nothing is missing that had to be.
<1>10. ASSUME F.skipping = FALSE, F.pending = <<>>, F.omitted, F.entries = r.entries,
             b.key \in Message => ~(b.size <= RecordLimit /\ Told(B, S, m))
      PROVE  ReadTo(F, B, S, m)
  <2>1. LineKept(F, B, m, m)
    BY <1>5, <1>10, <1>7 DEF Line
  <2>2. NewestShown(F, B, S, m)
    BY <1>10, <1>8
  <2>3. QED
    BY <1>3, <1>4, <1>10, <2>1, <2>2 DEF ReadTo
<1>11. CASE r.skipping
  <2>1. F = Cleared(r)
    BY <1>11, FeedCases DEF F, b
  <2>2. F = Reader(r.offset, <<>>, No, r.entries, r.checkpoint, r.modified, r.identity, r.omitted, r.torn)
    BY <2>1, ReaderChanges
  <2>3. F.skipping = No /\ F.pending = <<>> /\ F.omitted = r.omitted /\ F.entries = r.entries
    BY <2>2 DEF Reader
  <2>4. F.skipping = FALSE
    BY <2>3 DEF No
  <2>5. F.omitted
    BY <1>4, <1>11, <2>3
  <2>6. ~(b.size <= RecordLimit /\ Told(B, S, m))
    BY <1>1, <1>6, <1>11 DEF Line
  <2>7. ReadTo(F, B, S, m)
    BY <1>10, <2>3, <2>4, <2>5, <2>6
  <2>8. QED
    BY <2>7 DEF F, b, m
<1>12. CASE ~r.skipping /\ Len(r.pending) >= RecordLimit
  <2>1. F = Cleared(TooLong(r))
    BY <1>12, FeedCases DEF F, b
  <2> DEFINE t == TooLong(r)
  <2>2. t = Reader(r.offset, <<>>, Yes, r.entries, r.checkpoint, r.modified, r.identity, Yes, r.torn)
    BY ReaderChanges
  <2> HIDE DEF t
  <2>3. IsReader(t) /\ t.entries = r.entries /\ t.omitted = Yes
    BY <2>2 DEF Reader, IsReader
  <2>4. F = Reader(t.offset, <<>>, No, t.entries, t.checkpoint, t.modified, t.identity, t.omitted, t.torn)
    <3>1. F = Cleared(t)
      BY <2>1 DEF t
    <3>2. QED
      BY <2>3, <3>1, ReaderChanges
  <2>5. F.skipping = No /\ F.pending = <<>> /\ F.omitted = t.omitted /\ F.entries = t.entries
    BY <2>4 DEF Reader
  <2>6. F.skipping = FALSE
    BY <2>5 DEF No
  <2>7. F.omitted
    BY <2>3, <2>5 DEF Yes
  <2>8. ~(b.size <= RecordLimit /\ Told(B, S, m))
    <3>1. SUFFICES ASSUME NEW e \in S .. n, n - e < RecordLimit, Line(r, B, n, e)
                   PROVE  FALSE
      BY <1>6
    <3>2. r.pending = SubSeq(B, e + 1, n)
      BY <1>1, <3>1 DEF Line
    <3>3. Len(SubSeq(B, e + 1, n)) = n - e
      BY <1>1
    <3>4. QED
      BY <1>1, <1>12, <3>1, <3>2, <3>3
  <2>9. ReadTo(F, B, S, m)
    BY <1>10, <2>3, <2>5, <2>6, <2>7, <2>8
  <2>10. QED
    BY <2>9 DEF F, b, m
<1>13. CASE ~r.skipping /\ ~(Len(r.pending) >= RecordLimit)
  <2> DEFINE L  == Longer(r, b)
             R  == Record(L)
             en == Revised(r.entries, EntryOf(b))
  <2>1. PICK e \in S .. n : LastEnd(B, S, n, e) /\ Line(r, B, n, e)
    BY <1>4, <1>13
  <2>2. F = Cleared(R)
    BY <1>13, FeedCases DEF F, b
  <2>3. L = Reader(r.offset, Append(r.pending, b), r.skipping, r.entries, r.checkpoint,
                   r.modified, r.identity, r.omitted, r.torn)
    BY ReaderChanges
  <2> HIDE DEF L
  <2>4. IsReader(L) /\ L.entries = r.entries /\ L.omitted = r.omitted
        /\ L.pending = Append(r.pending, b)
    BY <2>3 DEF Reader, IsReader
  <2>5. L.pending = SubSeq(B, e + 1, m)
    <3>1. r.pending = SubSeq(B, e + 1, n)
      BY <1>1, <1>13, <2>1 DEF Line
    <3>2. SubSeq(B, e + 1, n + 1) = Append(SubSeq(B, e + 1, n), B[n + 1])
      BY <1>1
    <3>3. QED
      BY <2>4, <3>1, <3>2 DEF b, m
  <2> DEFINE c == L.pending[1]
  <2>6. Whole(L.pending) /\ c.key = b.key /\ EntryOf(c) = EntryOf(b)
    <3>1. L.pending = SubSeq(B, e + 1, n + 1)
      BY <2>5 DEF m
    <3>2. QED
      BY <2>1, <3>1, WholeLine DEF b
  <2>7. /\ b.key \in {Bad, Corrupt} => R = Omits(L)
        /\ b.key = Marker => R = L
        /\ b.key \in Message => R = IF Len(en) > EntryLimit THEN Omits(Lists(L, Tail(en)))
                                   ELSE Lists(L, en)
    <3>1. /\ c.key \in {Bad, Corrupt} => R = Omits(L)
          /\ Whole(L.pending) /\ c.key \notin {Bad, Corrupt} /\ c.key = Marker => R = L
          /\ Whole(L.pending) /\ c.key \notin {Bad, Corrupt} /\ c.key # Marker =>
               R = IF Len(Revised(L.entries, EntryOf(c))) > EntryLimit
                   THEN Omits(Lists(L, Tail(Revised(L.entries, EntryOf(c)))))
                   ELSE Lists(L, Revised(L.entries, EntryOf(c)))
      BY RecordCases
    <3>2. Marker \notin {Bad, Corrupt} /\ {Marker, Bad, Corrupt} \cap Message = {}
      BY ReaderConstants
    <3> HIDE DEF c, R
    <3>3. QED
      BY <2>4, <2>6, <3>1, <3>2
  <2>8. IsReader(R)
    BY <2>4, RecordKeepsFile
  <2> HIDE DEF R, c, en
  <2>9. F = Reader(R.offset, <<>>, No, R.entries, R.checkpoint, R.modified, R.identity, R.omitted, R.torn)
    BY <2>2, <2>8, ReaderChanges
  <2>10. F.skipping = No /\ F.pending = <<>> /\ F.omitted = R.omitted /\ F.entries = R.entries
    BY <2>9 DEF Reader
  <2>11. F.skipping = FALSE
    BY <2>10 DEF No
  <2>12. b.key \in Message \cup {Marker, Bad, Corrupt}
    BY <1>1 DEF Block
  <2>13. CASE b.key \in {Bad, Corrupt}
    <3>1. R = Reader(L.offset, L.pending, L.skipping, L.entries, L.checkpoint, L.modified,
                     L.identity, Yes, L.torn)
      BY <2>4, <2>7, <2>13, ReaderChanges
    <3>2. R.entries = r.entries /\ R.omitted = Yes
      BY <2>4, <3>1 DEF Reader
    <3>3. F.omitted
      BY <2>10, <3>2 DEF Yes
    <3>4. ReadTo(F, B, S, m)
      BY <1>10, <2>10, <2>11, <2>13, <3>2, <3>3, ReaderConstants
    <3>5. QED
      BY <3>4 DEF F, b, m
  <2>14. CASE b.key = Marker
    <3>1. F.entries = r.entries /\ F.omitted = r.omitted
      BY <2>4, <2>7, <2>10, <2>14
    <3>2. Upto(B, m) = Upto(B, n) /\ (Clean(B, n) => Clean(B, m))
      BY <1>2, <1>9, <2>14, ReaderConstants DEF AddRow
    <3>3. LineKept(F, B, m, m)
      BY <1>5, <1>7, <2>10, <2>11 DEF Line
    <3>4. NewestShown(F, B, S, m)
      BY <1>8, <2>14, ReaderConstants
    <3>5. ReadTo(F, B, S, m)
      BY <1>3, <1>4, <2>11, <3>1, <3>2, <3>3, <3>4 DEF ReadTo
    <3>6. QED
      BY <3>5 DEF F, b, m
  <2>15. CASE b.key \in Message
    <3>1. EntryOf(b) \in Entry /\ EntryOf(b).row = b.row
      BY <1>1, <2>15 DEF EntryOf, Entry, Block
    <3>2. Upto(B, m) = Revised(Upto(B, n), EntryOf(b)) /\ (Clean(B, n) => Clean(B, m))
      <4>1. Ends(b)
        BY DEF b
      <4>2. b.key \notin {Bad, Corrupt}
        BY <2>15, ReaderConstants
      <4>3. QED
        BY <1>2, <1>9, <2>15, <4>1, <4>2 DEF AddRow, EntryOf
    <3>3. LineKept(F, B, m, m)
      BY <1>5, <1>7, <2>10, <2>11 DEF Line
    <3>4. ASSUME R.entries \in Seq(Entry), Len(R.entries) <= EntryLimit, Shown(R, b.row),
                 ~R.omitted => S = 0 /\ R.entries = Upto(B, m) /\ Clean(B, m)
          PROVE  ReadTo(F, B, S, m)
      <4>1. NewestShown(F, B, S, m)
        <5>1. Shown(F, b.row)
          BY <2>10, <3>4 DEF Shown
        <5>2. QED
          BY <1>8, <5>1
      <4>2. QED
        BY <1>3, <2>10, <2>11, <3>3, <3>4, <4>1 DEF ReadTo
    <3>5. en \in Seq(Entry) /\ \E x \in DOMAIN en : en[x].row = b.row
      BY <1>4, <3>1, RevisedHas DEF en
    <3>6. CASE Len(en) > EntryLimit
      <4> DEFINE q == Lists(L, Tail(en))
      <4>1. R = Omits(q)
        BY <2>7, <2>15, <3>6
      <4>2. q = Reader(L.offset, L.pending, L.skipping, Tail(en), L.checkpoint, L.modified,
                       L.identity, L.omitted, L.torn)
        BY <2>4, ReaderChanges
      <4> HIDE DEF q
      <4>3. IsReader(q) /\ q.entries = Tail(en)
        BY <4>2 DEF Reader, IsReader
      <4>4. R = Reader(q.offset, q.pending, q.skipping, q.entries, q.checkpoint, q.modified,
                       q.identity, Yes, q.torn)
        BY <4>1, <4>3, ReaderChanges
      <4>5. R.entries = Tail(en) /\ R.omitted = Yes
        BY <4>3, <4>4 DEF Reader
      <4>6. R.omitted
        BY <4>5 DEF Yes
      <4>7. /\ Tail(en) \in Seq(Entry) /\ Len(Tail(en)) <= EntryLimit
            /\ \E x \in DOMAIN Tail(en) : Tail(en)[x].row = b.row
        BY <1>4, <3>1, <3>6, RoomForNewest DEF en
      <4>8. ReadTo(F, B, S, m)
        BY <3>4, <4>5, <4>6, <4>7 DEF Shown
      <4>9. QED
        BY <4>8 DEF F, b, m
    <3>7. CASE ~(Len(en) > EntryLimit)
      <4>1. R = Reader(L.offset, L.pending, L.skipping, en, L.checkpoint, L.modified,
                       L.identity, L.omitted, L.torn)
        BY <2>4, <2>7, <2>15, <3>7, ReaderChanges
      <4>2. R.entries = en /\ R.omitted = r.omitted
        BY <2>4, <4>1 DEF Reader
      <4>3. Len(en) <= EntryLimit
        BY <1>1, <3>5, <3>7
      <4>4. ~R.omitted => S = 0 /\ R.entries = Upto(B, m) /\ Clean(B, m)
        BY <1>4, <3>2, <4>2 DEF en
      <4>5. ReadTo(F, B, S, m)
        BY <3>4, <3>5, <4>2, <4>3, <4>4 DEF Shown
      <4>6. QED
        BY <4>5 DEF F, b, m
    <3>8. QED
      BY <3>6, <3>7
  <2>16. QED
    BY <2>12, <2>13, <2>14, <2>15
<1>14. QED
  BY <1>11, <1>12, <1>13

\* Block by block.
LEMMA FeedReads ==
  ASSUME NEW r, IsReader(r), NEW B, Rows(B), NEW S \in Nat, NEW n \in S .. Len(B) - 1,
         ReadTo(r, B, S, n)
  PROVE  ReadTo(FeedText(r, B[n + 1]), B, S, n + 1)
<1>1. CASE Lost(B[n + 1])
  BY <1>1, LostReads DEF FeedText, Lost
<1>2. CASE ~Lost(B[n + 1])
  <2>1. FeedText(r, B[n + 1]) = Feed(r, B[n + 1])
    BY <1>2 DEF FeedText, Lost
  <2>2. QED
    BY <1>2, <2>1, FeedWithinRow, FeedEndsRow
<1>3. QED
  BY <1>1, <1>2

LEMMA FeedTextKeepsFile ==
  ASSUME NEW r, IsReader(r), NEW b
  PROVE  /\ IsReader(FeedText(r, b)) /\ FeedText(r, b).identity = r.identity
         /\ FeedText(r, b).modified = r.modified /\ FeedText(r, b).offset = r.offset
         /\ FeedText(r, b).torn = r.torn
<1>1. FeedText(r, b) = r \/ FeedText(r, b) = Feed(r, b)
  BY DEF FeedText
<1>2. QED
  BY <1>1, FeedKeepsFile
\* The blocks of a read, one after the other.
Fed(r, s) == FoldLeft(FeedText, r, s)

LEMMA FedSteps ==
  ASSUME NEW r, NEW s \in Seq(Block)
  PROVE  \E g : /\ g[0] = r
                /\ \A k \in 1 .. Len(s) : g[k] = FeedText(g[k - 1], s[k])
                /\ Fed(r, s) = g[Len(s)]
<1>1. Feeds!Folded(r, s) = Fed(r, s)
  BY DEF Fed, Feeds!Folded, FoldLeft, Feeds!FoldLeft, MapThenFoldSet, Feeds!MapThenFoldSet,
         Max, Feeds!Max
<1>2. \E g : /\ g[0] = r
             /\ \A k \in 1 .. Len(s) : g[k] = FeedText(g[k - 1], s[k])
             /\ Feeds!Folded(r, s) = g[Len(s)]
  BY Feeds!FoldLeftSteps
<1>3. QED
  BY <1>1, <1>2

LEMMA FedKeepsFile ==
  ASSUME NEW r, IsReader(r), NEW s \in Seq(Block)
  PROVE  /\ IsReader(Fed(r, s)) /\ Fed(r, s).identity = r.identity
         /\ Fed(r, s).modified = r.modified /\ Fed(r, s).offset = r.offset
         /\ Fed(r, s).torn = r.torn
<1> DEFINE Same(q) == /\ IsReader(q) /\ q.identity = r.identity /\ q.modified = r.modified
                      /\ q.offset = r.offset /\ q.torn = r.torn
<1>1. PICK g : /\ g[0] = r
               /\ \A k \in 1 .. Len(s) : g[k] = FeedText(g[k - 1], s[k])
               /\ Fed(r, s) = g[Len(s)]
  BY FedSteps
<1> DEFINE T == {k \in Nat : k <= Len(s) => Same(g[k])}
<1>2. 0 \in T
  BY <1>1
<1>3. ASSUME NEW k \in 1 .. Len(s), k - 1 \in T
      PROVE  k \in T
  <2>1. Same(g[k - 1])
    BY <1>3
  <2>2. Same(FeedText(g[k - 1], s[k]))
    BY <2>1, FeedTextKeepsFile
  <2>3. QED
    BY <1>1, <2>2
<1> HIDE DEF T
<1>4. Len(s) \in Nat /\ Len(s) \in 0 .. Len(s)
  OBVIOUS
<1>5. Len(s) \in T
  BY <1>2, <1>3, <1>4, Feeds!UpToFollows
<1>6. Same(g[Len(s)])
  BY <1>4, <1>5 DEF T
<1>7. QED
  BY <1>1, <1>6

LEMMA FedReads ==
  ASSUME NEW r, IsReader(r), NEW B, Rows(B), NEW S \in Nat, NEW n \in S .. Len(B),
         NEW m \in n .. Len(B), ReadTo(r, B, S, n)
  PROVE  ReadTo(Fed(r, SubSeq(B, n + 1, m)), B, S, m)
<1> DEFINE s == SubSeq(B, n + 1, m)
<1>1. B \in Seq(Block) /\ Len(B) \in Nat /\ n \in Nat /\ m \in Nat
  BY DEF Rows
<1>2. s \in Seq(Block) /\ Len(s) = m - n /\ \A k \in 1 .. m - n : s[k] = B[n + k]
  BY <1>1
<1> HIDE DEF s
<1>3. PICK g : /\ g[0] = r
               /\ \A k \in 1 .. Len(s) : g[k] = FeedText(g[k - 1], s[k])
               /\ Fed(r, s) = g[Len(s)]
  BY <1>2, FedSteps
<1> DEFINE T == {k \in Nat : k <= m - n => IsReader(g[k]) /\ ReadTo(g[k], B, S, n + k)}
<1>4. 0 \in T
  BY <1>1, <1>3
<1>5. ASSUME NEW k \in 1 .. m - n, k - 1 \in T
      PROVE  k \in T
  <2> DEFINE i == n + (k - 1)
             q == g[k - 1]
  <2>1. IsReader(q) /\ ReadTo(q, B, S, i)
    BY <1>1, <1>5
  <2>2. i \in S .. Len(B) - 1 /\ i + 1 = n + k
    BY <1>1
  <2>3. g[k] = FeedText(q, B[n + k])
    BY <1>2, <1>3
  <2> HIDE DEF i, q
  <2>4. ReadTo(FeedText(q, B[i + 1]), B, S, i + 1)
    BY <2>1, <2>2, FeedReads
  <2>5. IsReader(FeedText(q, B[i + 1]))
    BY <2>1, FeedTextKeepsFile
  <2>6. QED
    BY <2>2, <2>3, <2>4, <2>5
<1> HIDE DEF T
<1>6. m - n \in Nat /\ m - n \in 0 .. m - n /\ n + (m - n) = m
  BY <1>1
<1>7. m - n \in T
  BY <1>4, <1>5, <1>6, Feeds!UpToFollows
<1>8. ReadTo(g[m - n], B, S, m)
  BY <1>6, <1>7 DEF T
<1>9. QED
  BY <1>2, <1>3, <1>8 DEF s

\* What is decoded of a read: the frames from f to c.
LEMMA FramesOf ==
  ASSUME NEW s \in Seq(Block)
  PROVE  \E f \in 1 .. Len(s) + 1 : \E c \in f - 1 .. Len(s) :
           /\ \A i \in 1 .. f - 1 : s[i].at # 1
           /\ f = Len(s) + 1 \/ s[f].at = 1
           /\ c = f - 1 \/ (c = Len(s) /\ Ends(s[c])) \/ (c < Len(s) /\ s[c + 1].at = 1)
           /\ Frames(s).text = SubSeq(s, f, c) /\ Frames(s).consumed = c
<1> DEFINE n    == Len(s)
           From == {i \in 1 .. n : s[i].at = 1}
           All  == Ends(s[n]) /\ s[n].key # Corrupt
           f    == Min(From)
           d    == Max(From)
<1>1. n \in Nat /\ From \in SUBSET (1 .. n)
  OBVIOUS
<1>2. /\ From = {} => Frames(s).text = <<>> /\ Frames(s).consumed = n
      /\ From # {} /\ All => Frames(s).text = SubSeq(s, f, n) /\ Frames(s).consumed = n
      /\ From # {} /\ ~All => Frames(s).text = SubSeq(s, f, d - 1) /\ Frames(s).consumed = d - 1
  BY DEF Frames
<1>3. SubSeq(s, n + 1, n) = <<>>
  OBVIOUS
<1>4. \A i \in 1 .. n : i \in From <=> s[i].at = 1
  OBVIOUS
<1>5. All => Ends(s[n])
  OBVIOUS
<1> HIDE DEF From, n, All, f, d
<1>6. CASE From = {}
  <2>1. n + 1 \in 1 .. n + 1 /\ n \in (n + 1) - 1 .. n /\ (n + 1) - 1 = n
    BY <1>1
  <2>2. \A i \in 1 .. n : s[i].at # 1
    BY <1>4, <1>6
  <2>3. Frames(s).text = SubSeq(s, n + 1, n)
    BY <1>2, <1>3, <1>6, <2>1
  <2>4. QED
    BY <1>2, <1>6, <2>1, <2>2, <2>3 DEF n
<1>7. CASE From # {}
  <2>1. f \in From /\ \A i \in From : f <= i
    BY <1>1, <1>7, FirstPlace DEF f
  <2>2. d \in From
    BY <1>1, <1>7, LastPlace DEF d
  <2>3. f \in 1 .. n /\ s[f].at = 1 /\ \A i \in 1 .. f - 1 : s[i].at # 1
    BY <1>1, <1>4, <2>1
  <2>4. d \in 1 .. n /\ s[d].at = 1 /\ f <= d
    BY <1>1, <1>4, <2>1, <2>2
  <2>5. CASE All
    <3>1. n \in f - 1 .. n /\ f \in 1 .. n + 1 /\ Ends(s[n])
      BY <1>1, <1>5, <2>3, <2>5
    <3>2. QED
      BY <1>2, <1>7, <2>3, <2>5, <3>1 DEF n
  <2>6. CASE ~All
    <3>1. d - 1 \in f - 1 .. n /\ f \in 1 .. n + 1 /\ d - 1 < n /\ (d - 1) + 1 = d
      BY <1>1, <2>3, <2>4
    <3> DEFINE c == d - 1
    <3>2. c \in f - 1 .. n /\ c < n /\ s[c + 1].at = 1 /\ Frames(s).text = SubSeq(s, f, c)
          /\ Frames(s).consumed = c
      BY <1>2, <1>7, <2>4, <2>6, <3>1
    <3> HIDE DEF c
    <3>3. QED
      BY <2>3, <3>1, <3>2 DEF n
  <2>7. QED
    BY <2>5, <2>6
<1>8. QED
  BY <1>6, <1>7
-------------------------------------------------------------------------------
\* A reader that jumped is in the middle of a row, for all it knows.
LEMMA JumpedReads ==
  ASSUME NEW r, NEW B, NEW S \in Nat \ {0}, r.skipping = TRUE, r.omitted,
         r.entries \in Seq(Entry), Len(r.entries) <= EntryLimit
  PROVE  ReadTo(r, B, S, S)
<1>1. NoEnd(B, S, S)
  BY DEF NoEnd
<1>2. NewestShown(r, B, S, S)
  BY DEF NewestShown, Newest
<1>3. QED
  BY <1>1, <1>2 DEF ReadTo

\* Before the first block.
LEMMA FreshReads ==
  ASSUME NEW B, Rows(B), NEW r, r.offset = 0, r.pending = <<>>, r.skipping = FALSE,
         r.entries = <<>>
  PROVE  HasRead(r, B, 0, 0)
<1>1. B \in Seq(Block) /\ Len(B) \in Nat /\ RecordLimit \in Nat /\ EntryLimit \in Nat
  BY ReaderConstants DEF Rows
<1>2. LastEnd(B, 0, 0, 0)
  BY DEF LastEnd
<1>3. LineKept(r, B, 0, 0)
  <2>1. SubSeq(B, 1, 0) = <<>>
    BY <1>1
  <2>2. QED
    BY <1>1, <2>1 DEF LineKept, Line
<1>4. NewestShown(r, B, 0, 0) /\ Clean(B, 0)
  BY DEF NewestShown, Clean
<1>5. r.entries \in Seq(Entry) /\ Len(r.entries) <= EntryLimit
  BY <1>1
<1>6. Upto(B, 0) = <<>>
  BY <1>1, UptoSteps
<1>7. ReadTo(r, B, 0, 0)
  <2>1. 0 \in 0 .. 0
    OBVIOUS
  <2>2. \E e \in 0 .. 0 : LastEnd(B, 0, 0, e) /\ LineKept(r, B, 0, e)
    BY <1>2, <1>3, <2>1
  <2>3. QED
    BY <1>4, <1>5, <1>6, <2>2 DEF ReadTo
<1>8. BeganAt(B, 0, 0)
  BY <1>1 DEF BeganAt
<1>9. QED
  BY <1>7, <1>8 DEF HasRead

\* The reader is where it says it is, whatever else changes.
LEMMA ReadByEntries ==
  ASSUME NEW r, NEW q, NEW B, NEW S, NEW n, ReadTo(r, B, S, n),
         q.pending = r.pending, q.skipping = r.skipping, q.entries = r.entries,
         q.omitted = r.omitted
  PROVE  ReadTo(q, B, S, n)
<1>1. \A e : LineKept(r, B, n, e) => LineKept(q, B, n, e)
  BY DEF LineKept, Line
<1>2. NewestShown(r, B, S, n) => NewestShown(q, B, S, n)
  BY DEF NewestShown, Shown
<1>3. QED
  BY <1>1, <1>2 DEF ReadTo

LEMMA MinOfTwo ==
  ASSUME NEW a \in Nat, NEW b \in Nat
  PROVE  Min({a, b}) = IF a <= b THEN a ELSE b
<1> DEFINE x == IF a <= b THEN a ELSE b
<1>1. x \in {a, b} /\ \A y \in {a, b} : x <= y
  OBVIOUS
<1>2. \A z \in {a, b} : (\A y \in {a, b} : z <= y) => z = x
  BY <1>1
<1> HIDE DEF x
<1>3. Min({a, b}) = x
  BY <1>1, <1>2 DEF Min
<1>4. QED
  BY <1>3 DEF x

\* One read of the file B, by r.
PartOf(r, B) ==
  LET bytes == SubSeq(B, r.offset + 1, Min({Len(B), r.offset + ReadLimit}))
  IN  IF compressed THEN Frames(bytes) ELSE [text |-> bytes, consumed |-> Len(bytes)]

\* Where the reader is after it, that has begun to read at J and now at K.
Reached(q, B, J, K, n) ==
  /\ BeganAt(B, J, K) /\ K <= n
  /\ compressed => n = K \/ Ends(B[n])
  /\ ReadTo(q, B, K, n)

LEMMA PartReads ==
  ASSUME compressed \in BOOLEAN, NEW B, Rows(B), NEW r, IsReader(r), r.offset \in 0 .. Len(B),
         NEW J \in Nat, NEW S \in Nat, HasRead(r, B, J, S)
  PROVE  /\ PartOf(r, B).text \in Seq(Block)
         /\ PartOf(r, B).consumed \in 0 .. Len(B) - r.offset
         /\ \E K \in Nat : Reached(Fed(r, PartOf(r, B).text), B, J, K,
                                   r.offset + PartOf(r, B).consumed)
<1> DEFINE o == r.offset
           m == Min({Len(B), o + ReadLimit})
           s == SubSeq(B, o + 1, m)
           p == PartOf(r, B)
<1>1. B \in Seq(Block) /\ Len(B) \in Nat /\ o \in Nat /\ o <= Len(B) /\ ReadLimit \in Nat
  BY ReaderConstants DEF Rows
<1>2. m \in o .. Len(B)
  <2> HIDE DEF o
  <2>1. m = IF Len(B) <= o + ReadLimit THEN Len(B) ELSE o + ReadLimit
    BY <1>1, MinOfTwo
  <2> HIDE DEF m
  <2>2. QED
    BY <1>1, <2>1
<1>3. p = IF compressed THEN Frames(s) ELSE [text |-> s, consumed |-> Len(s)]
  BY DEF PartOf
<1>4. /\ BeganAt(B, J, S) /\ S <= o
      /\ compressed => o = S \/ Ends(B[o])
      /\ ReadTo(r, B, S, o)
  BY DEF HasRead
<1> HIDE DEF p, m, o
<1>5. s \in Seq(Block) /\ Len(s) = m - o /\ \A i \in 1 .. m - o : s[i] = B[o + i]
  BY <1>1, <1>2
<1>6. CASE ~compressed
  <2>1. p.text = s /\ p.consumed = m - o
    BY <1>3, <1>5, <1>6
  <2>2. ReadTo(Fed(r, s), B, S, m)
    BY <1>1, <1>2, <1>4, FedReads
  <2> HIDE DEF s
  <2>3. o + p.consumed = m /\ S <= m /\ p.consumed \in 0 .. Len(B) - o
    BY <1>1, <1>2, <1>4, <2>1
  <2>4. Reached(Fed(r, p.text), B, J, S, o + p.consumed)
    BY <1>4, <1>6, <2>1, <2>2, <2>3 DEF Reached
  <2>5. QED
    BY <1>5, <2>1, <2>3, <2>4 DEF p, o
<1>7. CASE compressed
  <2>1. p = Frames(s)
    BY <1>3, <1>7
  <2> DEFINE Good(f, c) ==
           /\ \A i \in 1 .. f - 1 : s[i].at # 1
           /\ f = Len(s) + 1 \/ s[f].at = 1
           /\ c = f - 1 \/ (c = Len(s) /\ Ends(s[c])) \/ (c < Len(s) /\ s[c + 1].at = 1)
           /\ p.text = SubSeq(s, f, c) /\ p.consumed = c
  <2>2. \E f \in 1 .. Len(s) + 1 : \E c \in f - 1 .. Len(s) : Good(f, c)
    <3> HIDE DEF s
    <3>1. QED
      BY <1>5, <2>1, FramesOf
  <2>3. PICK f \in 1 .. Len(s) + 1 : \E c \in f - 1 .. Len(s) : Good(f, c)
    BY <2>2
  <2>4. PICK c \in f - 1 .. Len(s) : Good(f, c)
    BY <2>3
  <2>5. f \in Nat \ {0} /\ c \in Nat /\ c <= m - o /\ f - 1 <= c
    BY <1>1, <1>2, <1>5, <2>4
  <2>6. SubSeq(s, f, c) = SubSeq(B, o + f, o + c)
    <3>1. /\ SubSeq(s, f, c) \in Seq(Block) /\ Len(SubSeq(s, f, c)) = c - f + 1
          /\ \A i \in 1 .. c - f + 1 : SubSeq(s, f, c)[i] = s[f + i - 1]
      <4> HIDE DEF s
      <4>1. QED
        BY <1>5, <2>4, <2>5
    <3>2. /\ SubSeq(B, o + f, o + c) \in Seq(Block) /\ Len(SubSeq(B, o + f, o + c)) = c - f + 1
          /\ \A i \in 1 .. c - f + 1 : SubSeq(B, o + f, o + c)[i] = B[o + f + i - 1]
      <4> DEFINE x == o + f
                 y == o + c
      <4>1. x \in Nat \ {0} /\ y \in Nat /\ y <= Len(B) /\ x <= y + 1 /\ y - x + 1 = c - f + 1
        BY <1>1, <1>2, <2>5
      <4> HIDE DEF x, y
      <4>2. /\ SubSeq(B, x, y) \in Seq(Block) /\ Len(SubSeq(B, x, y)) = y - x + 1
            /\ \A i \in 1 .. y - x + 1 : SubSeq(B, x, y)[i] = B[x + i - 1]
        <5>1. x \in Int /\ y \in Int /\ \A i \in x .. y : B[i] \in Block
          BY <1>1, <4>1
        <5>2. /\ SubSeq(B, x, y) \in Seq(Block)
              /\ Len(SubSeq(B, x, y)) = IF x <= y THEN y - x + 1 ELSE 0
              /\ \A i \in 1 .. y - x + 1 : SubSeq(B, x, y)[i] = B[x + i - 1]
          BY <5>1, SubSeqProperties
        <5>3. QED
          BY <4>1, <5>2
      <4>3. QED
        BY <4>1, <4>2 DEF x, y
    <3>3. \A i \in 1 .. c - f + 1 : s[f + i - 1] = B[o + f + i - 1]
      <4> TAKE i \in 1 .. c - f + 1
      <4> HIDE DEF s
      <4>1. f + i - 1 \in 1 .. m - o /\ o + (f + i - 1) = o + f + i - 1
        BY <1>1, <1>2, <2>5
      <4>2. QED
        BY <1>5, <4>1
    <3> DEFINE u == SubSeq(s, f, c)
               v == SubSeq(B, o + f, o + c)
    <3> HIDE DEF s, u, v
    <3>4. u \in Seq(Block) /\ v \in Seq(Block) /\ Len(u) = Len(v)
          /\ \A i \in 1 .. Len(u) : u[i] = v[i]
      BY <3>1, <3>2, <3>3 DEF u, v
    <3>5. u = v
      BY <3>4
    <3>6. QED
      BY <3>5 DEF u, v
  <2>7. p.text \in Seq(Block) /\ p.consumed \in 0 .. Len(B) - o
    BY <1>1, <1>2, <1>5, <2>4, <2>5
  <2>8. c = f - 1 \/ Ends(B[o + c])
    <3>1. c # f - 1 => c \in 1 .. m - o
      BY <1>1, <1>2, <2>5
    <3>2. c # f - 1 /\ c < Len(s) /\ s[c + 1].at = 1 => Ends(B[o + c])
      <4> HIDE DEF s
      <4>1. SUFFICES ASSUME c # f - 1, c < Len(s), s[c + 1].at = 1, ~Ends(B[o + c]) PROVE FALSE
        OBVIOUS
      <4>2. c + 1 \in 1 .. m - o /\ o + (c + 1) \in 2 .. Len(B) /\ (o + (c + 1)) - 1 = o + c
        BY <1>1, <1>2, <1>5, <3>1, <4>1
      <4>3. B[o + (c + 1)].at = B[o + c].at + 1 /\ B[o + (c + 1)].at = 1
        BY <1>5, <4>1, <4>2 DEF Rows
      <4>4. B[o + c] \in Block
        BY <1>1, <4>2
      <4>5. QED
        BY <4>3, <4>4 DEF Block
    <3>3. QED
      BY <1>5, <2>4, <3>1, <3>2
  <2> HIDE DEF s
  <2>9. CASE o = S /\ S # 0
    <3> DEFINE K == o + (f - 1)
    <3>1. K \in Nat \ {0} /\ S <= K /\ K <= Len(B) /\ K <= o + c /\ o + c <= Len(B)
          /\ K + 1 = o + f
      BY <1>1, <1>2, <2>5, <2>9
    <3>2. \A i \in S + 1 .. K : B[i].at # 1
      <4> TAKE i \in S + 1 .. K
      <4>1. i - o \in 1 .. f - 1 /\ i - o \in 1 .. m - o /\ o + (i - o) = i
        BY <1>1, <1>2, <2>5, <2>9
      <4>2. QED
        BY <1>5, <2>4, <4>1
    <3> HIDE DEF K
    <3>3. BeganAt(B, J, K)
      <4>1. /\ J \in Nat /\ S \in Nat /\ J <= S /\ J > 0 /\ J + ReadLimit <= Len(B)
            /\ \A i \in J + 1 .. S : B[i].at # 1
        BY <1>4, <1>7, <2>9 DEF BeganAt
      <4>2. \A i \in J + 1 .. K : B[i].at # 1
        BY <3>1, <3>2, <4>1
      <4>3. QED
        BY <1>7, <3>1, <4>1, <4>2 DEF BeganAt
    <3>4. r.skipping = TRUE /\ r.omitted /\ r.entries \in Seq(Entry)
          /\ Len(r.entries) <= EntryLimit
      <4>1. ~\E e \in S .. S : LastEnd(B, S, S, e)
        BY <2>9 DEF LastEnd
      <4>2. ReadTo(r, B, S, S)
        BY <1>4, <2>9
      <4>3. QED
        BY <4>1, <4>2 DEF ReadTo
    <3>5. ReadTo(r, B, K, K)
      BY <3>1, <3>4, JumpedReads
    <3>6. ReadTo(Fed(r, SubSeq(B, K + 1, o + c)), B, K, o + c)
      <4>1. K \in Nat /\ K \in K .. Len(B) /\ o + c \in K .. Len(B)
        BY <1>1, <2>5, <3>1
      <4>2. QED
        BY <3>5, <4>1, FedReads
    <3>7. ReadTo(Fed(r, p.text), B, K, o + p.consumed)
      BY <2>4, <2>6, <3>1, <3>6
    <3>8. compressed => o + c = K \/ Ends(B[o + c])
      BY <2>8 DEF K
    <3>9. Reached(Fed(r, p.text), B, J, K, o + p.consumed)
      BY <2>4, <3>1, <3>3, <3>7, <3>8 DEF Reached
    <3>10. K \in Nat
      BY <3>1
    <3>11. QED
      BY <2>7, <3>9, <3>10 DEF p, o
  <2>10. CASE ~(o = S /\ S # 0)
    <3>1. m > o => B[o + 1].at = 1
      <4>1. CASE o = 0
        <5>1. m > o => B # <<>>
          BY <1>1, <1>2
        <5>2. QED
          BY <4>1, <5>1 DEF Rows
      <4>2. CASE o # 0
        <5>1. Ends(B[o])
          BY <1>4, <1>7, <2>10, <4>2
        <5>2. m > o => o + 1 \in 2 .. Len(B) /\ (o + 1) - 1 = o
          BY <1>1, <1>2, <4>2
        <5>3. m > o => IF Ends(B[o]) THEN B[o + 1].at = 1 ELSE TRUE
          BY <5>2 DEF Rows
        <5>4. QED
          BY <5>1, <5>3
      <4>3. QED
        BY <4>1, <4>2
    <3>2. f = 1
      <4>1. CASE m = o
        BY <1>1, <1>2, <1>5, <2>4, <4>1
      <4>2. CASE m # o
        <5>1. m > o /\ 1 \in 1 .. m - o
          BY <1>1, <1>2, <4>2
        <5>2. s[1].at = 1
          BY <1>5, <3>1, <5>1
        <5>3. ~(1 \in 1 .. f - 1)
          BY <2>4, <5>2
        <5>4. QED
          BY <2>5, <5>3
      <4>3. QED
        BY <4>1, <4>2
    <3>3. ReadTo(Fed(r, SubSeq(B, o + 1, o + c)), B, S, o + c)
      <4>1. o \in S .. Len(B) /\ o + c \in o .. Len(B)
        BY <1>1, <1>2, <1>4, <2>5
      <4>2. QED
        BY <1>4, <4>1, FedReads
    <3>4. ReadTo(Fed(r, p.text), B, S, o + p.consumed)
      BY <2>4, <2>6, <3>2, <3>3
    <3>5. o + c = S \/ Ends(B[o + c])
      <4>1. c = 0 => o + c = o
        BY <1>1
      <4>2. QED
        BY <1>4, <1>7, <2>8, <3>2, <4>1
    <3>6. S <= o + c
      BY <1>1, <1>4, <2>5
    <3>7. Reached(Fed(r, p.text), B, J, S, o + p.consumed)
      BY <1>4, <2>4, <3>4, <3>5, <3>6 DEF Reached
    <3>8. QED
      BY <2>7, <3>7 DEF p, o
  <2>11. QED
    BY <2>9, <2>10
<1>8. QED
  BY <1>6, <1>7
-------------------------------------------------------------------------------
\* Whatever a file holds, a part of it is read.
LEMMA PartIsBlocks ==
  ASSUME compressed \in BOOLEAN, NEW B \in Seq(Block), NEW r, r.offset \in Nat
  PROVE  PartOf(r, B).text \in Seq(Block) /\ PartOf(r, B).consumed \in Nat
<1> DEFINE o == r.offset
           m == Min({Len(B), o + ReadLimit})
           s == SubSeq(B, o + 1, m)
           p == PartOf(r, B)
<1>1. Len(B) \in Nat /\ o \in Nat /\ ReadLimit \in Nat /\ o + ReadLimit \in Nat
  BY ReaderConstants
<1>2. p = IF compressed THEN Frames(s) ELSE [text |-> s, consumed |-> Len(s)]
  BY DEF PartOf
<1> HIDE DEF o, p
<1>3. m \in Nat /\ m <= Len(B)
  <2>1. m = IF Len(B) <= o + ReadLimit THEN Len(B) ELSE o + ReadLimit
    BY <1>1, MinOfTwo
  <2> HIDE DEF m
  <2>2. QED
    BY <1>1, <2>1
<1> HIDE DEF m
<1>4. s \in Seq(Block)
  <2>1. o + 1 \in Int /\ m \in Int /\ \A i \in o + 1 .. m : B[i] \in Block
    BY <1>1, <1>3
  <2>2. QED
    BY <2>1, SubSeqProperties
<1> HIDE DEF s
<1>5. CASE ~compressed
  <2>1. p.text = s /\ p.consumed = Len(s)
    BY <1>2, <1>5
  <2>2. QED
    BY <1>4, <2>1 DEF p
<1>6. CASE compressed
  <2>1. p = Frames(s)
    BY <1>2, <1>6
  <2>2. PICK f \in 1 .. Len(s) + 1 : \E c \in f - 1 .. Len(s) : /\ Frames(s).text = SubSeq(s, f, c)
                                                               /\ Frames(s).consumed = c
    BY <1>4, FramesOf
  <2>3. PICK c \in f - 1 .. Len(s) : p.text = SubSeq(s, f, c) /\ p.consumed = c
    BY <2>1, <2>2
  <2>4. /\ f \in Int /\ c \in Int /\ c \in Nat /\ \A i \in f .. c : s[i] \in Block
    BY <1>4, <2>2, <2>3
  <2>5. SubSeq(s, f, c) \in Seq(Block)
    BY <2>4, SubSeqProperties
  <2>6. QED
    BY <2>3, <2>4, <2>5 DEF p
<1>7. QED
  BY <1>5, <1>6

\* The steps of a read.
Opens(r)    == [r EXCEPT !.identity = opened.id, !.modified = opened.modified]
Moved(r, of) == [r EXCEPT !.offset = of]
Signed(r, ch) == [r EXCEPT !.checkpoint = ch]
Base        == IF Reset THEN FreshReader ELSE tail
Ahead       == StartPoint(Opens(Base))
Cut(r)      == r.torn \/ opened.cut

LEMMA MovedIs ==
  ASSUME NEW r, IsReader(r), NEW of, NEW ch
  PROVE  /\ Moved(r, of) = Reader(of, r.pending, r.skipping, r.entries, r.checkpoint,
                                  r.modified, r.identity, r.omitted, r.torn)
         /\ Signed(r, ch) = Reader(r.offset, r.pending, r.skipping, r.entries, ch,
                                   r.modified, r.identity, r.omitted, r.torn)
<1>1. r = Reader(r.offset, r.pending, r.skipping, r.entries, r.checkpoint, r.modified,
                 r.identity, r.omitted, r.torn)
  BY DEF IsReader
<1>2. Moved(r, of) = Reader(of, r.pending, r.skipping, r.entries, r.checkpoint,
                            r.modified, r.identity, r.omitted, r.torn)
  BY <1>1 DEF Reader, Moved
<1>3. Signed(r, ch) = Reader(r.offset, r.pending, r.skipping, r.entries, ch,
                             r.modified, r.identity, r.omitted, r.torn)
  BY <1>1 DEF Reader, Signed
<1>4. QED
  BY <1>2, <1>3

LEMMA OpensIs ==
  ASSUME NEW r, IsReader(r)
  PROVE  Opens(r) = Reader(r.offset, r.pending, r.skipping, r.entries, r.checkpoint,
                           opened.modified, opened.id, r.omitted, r.torn)
<1> DEFINE id == opened.id
           mo == opened.modified
           p  == [r EXCEPT !.identity = id]
<1> HIDE DEF id, mo
<1>1. r = Reader(r.offset, r.pending, r.skipping, r.entries, r.checkpoint, r.modified,
                 r.identity, r.omitted, r.torn)
  BY DEF IsReader
<1>2. p = Reader(r.offset, r.pending, r.skipping, r.entries, r.checkpoint, r.modified, id,
                 r.omitted, r.torn)
  BY <1>1 DEF Reader
<1>3. Opens(r) = [p EXCEPT !.modified = mo]
  BY DEF Opens, id, mo
<1> HIDE DEF p
<1>4. [p EXCEPT !.modified = mo] = Reader(r.offset, r.pending, r.skipping, r.entries,
                                          r.checkpoint, mo, id, r.omitted, r.torn)
  BY <1>2 DEF Reader
<1>5. QED
  BY <1>3, <1>4 DEF id, mo

LEMMA StartPointIs ==
  ASSUME NEW r, IsReader(r)
  PROVE  /\ ~(opened.len - r.offset > ReadLimit) => StartPoint(r) = r
         /\ opened.len - r.offset > ReadLimit =>
              StartPoint(r) = Reader(opened.len - ReadLimit, <<>>, Yes, r.entries, r.checkpoint,
                                     r.modified, r.identity, Yes, Cut(r))
<1> DEFINE of == opened.len - ReadLimit
           p  == [r EXCEPT !.offset = of]
           q  == TooLong(p)
           c  == Cut(r)
<1>1. r = Reader(r.offset, r.pending, r.skipping, r.entries, r.checkpoint, r.modified,
                 r.identity, r.omitted, r.torn)
  BY DEF IsReader
<1>2. opened.len - r.offset > ReadLimit => StartPoint(r) = [q EXCEPT !.torn = c]
  <2>1. r.torn \/ opened.cut <=> c
    BY DEF Cut
  <2>2. opened.len - r.offset > ReadLimit =>
          StartPoint(r) = [r EXCEPT !.offset = of, !.pending = <<>>, !.skipping = TRUE,
                                    !.omitted = TRUE, !.torn = r.torn \/ opened.cut]
    BY DEF StartPoint
  <2>3. [r EXCEPT !.offset = of, !.pending = <<>>, !.skipping = TRUE, !.omitted = TRUE,
                  !.torn = r.torn \/ opened.cut]
        = [q EXCEPT !.torn = c]
    BY DEF TooLong, Yes, Cut
  <2>4. QED
    BY <2>2, <2>3
<1> HIDE DEF of, c
<1>3. p = Reader(of, r.pending, r.skipping, r.entries, r.checkpoint, r.modified, r.identity,
                 r.omitted, r.torn)
  BY <1>1 DEF Reader
<1> HIDE DEF p
<1>4. IsReader(p)
  BY <1>3 DEF Reader, IsReader
<1>5. q = Reader(p.offset, <<>>, Yes, p.entries, p.checkpoint, p.modified, p.identity, Yes, p.torn)
  BY <1>4, ReaderChanges
<1>6. q = Reader(of, <<>>, Yes, r.entries, r.checkpoint, r.modified, r.identity, Yes, r.torn)
  BY <1>3, <1>5 DEF Reader
<1> HIDE DEF q
<1>7. [q EXCEPT !.torn = c]
        = Reader(of, <<>>, Yes, r.entries, r.checkpoint, r.modified, r.identity, Yes, c)
  BY <1>6 DEF Reader
<1>8. ~(opened.len - r.offset > ReadLimit) => StartPoint(r) = r
  BY DEF StartPoint
<1>9. QED
  BY <1>2, <1>7, <1>8 DEF of, c
LEMMA HeldBlocks ==
  ASSUME LogOK, OpenedOK
  PROVE  /\ Held \in Seq(Block)
         /\ opened.id = log.id => Held = log.blocks
         /\ opened.id = log.id /\ ~opened.cut => opened.len <= Len(log.blocks)
         /\ opened.id \in Nat /\ opened.id <= log.id /\ opened.len \in Nat
<1>1. opened.rest \in Seq(Block) /\ opened.id \in Nat /\ opened.len \in Nat
  BY DEF OpenedOK, OpenFile
<1>2. log.blocks \in Seq(Block)
  BY DEF LogOK, Rows
<1>3. QED
  BY <1>1, <1>2 DEF Held, OpenedOK

LEMMA FreshIs == FreshReader = Reader(0, <<>>, No, <<>>, <<>>, 0, Nobody, No, No)
  BY DEF FreshReader, Reader, No

LEMMA BaseIsReader ==
  ASSUME TailOK
  PROVE  IsReader(Base) /\ Base.offset \in Nat
<1>1. IsReader(FreshReader) /\ FreshReader.offset = 0
  BY FreshIs DEF Reader, IsReader
<1>2. QED
  BY <1>1 DEF Base, TailOK

LEMMA AheadIsReader ==
  ASSUME LogOK, OpenedOK, TailOK
  PROVE  IsReader(Ahead) /\ Ahead.offset \in Nat /\ Ahead.identity = opened.id
<1> DEFINE r == Opens(Base)
<1>1. r = Reader(Base.offset, Base.pending, Base.skipping, Base.entries, Base.checkpoint,
                 opened.modified, opened.id, Base.omitted, Base.torn)
  BY BaseIsReader, OpensIs
<1> HIDE DEF r
<1>2. IsReader(r) /\ r.offset = Base.offset /\ r.identity = opened.id
  BY <1>1 DEF Reader, IsReader
<1>3. opened.len \in Nat /\ ReadLimit \in Nat /\ r.offset \in Nat
  BY <1>2, BaseIsReader, HeldBlocks, ReaderConstants
<1>4. Ahead = StartPoint(r)
  BY DEF Ahead, r
<1>5. CASE opened.len - r.offset > ReadLimit
  <2> DEFINE of == opened.len - ReadLimit
  <2>1. Ahead = Reader(of, <<>>, Yes, r.entries, r.checkpoint, r.modified, r.identity, Yes,
                       Cut(r))
    BY <1>2, <1>4, <1>5, StartPointIs
  <2>2. of \in Nat
    BY <1>3, <1>5
  <2> HIDE DEF of
  <2>3. IsReader(Ahead) /\ Ahead.offset = of /\ Ahead.identity = r.identity
    BY <2>1 DEF Reader, IsReader
  <2>4. QED
    BY <1>2, <2>2, <2>3
<1>6. CASE ~(opened.len - r.offset > ReadLimit)
  BY <1>2, <1>3, <1>4, <1>6, StartPointIs
<1>7. QED
  BY <1>5, <1>6

\* The checkpoint begins at a block of the file, and holds one unless nothing is read.
LEMMA CheckPlace ==
  ASSUME NEW o \in Nat
  PROVE  /\ Max({1, o - CheckLen + 1}) \in Nat \ {0}
         /\ o # 0 => Max({1, o - CheckLen + 1}) <= o
<1> DEFINE x == o - CheckLen + 1
           y == IF 1 >= x THEN 1 ELSE x
<1>1. x \in Int /\ x <= o
  BY ReaderConstants
<1> HIDE DEF x
<1>2. y \in {1, x} /\ \A z \in {1, x} : y >= z
  BY <1>1
<1>3. \A z \in {1, x} : (\A w \in {1, x} : z >= w) => z = y
  BY <1>1, <1>2
<1> HIDE DEF y
<1>4. Max({1, x}) = y
  BY <1>2, <1>3 DEF Max
<1>5. QED
  BY <1>1, <1>4 DEF x, y

\* The checkpoint finds a reader of what was cut out.
LEMMA OutdatedStartsOver ==
  ASSUME LogOK, NEW r, Outdated(r), r.offset \in Nat, r.offset <= Len(log.blocks)
  PROVE  r.checkpoint # Check(log.blocks, r.offset)
<1> DEFINE B == log.blocks
           o == r.offset
           a == Max({1, o - CheckLen + 1})
<1>1. B \in Seq(Block) /\ Len(B) \in Nat /\ o \in Nat /\ o <= Len(B) /\ CheckLen \in Nat \ {0}
  BY ReaderConstants DEF LogOK, Rows
<1> HIDE DEF o
<1>3. a \in Nat \ {0}
  BY <1>1, CheckPlace
<1> HIDE DEF a
<1>4. \A i \in 1 .. o - a + 1 : SubSeq(B, a, o)[i] = B[a + i - 1]
  BY <1>1, <1>3
<1>5. DOMAIN SubSeq(B, a, o) \subseteq 1 .. o - a + 1
  <2>1. a \in Int /\ o \in Int /\ \A i \in a .. o : B[i] \in Block
    BY <1>1, <1>3
  <2>2. SubSeq(B, a, o) \in Seq(Block) /\ Len(SubSeq(B, a, o)) = IF a <= o THEN o - a + 1 ELSE 0
    BY <2>1, SubSeqProperties
  <2>3. QED
    BY <1>1, <1>3, <2>2
<1>6. SUFFICES ASSUME r.checkpoint = SubSeq(B, a, o) PROVE FALSE
  BY DEF Check, a, o
<1>7. PICK i \in DOMAIN r.checkpoint : \A j \in DOMAIN B : B[j].row # r.checkpoint[i].row
  BY DEF Outdated
<1>8. i \in 1 .. o - a + 1 /\ r.checkpoint[i] = B[a + i - 1]
  BY <1>4, <1>5, <1>6, <1>7
<1>9. a + i - 1 \in DOMAIN B
  BY <1>1, <1>3, <1>8
<1>10. QED
  BY <1>7, <1>8, <1>9

\* A read of the log from where the reader is: it agrees with the log.
LEMMA BaseAgrees ==
  ASSUME compressed \in BOOLEAN, LogOK, OpenedOK, TailOK, opened.id = log.id,
         ~Within, Replaced \/ tail.offset <= Len(Held), ~Base.torn
  PROVE  Reads(Base, log.blocks)
<1> DEFINE B == log.blocks
<1>1. Rows(B) /\ Held = B /\ Len(B) \in Nat
  BY HeldBlocks DEF LogOK, Rows
<1>2. /\ FreshReader.offset = 0 /\ FreshReader.pending = <<>> /\ FreshReader.skipping = FALSE
      /\ FreshReader.entries = <<>>
  BY DEF FreshReader
<1>3. HasRead(FreshReader, B, 0, 0)
  BY <1>1, <1>2, FreshReads
<1>4. CASE Base = FreshReader
  BY <1>1, <1>2, <1>3, <1>4 DEF Reads
<1>5. CASE Base # FreshReader
  <2>1. Base = tail /\ ~Reset /\ tail # FreshReader
    BY <1>5 DEF Base
  <2>2. ~Replaced /\ Check(B, tail.offset) = tail.checkpoint
    BY <1>1, <2>1 DEF Reset
  <2>3. tail.identity = log.id
    <3>1. tail.identity \in Nat
      BY <2>1 DEF TailOK, LogOK
    <3>2. tail.identity \in {Nobody, opened.id}
      BY <2>2 DEF Replaced
    <3>3. QED
      BY <3>1, <3>2, ReaderConstants
  <2>4. tail.offset \in Nat /\ tail.offset <= Len(B)
    BY <1>1, <2>2 DEF TailOK
  <2>5. ~Outdated(tail)
    BY <2>2, <2>4, OutdatedStartsOver
  <2>6. Agrees(tail, B)
    BY <2>1, <2>3, <2>5 DEF TailOK
  <2>7. QED
    BY <2>1, <2>6 DEF Agrees
<1>6. QED
  BY <1>4, <1>5
LEMMA SameReads ==
  ASSUME NEW r, NEW q, NEW B, NEW J, NEW S, HasRead(r, B, J, S),
         q.offset = r.offset, q.pending = r.pending, q.skipping = r.skipping,
         q.entries = r.entries, q.omitted = r.omitted
  PROVE  HasRead(q, B, J, S)
<1>1. ReadTo(r, B, S, r.offset)
  BY DEF HasRead
<1>2. ReadTo(q, B, S, q.offset)
  BY <1>1, ReadByEntries
<1>3. QED
  BY <1>2 DEF HasRead

LEMMA AheadAgrees ==
  ASSUME compressed \in BOOLEAN, LogOK, OpenedOK, TailOK, opened.id = log.id,
         ~Within, Replaced \/ tail.offset <= Len(Held), ~Ahead.torn
  PROVE  Reads(Ahead, log.blocks)
<1> DEFINE B == log.blocks
           r == Opens(Base)
<1>1. Rows(B) /\ Held = B /\ Len(B) \in Nat /\ opened.len \in Nat
      /\ (~opened.cut => opened.len <= Len(B)) /\ ReadLimit \in Nat \ {0}
  BY HeldBlocks, ReaderConstants DEF LogOK, Rows
<1>2. r = Reader(Base.offset, Base.pending, Base.skipping, Base.entries, Base.checkpoint,
                 opened.modified, opened.id, Base.omitted, Base.torn)
  BY BaseIsReader, OpensIs
<1>3. Ahead = StartPoint(r)
  BY DEF Ahead
<1> HIDE DEF r
<1>4. /\ IsReader(r) /\ r.offset = Base.offset /\ r.pending = Base.pending
      /\ r.skipping = Base.skipping /\ r.entries = Base.entries /\ r.omitted = Base.omitted
      /\ r.torn = Base.torn
  BY <1>2 DEF Reader, IsReader
<1>5. ASSUME ~r.torn
      PROVE  \E J, S \in Nat : r.offset \in 0 .. Len(B) /\ HasRead(r, B, J, S)
  <2>1. Reads(Base, B)
    BY <1>4, <1>5, BaseAgrees
  <2>2. PICK J \in Nat, S \in Nat : HasRead(Base, B, J, S)
    BY <2>1 DEF Reads
  <2>3. Base.offset \in 0 .. Len(B)
    BY <2>1 DEF Reads
  <2>4. HasRead(r, B, J, S)
    BY <1>4, <2>2, SameReads
  <2>5. QED
    BY <1>4, <2>3, <2>4
<1>6. CASE ~(opened.len - r.offset > ReadLimit)
  <2>1. Ahead = r
    BY <1>3, <1>4, <1>6, StartPointIs
  <2>2. QED
    BY <1>5, <2>1 DEF Reads
<1>7. CASE opened.len - r.offset > ReadLimit
  <2> DEFINE of == opened.len - ReadLimit
  <2>1. Ahead = Reader(of, <<>>, Yes, r.entries, r.checkpoint, r.modified, r.identity, Yes,
                       Cut(r))
    BY <1>3, <1>4, <1>7, StartPointIs
  <2>2. ~r.torn /\ ~opened.cut
    <3>1. Ahead.torn = Cut(r)
      BY <2>1 DEF Reader
    <3>2. QED
      BY <3>1 DEF Cut
  <2>3. PICK J \in Nat, S \in Nat : r.offset \in 0 .. Len(B) /\ HasRead(r, B, J, S)
    BY <1>5, <2>2
  <2>4. of \in Nat \ {0} /\ of + ReadLimit <= Len(B) /\ of <= Len(B)
    BY <1>1, <1>7, <2>2, <2>3
  <2> HIDE DEF of
  <2>5. Ahead.offset = of /\ Ahead.skipping = Yes /\ Ahead.entries = r.entries
        /\ Ahead.omitted = Yes
    BY <2>1 DEF Reader
  <2>6. Ahead.skipping = TRUE
    BY <2>5 DEF Yes
  <2>7. Ahead.omitted
    BY <2>5 DEF Yes
  <2>8. r.entries \in Seq(Entry) /\ Len(r.entries) <= EntryLimit
    BY <2>3 DEF HasRead, ReadTo
  <2>9. ReadTo(Ahead, B, of, of)
    BY <2>4, <2>5, <2>6, <2>7, <2>8, JumpedReads
  <2>10. BeganAt(B, of, of)
    BY <2>4 DEF BeganAt
  <2>11. HasRead(Ahead, B, of, of)
    BY <2>4, <2>5, <2>9, <2>10 DEF HasRead
  <2>12. Ahead.offset \in 0 .. Len(B)
    BY <1>1, <2>4, <2>5
  <2>13. QED
    BY <2>4, <2>11, <2>12 DEF Reads
<1>8. QED
  BY <1>6, <1>7

LEMMA TakeAgrees ==
  ASSUME compressed \in BOOLEAN, NEW B, Rows(B), NEW r, IsReader(r), Reads(r, B)
  PROVE  Reads(Moved(Fed(r, PartOf(r, B).text), r.offset + PartOf(r, B).consumed), B)
<1> DEFINE p == PartOf(r, B)
           q == Fed(r, p.text)
           n == r.offset + p.consumed
           t == Moved(q, n)
<1>1. r.offset \in 0 .. Len(B) /\ Len(B) \in Nat
  BY DEF Reads, Rows
<1>2. PICK J \in Nat, S \in Nat : HasRead(r, B, J, S)
  BY DEF Reads
<1>3. /\ p.text \in Seq(Block) /\ p.consumed \in 0 .. Len(B) - r.offset
      /\ \E K \in Nat : Reached(q, B, J, K, n)
  BY <1>1, <1>2, PartReads
<1>4. IsReader(q)
  BY <1>3, FedKeepsFile
<1>5. n \in 0 .. Len(B)
  <2> HIDE DEF p
  <2>1. QED
    BY <1>1, <1>3
<1> HIDE DEF p, q, n
<1>6. t = Reader(n, q.pending, q.skipping, q.entries, q.checkpoint, q.modified, q.identity,
                 q.omitted, q.torn)
  BY <1>4, MovedIs
<1> HIDE DEF t
<1>7. /\ t.offset = n /\ t.pending = q.pending /\ t.skipping = q.skipping
      /\ t.entries = q.entries /\ t.omitted = q.omitted
  BY <1>6 DEF Reader
<1>8. PICK K \in Nat : Reached(q, B, J, K, n)
  BY <1>3
<1>9. HasRead(t, B, J, K)
  <2>1. ReadTo(t, B, K, n)
    BY <1>7, <1>8, ReadByEntries DEF Reached
  <2>2. QED
    BY <1>7, <1>8, <2>1 DEF Reached, HasRead
<1>10. Reads(t, B)
  BY <1>5, <1>7, <1>9 DEF Reads
<1>11. QED
  BY <1>10 DEF t, q, n, p

-------------------------------------------------------------------------------
\* What a reader will have read, said of it now.
LEMMA ReadsThen ==
  ASSUME compressed' = compressed, NEW q, tail' = q, NEW B, log'.blocks = B
  PROVE  Reads(tail, log.blocks)' <=> Reads(q, B)
  BY DEF Reads, HasRead, BeganAt, ReadTo, NoEnd, Given, Lost, LineKept, Line, NewestShown,
         Newest, Told, Clean, LastEnd, Shown, Upto

\* What was read of a log is that also when more is written.
LEMMA LongerReads ==
  ASSUME NEW r, NEW B, Rows(B), NEW b \in Block, NEW S \in Nat, NEW n \in S .. Len(B),
         ReadTo(r, B, S, n)
  PROVE  ReadTo(r, Append(B, b), S, n)
<1> DEFINE A == Append(B, b)
<1>1. B \in Seq(Block) /\ Len(B) \in Nat /\ n \in Nat /\ n <= Len(B)
  BY DEF Rows
<1>2. \A k \in 1 .. n : A[k] = B[k] /\ B[k] \in Block
  BY <1>1
<1>3. \A e \in 0 .. n : SubSeq(A, e + 1, n) = SubSeq(B, e + 1, n)
  BY <1>1
<1>4. Upto(A, n) = Upto(B, n)
  BY <1>1, UptoOfLonger
<1> HIDE DEF A
<1>5. NoEnd(B, S, n) => NoEnd(A, S, n)
  BY <1>1, <1>2 DEF NoEnd
<1>6. ASSUME NEW e \in S .. n, LastEnd(B, S, n, e), LineKept(r, B, n, e)
      PROVE  LastEnd(A, S, n, e) /\ LineKept(r, A, n, e)
  <2>1. \A k \in S + 1 .. n : A[k] = B[k]
    BY <1>2
  <2>2. LastEnd(A, S, n, e)
    BY <1>1, <1>6, <2>1 DEF LastEnd
  <2>3. n > e => A[n] = B[n]
    BY <1>1, <1>2
  <2>4. SubSeq(A, e + 1, n) = SubSeq(B, e + 1, n)
    BY <1>1, <1>3
  <2>5. LineKept(r, A, n, e)
    BY <1>6, <2>3, <2>4 DEF LineKept, Line
  <2>6. QED
    BY <2>2, <2>5
<1>7. NewestShown(r, A, S, n)
  <2>1. SUFFICES ASSUME NEW i \in 1 .. n, Newest(A, S, n, i), A[i].key \in Message,
                        A[i].size <= RecordLimit, Told(A, S, i)
                 PROVE  Shown(r, A[i].row)
    BY DEF NewestShown
  <2>2. A[i] = B[i] /\ B[i] \in Block
    BY <1>2
  <2>3. B[i].size \in Nat \ {0}
    BY <2>2 DEF Block
  <2>4. Newest(B, S, n, i)
    BY <1>1, <1>2, <2>1 DEF Newest
  <2>5. Told(B, S, i)
    <3>1. SUFFICES ASSUME S # 0, NEW k \in S + 1 .. i - A[i].size, Given(A[k]) PROVE Told(B, S, i)
      BY <2>1 DEF Told
    <3>2. k \in S + 1 .. i - B[i].size /\ k \in 1 .. n
      BY <1>1, <2>2, <2>3, <3>1
    <3>3. Given(B[k])
      BY <1>2, <3>1, <3>2
    <3>4. QED
      BY <3>2, <3>3 DEF Told
  <2>6. NewestShown(r, B, S, n)
    BY DEF ReadTo
  <2>7. QED
    BY <2>1, <2>2, <2>4, <2>5, <2>6 DEF NewestShown
<1>8. Clean(B, n) => Clean(A, n)
  BY <1>2 DEF Clean
<1>9. \/ NoEnd(A, S, n) /\ r.skipping
      \/ \E e \in S .. n : LastEnd(A, S, n, e) /\ LineKept(r, A, n, e)
  BY <1>5, <1>6 DEF ReadTo
<1>10. ReadTo(r, A, S, n)
  BY <1>4, <1>7, <1>8, <1>9 DEF ReadTo
<1>11. QED
  BY <1>10 DEF A

LEMMA LongerAgrees ==
  ASSUME compressed \in BOOLEAN, NEW r, NEW B, Rows(B), NEW b \in Block, Reads(r, B)
  PROVE  /\ Reads(r, Append(B, b))
         /\ Agrees(r, B) => Agrees(r, Append(B, b))
<1> DEFINE A == Append(B, b)
           o == r.offset
           a == Max({1, o - CheckLen + 1})
<1>1. B \in Seq(Block) /\ Len(B) \in Nat /\ o \in 0 .. Len(B) /\ ReadLimit \in Nat
  BY ReaderConstants DEF Rows, Reads
<1>2. Len(A) = Len(B) + 1 /\ \A k \in 1 .. Len(B) : A[k] = B[k]
  BY <1>1
<1>3. a \in Nat \ {0}
  BY <1>1, CheckPlace
<1> HIDE DEF o, a
<1>4. SubSeq(A, a, o) = SubSeq(B, a, o)
  BY <1>1, <1>3
<1>5. Check(A, o) = Check(B, o)
  BY <1>4 DEF Check, a, o
<1> HIDE DEF A
<1>6. PICK J \in Nat, S \in Nat : HasRead(r, B, J, S)
  BY DEF Reads
<1>7. BeganAt(B, J, S) /\ S <= o /\ (compressed => o = S \/ Ends(B[o])) /\ ReadTo(r, B, S, o)
  BY <1>6 DEF HasRead, o
<1>8. BeganAt(A, J, S)
  <2>1. \A i \in J + 1 .. S : A[i] = B[i]
    BY <1>1, <1>2, <1>7
  <2>2. QED
    BY <1>1, <1>2, <1>7, <2>1 DEF BeganAt
<1>9. compressed => o = S \/ Ends(A[o])
  BY <1>1, <1>2, <1>7
<1>10. ReadTo(r, A, S, o)
  <2>1. o \in S .. Len(B)
    BY <1>1, <1>7
  <2>2. QED
    BY <1>7, <2>1, LongerReads DEF A
<1>11. HasRead(r, A, J, S)
  BY <1>7, <1>8, <1>9, <1>10 DEF HasRead, o
<1>12. Reads(r, A)
  BY <1>1, <1>2, <1>11 DEF Reads, o
<1>13. Agrees(r, B) => Agrees(r, A)
  BY <1>5, <1>12 DEF Agrees, o
<1>14. QED
  BY <1>12, <1>13 DEF A

LEMMA LongerRows ==
  ASSUME NEW B, Rows(B), NEW b \in Block, b.at <= b.size,
         B = <<>> => b.at = 1,
         B # <<>> => IF Ends(B[Len(B)]) THEN b.at = 1
                     ELSE /\ b.at = B[Len(B)].at + 1 /\ b.row = B[Len(B)].row
                          /\ b.key = B[Len(B)].key /\ b.size = B[Len(B)].size
  PROVE  Rows(Append(B, b))
<1> DEFINE A == Append(B, b)
<1>1. B \in Seq(Block) /\ Len(B) \in Nat /\ DOMAIN B = 1 .. Len(B)
  BY DEF Rows
<1>2. /\ A \in Seq(Block) /\ Len(A) = Len(B) + 1 /\ DOMAIN A = 1 .. Len(B) + 1
      /\ A[Len(B) + 1] = b /\ \A k \in 1 .. Len(B) : A[k] = B[k]
  BY <1>1
<1> HIDE DEF A
<1>3. \A i \in DOMAIN A : A[i].at <= A[i].size
  BY <1>1, <1>2 DEF Rows
<1>4. A[1].at = 1
  <2>1. CASE B = <<>>
    <3>1. Len(B) = 0
      BY <2>1
    <3>2. QED
      BY <1>2, <2>1, <3>1
  <2>2. CASE B # <<>>
    <3>1. 1 \in 1 .. Len(B)
      BY <1>1, <2>2
    <3>2. QED
      BY <1>2, <2>2, <3>1 DEF Rows
  <2>3. QED
    BY <2>1, <2>2
<1>5. ASSUME NEW i \in 2 .. Len(A)
      PROVE  IF Ends(A[i - 1]) THEN A[i].at = 1
             ELSE /\ A[i].at = A[i - 1].at + 1 /\ A[i].row = A[i - 1].row
                  /\ A[i].key = A[i - 1].key /\ A[i].size = A[i - 1].size
  <2>1. i - 1 \in 1 .. Len(B) /\ A[i - 1] = B[i - 1]
    BY <1>1, <1>2
  <2>2. CASE i = Len(B) + 1
    <3>1. B # <<>> /\ i - 1 = Len(B) /\ A[i] = b
      BY <1>1, <1>2, <2>1, <2>2
    <3>2. QED
      BY <2>1, <3>1
  <2>3. CASE i # Len(B) + 1
    <3>1. i \in 2 .. Len(B) /\ i \in 1 .. Len(B)
      BY <1>1, <1>2, <2>3
    <3>2. A[i] = B[i]
      BY <1>2, <3>1
    <3>3. QED
      BY <2>1, <3>1, <3>2 DEF Rows
  <2>4. QED
    BY <2>2, <2>3
<1>6. Rows(A)
  BY <1>2, <1>3, <1>4, <1>5 DEF Rows
<1>7. QED
  BY <1>6 DEF A
\* Whether a reader is outdated, said of another log.
LEMMA GrowthKeeps ==
  ASSUME LogInv, NEW b \in Block, Rows(Append(log.blocks, b)),
         log' = LogFile(log.id, Append(log.blocks, b), log.writes + 1),
         rowsOut' \in Nat, rowsOut <= rowsOut', b.row <= rowsOut',
         b.row > rowsOut \/ \E j \in DOMAIN log.blocks : log.blocks[j].row = b.row,
         UNCHANGED <<compressed, opened, tail>>
  PROVE  LogInv'
<1> DEFINE B == log.blocks
           A == Append(B, b)
<1>1. /\ compressed \in BOOLEAN /\ log.id \in Nat /\ log.writes \in Nat /\ rowsOut \in Nat
      /\ Rows(B) /\ \A i \in DOMAIN B : B[i].row <= rowsOut
      /\ OpenedOK /\ TailOK
  BY DEF LogInv, LogOK
<1>2. log'.id = log.id /\ log'.blocks = A /\ log'.writes = log.writes + 1
  BY DEF LogFile
<1>3. B \in Seq(Block) /\ Len(B) \in Nat /\ DOMAIN B = 1 .. Len(B)
      /\ \A i \in DOMAIN B : B[i].row \in Nat
  <2>1. B \in Seq(Block)
    BY <1>1 DEF Rows
  <2>2. \A i \in DOMAIN B : B[i] \in Block
    BY <2>1
  <2>3. QED
    BY <2>1, <2>2 DEF Block
<1>4. /\ DOMAIN A = 1 .. Len(B) + 1 /\ Len(A) = Len(B) + 1 /\ A[Len(B) + 1] = b
      /\ \A i \in 1 .. Len(B) : A[i] = B[i]
  BY <1>3
<1>5. Rows(A)
  OBVIOUS
<1> HIDE DEF A
<1>6. \A i \in DOMAIN A : A[i].row <= rowsOut'
  <2> TAKE i \in DOMAIN A
  <2>1. CASE i = Len(B) + 1
    BY <1>4, <2>1
  <2>2. CASE i # Len(B) + 1
    BY <1>1, <1>3, <1>4, <2>2
  <2>3. QED
    BY <2>1, <2>2
<1>7. LogOK'
  <2>1. log' = LogFile(log'.id, log'.blocks, log'.writes)
    BY <1>2 DEF A
  <2>2. log'.id \in Nat /\ log'.writes \in Nat
    BY <1>1, <1>2
  <2>3. Rows(log'.blocks) /\ \A i \in DOMAIN log'.blocks : log'.blocks[i].row <= rowsOut'
    BY <1>2, <1>5, <1>6
  <2>4. QED
    BY <2>1, <2>2, <2>3 DEF LogOK, Rows, LogFile, Block, Ends
<1>8. OpenedOK'
  <2>1. /\ opened \in OpenFile /\ opened.len \in Nat
        /\ opened.id <= log.id
        /\ opened.id = log.id /\ ~opened.cut => opened.len <= Len(B)
    BY <1>1 DEF OpenedOK, OpenFile
  <2>2. opened' \in OpenFile /\ opened'.id <= log'.id
    BY <1>2, <2>1
  <2>3. opened'.id = log'.id /\ ~opened'.cut => opened'.len <= Len(log'.blocks)
    BY <1>2, <1>3, <1>4, <2>1
  <2>4. QED
    BY <2>2, <2>3 DEF OpenedOK, OpenFile, Block
<1>9. (Reads(tail, B) => Reads(tail, A)) /\ (Agrees(tail, B) => Agrees(tail, A))
  <2>1. Agrees(tail, B) => Reads(tail, B)
    BY DEF Agrees
  <2>2. QED
    BY <1>1, <2>1, LongerAgrees DEF A
<1>10. ASSUME Outdated(tail)
       PROVE  Outdated(tail)'
  <2>1. PICK i \in DOMAIN tail.checkpoint :
          /\ tail.checkpoint[i].row \in 0 .. rowsOut
          /\ \A j \in DOMAIN B : B[j].row # tail.checkpoint[i].row
    BY <1>10 DEF Outdated
  <2> DEFINE x == tail.checkpoint[i].row
  <2>2. x \in 0 .. rowsOut /\ \A j \in DOMAIN B : B[j].row # x
    BY <2>1
  <2> HIDE DEF x
  <2>3. x \in 0 .. rowsOut' /\ b.row # x
    BY <1>1, <2>2 DEF Block
  <2>4. \A j \in DOMAIN A : A[j].row # x
    BY <1>3, <1>4, <2>2, <2>3
  <2>5. QED
    BY <1>2, <2>1, <2>3, <2>4 DEF Outdated, x
<1>11. Reads(tail, log.blocks)' <=> Reads(tail, A)
  BY <1>2, ReadsThen DEF A
<1>12. Agrees(tail, log.blocks)' <=> Agrees(tail, A)
  BY <1>2, <1>11 DEF Agrees, A
<1>13. TailOK'
  <2>1. Within' = Within
    BY DEF Within, At
  <2>2. tail' = tail /\ opened' = opened /\ log'.id = log.id
    BY <1>2
  <2>3. tail.identity = log.id /\ ~tail.torn =>
          IF Within THEN Reads(tail, A) ELSE Agrees(tail, A) \/ Outdated(tail)'
    BY <1>1, <1>9, <1>10 DEF TailOK
  <2>4. (tail.identity = log.id /\ ~tail.torn =>
          IF Within THEN Reads(tail, log.blocks) ELSE Agrees(tail, log.blocks) \/ Outdated(tail))'
    BY <1>11, <1>12, <2>1, <2>2, <2>3
  <2>5. QED
    BY <1>1, <2>1, <2>2, <2>4 DEF TailOK, IsReader
<1>14. QED
  BY <1>1, <1>7, <1>8, <1>13 DEF LogInv

LEMMA WriteIs ==
  ASSUME LogOK, NEW blocks, Write(blocks)
  PROVE  log' = LogFile(log.id, blocks, log.writes + 1)
<1> DEFINE p == [log EXCEPT !.blocks = blocks]
           w == log.writes + 1
<1>1. log = LogFile(log.id, log.blocks, log.writes)
  BY DEF LogOK
<1>2. p = LogFile(log.id, blocks, log.writes)
  BY <1>1 DEF LogFile
<1>3. log' = [p EXCEPT !.writes = w]
  BY DEF Write
<1> HIDE DEF p, w
<1>4. [p EXCEPT !.writes = w] = LogFile(log.id, blocks, w)
  BY <1>2 DEF LogFile
<1>5. QED
  BY <1>3, <1>4 DEF w

LEMMA StartRowKeeps ==
  ASSUME LogInv, NEW shape \in Shape, StartRow(shape)
  PROVE  LogInv'
<1> DEFINE B == log.blocks
           b == [row |-> rowsOut + 1, key |-> shape.key, at |-> 1, size |-> shape.size]
<1>1. LogOK /\ rowsOut \in Nat /\ Rows(B)
  BY DEF LogInv, LogOK
<1>2. /\ ~InRow /\ rowsOut' = rowsOut + 1 /\ Write(Append(B, b))
      /\ UNCHANGED <<compressed, opened, tail>>
  BY DEF StartRow
<1>3. shape.key \in Message \cup {Marker, Bad, Corrupt} /\ shape.size \in Nat \ {0}
  BY ReaderConstants
<1>4. b \in Block /\ b.at = 1 /\ b.at <= b.size /\ b.row = rowsOut + 1
  BY <1>1, <1>3 DEF Block
<1> HIDE DEF b
<1>5. B # <<>> => Ends(B[Len(B)])
  BY <1>2 DEF InRow, Last
<1>6. Rows(Append(B, b))
  BY <1>1, <1>4, <1>5, LongerRows
<1>7. log' = LogFile(log.id, Append(B, b), log.writes + 1)
  BY <1>1, <1>2, WriteIs
<1>8. b.row > rowsOut /\ rowsOut' \in Nat /\ rowsOut <= rowsOut' /\ b.row <= rowsOut'
  BY <1>1, <1>2, <1>4
<1>9. QED
  BY <1>2, <1>4, <1>6, <1>7, <1>8, GrowthKeeps

LEMMA GoOnKeeps ==
  ASSUME LogInv, GoOn
  PROVE  LogInv'
<1> DEFINE B == log.blocks
           z == B[Len(B)]
           b == [z EXCEPT !.at = @ + 1]
<1>1. LogOK /\ rowsOut \in Nat /\ Rows(B) /\ \A i \in DOMAIN B : B[i].row <= rowsOut
  BY DEF LogInv, LogOK
<1>2. /\ B # <<>> /\ ~Ends(z) /\ Write(Append(B, b))
      /\ UNCHANGED <<compressed, rowsOut, opened, tail>>
  BY DEF GoOn, InRow, Last
<1>3. B \in Seq(Block) /\ Len(B) \in DOMAIN B /\ DOMAIN B = 1 .. Len(B)
  BY <1>1, <1>2 DEF Rows
<1>4. z \in Block /\ z.at <= z.size /\ z.row <= rowsOut
  BY <1>1, <1>3 DEF Rows
<1> HIDE DEF z
<1>5. b \in Block /\ b.at = z.at + 1 /\ b.row = z.row /\ b.key = z.key /\ b.size = z.size
  BY <1>4 DEF Block
<1> HIDE DEF b
<1>6. b.at <= b.size
  BY <1>2, <1>4, <1>5 DEF Block, Ends
<1>7. Rows(Append(B, b))
  BY <1>1, <1>2, <1>5, <1>6, LongerRows DEF z
<1>8. log' = LogFile(log.id, Append(B, b), log.writes + 1)
  BY <1>1, <1>2, WriteIs
<1>9. \E j \in DOMAIN B : B[j].row = b.row
  BY <1>3, <1>5 DEF z
<1>10. rowsOut' \in Nat /\ rowsOut <= rowsOut' /\ b.row <= rowsOut'
  BY <1>1, <1>2, <1>4, <1>5
<1>11. QED
  BY <1>2, <1>5, <1>7, <1>8, <1>9, <1>10, GrowthKeeps
\* A cut within a read, which nothing tells the reader of.
Tears(r) == [r EXCEPT !.torn = Yes]

LEMMA TearsIs ==
  ASSUME NEW r, IsReader(r)
  PROVE  IsReader(Tears(r)) /\ Tears(r).offset = r.offset /\ Tears(r).identity = r.identity
         /\ Tears(r).torn = Yes
<1>1. r = Reader(r.offset, r.pending, r.skipping, r.entries, r.checkpoint, r.modified,
                 r.identity, r.omitted, r.torn)
  BY DEF IsReader
<1>2. Tears(r) = Reader(r.offset, r.pending, r.skipping, r.entries, r.checkpoint, r.modified,
                        r.identity, r.omitted, Yes)
  BY <1>1 DEF Reader, Tears
<1>3. QED
  BY <1>2 DEF Reader, IsReader

LEMMA TruncateKeeps ==
  ASSUME LogInv, Truncate
  PROVE  LogInv'
<1> DEFINE B == log.blocks
           o == tail.offset
<1>1. /\ compressed \in BOOLEAN /\ LogOK /\ OpenedOK /\ TailOK /\ log.id \in Nat
      /\ log.writes \in Nat /\ rowsOut \in Nat /\ Rows(B) /\ \A i \in DOMAIN B : B[i].row <= rowsOut
  BY DEF LogInv, LogOK
<1>2. /\ Write(<<>>) /\ UNCHANGED <<compressed, rowsOut>>
      /\ opened' = IF opened.id = log.id THEN [opened EXCEPT !.cut = TRUE] ELSE opened
      /\ tail' = IF Within /\ opened.id = log.id THEN Tears(tail) ELSE tail
  BY DEF Truncate, Within, Tears, Yes
<1>3. log' = LogFile(log.id, <<>>, log.writes + 1)
  BY <1>1, <1>2, WriteIs
<1>4. log'.id = log.id /\ log'.blocks = <<>> /\ log'.writes = log.writes + 1
  BY <1>3 DEF LogFile
<1>5. Rows(<<>>)
  BY DEF Rows
<1>6. LogOK'
  <2>1. log' = LogFile(log'.id, log'.blocks, log'.writes) /\ log'.id \in Nat /\ log'.writes \in Nat
    BY <1>1, <1>3, <1>4
  <2>2. Rows(log'.blocks) /\ rowsOut' \in Nat /\ \A i \in DOMAIN log'.blocks : FALSE
    BY <1>1, <1>2, <1>4, <1>5
  <2>3. QED
    BY <2>1, <2>2 DEF LogOK
<1>7. OpenedOK' /\ Within' = Within /\ opened'.id = opened.id
  <2> DEFINE Q == Seq(Block)
  <2>1. opened \in OpenFile /\ opened.id <= log.id
    BY <1>1 DEF OpenedOK
  <2>2. CASE opened.id = log.id
    <3>1. opened' = [opened EXCEPT !.cut = TRUE]
      BY <1>2, <2>2
    <3>2. OpenFile = [id : Nat, len : Nat, modified : Nat,
                      at : {"closed", "checkpoint", "bytes", "sign"}, rest : Q, cut : BOOLEAN]
      BY DEF OpenFile
    <3> HIDE DEF Q
    <3>3. /\ opened' \in OpenFile /\ opened'.id = opened.id /\ opened'.at = opened.at
          /\ opened'.cut = TRUE
      BY <2>1, <3>1, <3>2
    <3>4. opened' \in OpenFile'
      BY <3>3 DEF OpenFile, Block
    <3>5. OpenedOK'
      BY <1>4, <2>1, <3>3, <3>4 DEF OpenedOK
    <3>6. Within' = Within
      BY <3>3 DEF Within, At
    <3>7. QED
      BY <3>3, <3>5, <3>6
  <2>3. CASE opened.id # log.id
    <3>1. opened' = opened
      BY <1>2, <2>3
    <3>2. OpenedOK'
      BY <1>4, <2>1, <2>3, <3>1 DEF OpenedOK, OpenFile, Block
    <3>3. Within' = Within
      BY <3>1 DEF Within, At
    <3>4. QED
      BY <3>1, <3>2, <3>3
  <2>4. QED
    BY <2>2, <2>3
<1>8. B \in Seq(Block) /\ Len(B) \in Nat /\ DOMAIN B = 1 .. Len(B)
      /\ \A i \in DOMAIN B : B[i].row \in Nat
  <2>1. B \in Seq(Block)
    BY <1>1 DEF Rows
  <2>2. \A i \in DOMAIN B : B[i] \in Block
    BY <2>1
  <2>3. QED
    BY <2>1, <2>2 DEF Block
<1>9. ASSUME Agrees(tail, B), tail' = tail
      PROVE  Agrees(tail, <<>>) \/ Outdated(tail)'
  <2>1. o \in 0 .. Len(B) /\ tail.checkpoint = Check(B, o)
    BY <1>9 DEF Agrees, Reads
  <2>2. PICK j \in Nat, s \in Nat : HasRead(tail, B, j, s)
    BY <1>9 DEF Agrees, Reads
  <2>3. CASE o = 0
    <3>1. s = 0 /\ j = 0
      BY <2>2, <2>3 DEF HasRead, BeganAt
    <3>2. ReadTo(tail, B, 0, 0)
      BY <2>2, <2>3, <3>1 DEF HasRead
    <3>3. tail.skipping = FALSE /\ tail.pending = <<>>
          /\ tail.entries \in Seq(Entry) /\ Len(tail.entries) <= EntryLimit
          /\ (~tail.omitted => tail.entries = <<>>)
      <4>1. PICK e \in 0 .. 0 : LineKept(tail, B, 0, e)
        BY <3>2 DEF ReadTo, NoEnd
      <4>2. SubSeq(B, 1, 0) = <<>> /\ Upto(B, 0) = <<>>
        BY <1>8, UptoSteps
      <4>3. tail.pending = <<>> /\ ~tail.skipping
        <5>1. LineKept(tail, B, 0, 0) /\ 0 - 0 <= RecordLimit
          BY <4>1, ReaderConstants
        <5>2. tail.pending = SubSeq(B, 1, 0) /\ ~tail.skipping
          BY <5>1 DEF LineKept, Line
        <5>3. QED
          BY <4>2, <5>2
      <4>4. QED
        BY <3>2, <4>2, <4>3 DEF ReadTo
    <3>4. ReadTo(tail, <<>>, 0, 0)
      <4>1. LastEnd(<<>>, 0, 0, 0) /\ NewestShown(tail, <<>>, 0, 0) /\ Clean(<<>>, 0)
        BY DEF LastEnd, NewestShown, Clean
      <4>2. <<>> \in Seq(Block)
        OBVIOUS
      <4>3. Upto(<<>>, 0) = <<>>
        BY <4>2, UptoSteps
      <4>4. LineKept(tail, <<>>, 0, 0)
        <5>1. SubSeq(<<>>, 1, 0) = <<>>
          OBVIOUS
        <5>2. QED
          BY <3>3, <5>1, ReaderConstants DEF LineKept, Line
      <4>5. \E e \in 0 .. 0 : LastEnd(<<>>, 0, 0, e) /\ LineKept(tail, <<>>, 0, e)
        <5>1. 0 \in 0 .. 0
          OBVIOUS
        <5>2. QED
          BY <4>1, <4>4, <5>1
      <4>6. QED
        BY <3>3, <4>1, <4>3, <4>5 DEF ReadTo
    <3>5. HasRead(tail, <<>>, 0, 0)
      BY <2>3, <3>4 DEF HasRead, BeganAt
    <3>6. Check(<<>>, 0) = <<>> /\ Check(B, 0) = <<>> /\ Len(<<>>) = 0
      <4>1. Max({1, 0 - CheckLen + 1}) \in Nat \ {0}
        BY CheckPlace
      <4> DEFINE a == Max({1, 0 - CheckLen + 1})
      <4> HIDE DEF a
      <4>2. SubSeq(<<>>, a, 0) = <<>> /\ SubSeq(B, a, 0) = <<>>
        BY <1>8, <4>1 DEF a
      <4>3. QED
        BY <4>2 DEF Check, a
    <3>7. Agrees(tail, <<>>)
      <4>1. tail.offset \in 0 .. Len(<<>>)
        BY <2>3, <3>6
      <4>2. tail.checkpoint = Check(<<>>, tail.offset)
        BY <2>1, <2>3, <3>6
      <4>3. \E J, S \in Nat : HasRead(tail, <<>>, J, S)
        BY <3>5
      <4>4. QED
        BY <4>1, <4>2, <4>3 DEF Agrees, Reads
    <3>8. QED
      BY <3>7
  <2>4. CASE o # 0
    <3> DEFINE a == Max({1, o - CheckLen + 1})
    <3>1. a \in Nat \ {0} /\ a <= o /\ a \in DOMAIN B
      BY <1>8, <2>1, <2>4, CheckPlace
    <3> HIDE DEF a, o
    <3>2. 1 \in DOMAIN SubSeq(B, a, o) /\ SubSeq(B, a, o)[1] = B[a]
      BY <1>8, <2>1, <3>1
    <3>3. 1 \in DOMAIN tail.checkpoint /\ tail.checkpoint[1].row \in 0 .. rowsOut
      BY <1>1, <1>8, <2>1, <3>1, <3>2 DEF Check, a, o
    <3>4. Outdated(tail)'
      BY <1>2, <1>4, <1>9, <3>3 DEF Outdated
    <3>5. QED
      BY <3>4
  <2>5. QED
    BY <2>3, <2>4
<1>10. Outdated(tail) /\ tail' = tail => Outdated(tail)'
  BY <1>2, <1>4 DEF Outdated
<1>11. CASE Within /\ opened.id = log.id
  <2>1. tail' = Tears(tail)
    BY <1>2, <1>11
  <2>2. /\ IsReader(Tears(tail)) /\ Tears(tail).offset = tail.offset
        /\ Tears(tail).identity = tail.identity /\ Tears(tail).torn = Yes
    BY <1>1, TearsIs DEF TailOK
  <2>3. tail'.torn
    BY <2>1, <2>2 DEF Yes
  <2>4. tail.identity = opened.id
    BY <1>1, <1>11 DEF TailOK
  <2>5. tail.identity \in 0 .. log.id
    BY <1>1, <1>11, <2>4
  <2>6. TailOK'
    BY <1>1, <1>2, <1>4, <1>7, <2>1, <2>2, <2>3, <2>4, <2>5 DEF TailOK, IsReader
  <2>7. QED
    BY <1>1, <1>2, <1>6, <1>7, <2>6 DEF LogInv
<1>12. CASE ~(Within /\ opened.id = log.id)
  <2>1. tail' = tail
    BY <1>2, <1>12
  <2>2. Reads(tail, log.blocks)' <=> Reads(tail, <<>>)
    BY <1>2, <1>4, <2>1, ReadsThen
  <2>3. Agrees(tail, log.blocks)' <=> Agrees(tail, <<>>)
    BY <1>4, <2>1, <2>2 DEF Agrees
  <2>4. Within => tail.identity # log.id
    BY <1>1, <1>12 DEF TailOK
  <2>5. tail.identity = log.id /\ ~tail.torn => (Agrees(tail, log.blocks) \/ Outdated(tail))'
    BY <1>1, <1>9, <1>10, <2>1, <2>3, <2>4 DEF TailOK
  <2>6. TailOK'
    BY <1>1, <1>2, <1>4, <1>7, <2>1, <2>4, <2>5 DEF TailOK, IsReader
  <2>7. QED
    BY <1>1, <1>2, <1>6, <1>7, <2>6 DEF LogInv
<1>13. QED
  BY <1>11, <1>12

LEMMA ReplaceKeeps ==
  ASSUME LogInv, Replace
  PROVE  LogInv'
<1>1. /\ compressed \in BOOLEAN /\ LogOK /\ OpenedOK /\ TailOK /\ log.id \in Nat
      /\ log.writes \in Nat /\ rowsOut \in Nat /\ Rows(log.blocks)
  BY DEF LogInv, LogOK
<1>2. /\ log' = LogFile(log.id + 1, <<>>, log.writes + 1)
      /\ opened' = IF opened.id = log.id THEN [opened EXCEPT !.rest = log.blocks] ELSE opened
      /\ UNCHANGED <<compressed, rowsOut, tail>>
  BY DEF Replace, LogFile
<1>3. log'.id = log.id + 1 /\ log'.blocks = <<>> /\ log'.writes = log.writes + 1
  BY <1>2 DEF LogFile
<1>4. LogOK'
  <2>1. Rows(<<>>)
    BY DEF Rows
  <2>2. log' = LogFile(log'.id, log'.blocks, log'.writes) /\ log'.id \in Nat /\ log'.writes \in Nat
    BY <1>1, <1>2, <1>3
  <2>3. Rows(log'.blocks) /\ rowsOut' \in Nat /\ \A i \in DOMAIN log'.blocks : FALSE
    BY <1>1, <1>2, <1>3, <2>1
  <2>4. QED
    BY <2>2, <2>3 DEF LogOK
<1>5. opened' \in OpenFile /\ opened'.id = opened.id /\ opened'.at = opened.at
  <2> DEFINE Q == Seq(Block)
  <2>1. opened \in OpenFile /\ log.blocks \in Q
    BY <1>1 DEF OpenedOK, Rows
  <2>2. OpenFile = [id : Nat, len : Nat, modified : Nat,
                    at : {"closed", "checkpoint", "bytes", "sign"}, rest : Q, cut : BOOLEAN]
    BY DEF OpenFile
  <2> HIDE DEF Q
  <2>3. QED
    BY <1>2, <2>1, <2>2
<1>6. OpenedOK' /\ Within' = Within
  <2>1. opened' \in OpenFile'
    BY <1>5 DEF OpenFile, Block
  <2>2. opened.id \in Nat /\ opened.id <= log.id
    BY <1>1 DEF OpenedOK, OpenFile
  <2>3. opened'.id < log'.id
    BY <1>1, <1>3, <1>5, <2>2
  <2>4. opened'.id <= log'.id /\ opened'.id # log'.id
    BY <1>1, <1>3, <1>5, <2>2
  <2>5. QED
    BY <1>5, <2>1, <2>4 DEF OpenedOK, Within, At
<1>7. TailOK'
  <2>1. tail = FreshReader \/ tail.identity \in 0 .. log.id
    BY <1>1 DEF TailOK
  <2>2. tail.identity # log.id + 1
    <3>1. CASE tail = FreshReader
      BY <1>1, <3>1, ReaderConstants DEF FreshReader
    <3>2. CASE tail.identity \in 0 .. log.id
      BY <1>1, <3>2
    <3>3. QED
      BY <2>1, <3>1, <3>2
  <2>3. tail = FreshReader \/ tail.identity \in 0 .. log.id + 1
    BY <1>1, <2>1
  <2>4. IsReader(tail) /\ tail.offset \in Nat
    BY <1>1 DEF TailOK
  <2>5. Within' => tail'.identity = opened'.id
    BY <1>1, <1>2, <1>5, <1>6 DEF TailOK
  <2>6. QED
    BY <1>2, <1>3, <2>2, <2>3, <2>4, <2>5 DEF TailOK, IsReader
<1>8. QED
  BY <1>1, <1>2, <1>4, <1>6, <1>7 DEF LogInv

\* A step of a reader leaves the log as it is.
LEMMA LogStays ==
  ASSUME LogOK, UNCHANGED <<compressed, log, rowsOut>>
  PROVE  /\ LogOK'
         /\ tail' = tail => /\ Reads(tail, log.blocks)' <=> Reads(tail, log.blocks)
                            /\ Agrees(tail, log.blocks)' <=> Agrees(tail, log.blocks)
                            /\ Outdated(tail)' <=> Outdated(tail)
<1>1. LogOK'
  BY DEF LogOK, Rows, LogFile, Block, Ends
<1>2. ASSUME tail' = tail
      PROVE  Reads(tail, log.blocks)' <=> Reads(tail, log.blocks)
  BY <1>2, ReadsThen
<1>3. ASSUME tail' = tail
      PROVE  Agrees(tail, log.blocks)' <=> Agrees(tail, log.blocks)
  BY <1>2, <1>3 DEF Agrees, Check
<1>4. ASSUME tail' = tail
      PROVE  Outdated(tail)' <=> Outdated(tail)
  BY <1>4 DEF Outdated
<1>5. QED
  BY <1>1, <1>2, <1>3, <1>4

\* What a reader holds while it goes on.
LEMMA StepOn ==
  ASSUME LogOK, OpenedOK, UNCHANGED <<compressed, log, rowsOut>>,
         NEW step \in {"bytes", "sign"}, opened' = [opened EXCEPT !.at = step]
  PROVE  OpenedOK' /\ opened'.id = opened.id /\ Within'
<1> DEFINE Q == Seq(Block)
<1>1. opened \in OpenFile
  BY DEF OpenedOK
<1>2. OpenFile = [id : Nat, len : Nat, modified : Nat,
                  at : {"closed", "checkpoint", "bytes", "sign"}, rest : Q, cut : BOOLEAN]
  BY DEF OpenFile
<1> HIDE DEF Q
<1>3. /\ opened' \in OpenFile /\ opened'.id = opened.id /\ opened'.at = step
      /\ opened'.cut = opened.cut /\ opened'.len = opened.len
  BY <1>1, <1>2
<1>4. opened' \in OpenFile'
  BY <1>3 DEF OpenFile, Block
<1>5. QED
  BY <1>3, <1>4 DEF OpenedOK, Within, At

\* A reader that is at rest again.
LEMMA Closes ==
  ASSUME LogOK, log' = log, opened' = Closed
  PROVE  OpenedOK' /\ ~Within'
<1>1. <<>> \in Seq(Block)
  OBVIOUS
<1> DEFINE Q == Seq(Block)
<1>2. OpenFile = [id : Nat, len : Nat, modified : Nat,
                  at : {"closed", "checkpoint", "bytes", "sign"}, rest : Q, cut : BOOLEAN]
  BY DEF OpenFile
<1> HIDE DEF Q
<1>3. Closed \in OpenFile
  BY <1>1, <1>2 DEF Closed, Q
<1>4. opened' \in OpenFile'
  BY <1>3 DEF OpenFile, Block
<1>5. log.id \in Nat /\ Len(log.blocks) \in Nat
  BY DEF LogOK, Rows
<1>6. opened'.id = 0 /\ opened'.len = 0 /\ opened'.at = "closed"
  BY DEF Closed
<1>7. QED
  BY <1>4, <1>5, <1>6 DEF OpenedOK, Within, At

LEMMA OpenKeeps ==
  ASSUME LogInv, Open
  PROVE  LogInv'
<1>1. /\ compressed \in BOOLEAN /\ LogOK /\ TailOK /\ log.id \in Nat /\ log.writes \in Nat
      /\ Len(log.blocks) \in Nat
  BY DEF LogInv, LogOK, Rows
<1>2. /\ opened' = [id |-> log.id, len |-> Len(log.blocks), modified |-> log.writes,
                    at |-> "checkpoint", rest |-> <<>>, cut |-> FALSE]
      /\ UNCHANGED <<compressed, log, rowsOut, tail>> /\ At("closed")
  BY DEF Open
<1>3. OpenedOK' /\ ~Within' /\ ~Within
  <2>1. <<>> \in Seq(Block)
    OBVIOUS
  <2> DEFINE Q == Seq(Block)
  <2>2. OpenFile = [id : Nat, len : Nat, modified : Nat,
                    at : {"closed", "checkpoint", "bytes", "sign"}, rest : Q, cut : BOOLEAN]
    BY DEF OpenFile
  <2> HIDE DEF Q
  <2>3. opened' \in OpenFile
    BY <1>1, <1>2, <2>1, <2>2 DEF Q
  <2>4. opened' \in OpenFile'
    BY <2>3 DEF OpenFile, Block
  <2>5. opened'.id = log.id /\ opened'.len = Len(log.blocks) /\ opened'.at = "checkpoint"
    BY <1>2
  <2>6. QED
    BY <1>1, <1>2, <2>4, <2>5 DEF OpenedOK, Within, At
<1>4. TailOK'
  BY <1>1, <1>2, <1>3, LogStays DEF TailOK, IsReader
<1>5. QED
  BY <1>1, <1>2, <1>3, <1>4, LogStays DEF LogInv

LEMMA UnreadableKeeps ==
  ASSUME LogInv, Unreadable
  PROVE  LogInv'
<1>1. compressed \in BOOLEAN /\ LogOK /\ TailOK /\ rowsOut \in Nat
  BY DEF LogInv, LogOK
<1>2. opened' = Closed /\ UNCHANGED <<compressed, log, rowsOut, tail>> /\ At("checkpoint")
  BY DEF Unreadable
<1>3. ~Within
  BY <1>2 DEF Within, At
<1>4. OpenedOK' /\ ~Within'
  BY <1>1, <1>2, Closes
<1>5. TailOK'
  BY <1>1, <1>2, <1>3, <1>4, LogStays DEF TailOK, IsReader
<1>6. QED
  BY <1>1, <1>2, <1>4, <1>5, LogStays DEF LogInv

LEMMA BeginKeeps ==
  ASSUME LogInv, Begin
  PROVE  LogInv'
<1>1. compressed \in BOOLEAN /\ LogOK /\ OpenedOK /\ TailOK /\ log.id \in Nat
  BY DEF LogInv, LogOK
<1>2. /\ opened' = [opened EXCEPT !.at = "bytes"] /\ tail' = Ahead
      /\ UNCHANGED <<compressed, log, rowsOut>>
      /\ At("checkpoint") /\ (Replaced \/ tail.offset <= Len(Held))
  BY DEF Begin, Ahead, Opens, Base
<1>3. ~Within
  BY <1>2 DEF Within, At
<1>4. OpenedOK' /\ opened'.id = opened.id /\ Within'
  BY <1>1, <1>2, StepOn
<1>5. IsReader(Ahead) /\ Ahead.offset \in Nat /\ Ahead.identity = opened.id
  BY <1>1, AheadIsReader
<1>6. opened.id = log.id /\ ~Ahead.torn => Reads(Ahead, log.blocks)
  BY <1>1, <1>2, <1>3, AheadAgrees
<1>7. Reads(tail, log.blocks)' <=> Reads(Ahead, log.blocks)
  BY <1>2, ReadsThen
<1>8. opened.id \in 0 .. log.id
  BY <1>1, HeldBlocks
<1> DEFINE q == Ahead
<1> HIDE DEF q
<1>9. /\ tail' = q /\ IsReader(q) /\ q.offset \in Nat /\ q.identity = opened.id
      /\ opened.id = log.id /\ ~q.torn => Reads(tail, log.blocks)'
  BY <1>2, <1>5, <1>6, <1>7 DEF q
<1>10. TailOK'
  BY <1>2, <1>4, <1>8, <1>9 DEF TailOK, IsReader
<1>11. QED
  BY <1>1, <1>2, <1>4, <1>10, LogStays DEF LogInv

LEMMA TakeKeeps ==
  ASSUME LogInv, Take
  PROVE  LogInv'
<1> DEFINE p == PartOf(tail, Held)
           f == Fed(tail, p.text)
           q == Moved(f, tail.offset + p.consumed)
<1>1. /\ compressed \in BOOLEAN /\ LogOK /\ OpenedOK /\ TailOK /\ log.id \in Nat
      /\ IsReader(tail) /\ tail.offset \in Nat
  BY DEF LogInv, LogOK, TailOK
<1>2. /\ opened' = [opened EXCEPT !.at = "sign"] /\ tail' = q
      /\ UNCHANGED <<compressed, log, rowsOut>> /\ At("bytes")
  BY DEF Take, PartOf, Fed, Moved
<1>3. Within /\ tail.identity = opened.id
  BY <1>1, <1>2 DEF Within, TailOK
<1>4. OpenedOK' /\ opened'.id = opened.id /\ Within'
  BY <1>1, <1>2, StepOn
<1>5. /\ Held \in Seq(Block) /\ opened.id \in 0 .. log.id
      /\ opened.id = log.id => Held = log.blocks
  BY <1>1, HeldBlocks
<1>6. p.text \in Seq(Block) /\ p.consumed \in Nat
  BY <1>1, <1>5, PartIsBlocks
<1>7. IsReader(f) /\ f.identity = tail.identity /\ f.torn = tail.torn
  BY <1>1, <1>6, FedKeepsFile
<1>8. opened.id = log.id /\ ~tail.torn => Reads(q, log.blocks)
  <2>1. Rows(log.blocks)
    BY <1>1 DEF LogOK
  <2>2. opened.id = log.id /\ ~tail.torn => Reads(tail, log.blocks)
    BY <1>1, <1>3 DEF TailOK
  <2>3. QED
    BY <1>1, <1>5, <2>1, <2>2, TakeAgrees
<1> HIDE DEF p, f
<1>9. q = Reader(tail.offset + p.consumed, f.pending, f.skipping, f.entries, f.checkpoint,
                 f.modified, f.identity, f.omitted, f.torn)
  BY <1>7, MovedIs
<1> HIDE DEF q
<1>10. IsReader(q) /\ q.offset = tail.offset + p.consumed /\ q.identity = f.identity
       /\ q.torn = f.torn
  BY <1>9 DEF Reader, IsReader
<1>11. q.offset \in Nat
  BY <1>1, <1>6, <1>10
<1>12. Reads(tail, log.blocks)' <=> Reads(q, log.blocks)
  BY <1>2, ReadsThen
<1>13. TailOK'
  BY <1>2, <1>3, <1>4, <1>5, <1>7, <1>8, <1>10, <1>11, <1>12 DEF TailOK, IsReader
<1>14. QED
  BY <1>1, <1>2, <1>4, <1>13, LogStays DEF LogInv

LEMMA SignKeeps ==
  ASSUME LogInv, Sign
  PROVE  LogInv'
<1> DEFINE ch == IF tail.offset <= Len(Held) THEN Check(Held, tail.offset) ELSE <<Nobody>>
           q  == Signed(tail, ch)
<1>1. /\ compressed \in BOOLEAN /\ LogOK /\ OpenedOK /\ TailOK /\ log.id \in Nat
      /\ IsReader(tail) /\ tail.offset \in Nat
  BY DEF LogInv, LogOK, TailOK
<1>2. /\ opened' = Closed /\ tail' = q
      /\ UNCHANGED <<compressed, log, rowsOut>> /\ At("sign")
  BY DEF Sign, Signed
<1>3. Within /\ tail.identity = opened.id
  BY <1>1, <1>2 DEF Within, TailOK
<1>4. OpenedOK' /\ ~Within'
  BY <1>1, <1>2, Closes
<1>5. opened.id \in 0 .. log.id /\ (opened.id = log.id => Held = log.blocks)
  BY <1>1, HeldBlocks
<1>6. opened.id = log.id /\ ~tail.torn =>
        Reads(tail, log.blocks) /\ ch = Check(log.blocks, tail.offset)
  <2>1. opened.id = log.id /\ ~tail.torn => Reads(tail, log.blocks)
    BY <1>1, <1>3 DEF TailOK
  <2>2. opened.id = log.id /\ ~tail.torn => tail.offset <= Len(log.blocks)
    BY <2>1 DEF Reads
  <2>3. QED
    BY <1>5, <2>1, <2>2
<1> HIDE DEF ch
<1>7. q = Reader(tail.offset, tail.pending, tail.skipping, tail.entries, ch,
                 tail.modified, tail.identity, tail.omitted, tail.torn)
  BY <1>1, MovedIs
<1> HIDE DEF q
<1>8. /\ IsReader(q) /\ q.offset = tail.offset /\ q.pending = tail.pending
      /\ q.skipping = tail.skipping /\ q.entries = tail.entries /\ q.omitted = tail.omitted
      /\ q.checkpoint = ch /\ q.identity = tail.identity /\ q.torn = tail.torn
  BY <1>7 DEF Reader, IsReader
<1>9. Reads(tail, log.blocks) => Reads(q, log.blocks)
  BY <1>8, SameReads DEF Reads
<1>10. opened.id = log.id /\ ~tail.torn => Agrees(q, log.blocks)
  BY <1>6, <1>8, <1>9 DEF Agrees
<1>11. Reads(tail, log.blocks)' <=> Reads(q, log.blocks)
  BY <1>2, ReadsThen
<1>12. Agrees(tail, log.blocks)' <=> Agrees(q, log.blocks)
  BY <1>2, <1>11 DEF Agrees, Check
<1>13. TailOK'
  BY <1>1, <1>2, <1>3, <1>4, <1>5, <1>8, <1>10, <1>12 DEF TailOK, IsReader
<1>14. QED
  BY <1>1, <1>2, <1>4, <1>13, LogStays DEF LogInv

\* However the log is written, cut or replaced, within a read too: the reader has read
\* the log from where it began to, or it will start over, unless the log was cut after
\* its checkpoint was compared.
THEOREM ReaderInvariant == LogSpec => []LogInv
<1>1. LogInit => LogInv
  <2>1. SUFFICES ASSUME LogInit PROVE LogInv
    OBVIOUS
  <2>2. /\ compressed \in BOOLEAN /\ log = LogFile(1, <<>>, 0) /\ rowsOut = 0
        /\ opened = Closed /\ tail = FreshReader
    BY <2>1 DEF LogInit, LogFile
  <2>3. log.id = 1 /\ log.blocks = <<>> /\ log.writes = 0
    BY <2>2 DEF LogFile
  <2>4. Rows(<<>>)
    BY DEF Rows
  <2>5. LogOK
    BY <2>2, <2>3, <2>4 DEF LogOK
  <2>6. OpenedOK
    <3> DEFINE Q == Seq(Block)
    <3>1. OpenFile = [id : Nat, len : Nat, modified : Nat,
                      at : {"closed", "checkpoint", "bytes", "sign"}, rest : Q, cut : BOOLEAN]
      BY DEF OpenFile
    <3>2. <<>> \in Q
      OBVIOUS
    <3> HIDE DEF Q
    <3>3. opened \in OpenFile /\ opened.id = 0
      BY <2>2, <3>1, <3>2 DEF Closed
    <3>4. QED
      BY <2>3, <3>3 DEF OpenedOK
  <2>7. TailOK
    <3>1. IsReader(FreshReader) /\ FreshReader.offset = 0 /\ FreshReader.identity = Nobody
      BY FreshIs DEF Reader, IsReader
    <3>2. ~Within
      BY <2>2 DEF Within, At, Closed
    <3>3. QED
      BY <2>2, <2>3, <3>1, <3>2, ReaderConstants DEF TailOK
  <2>8. QED
    BY <2>2, <2>5, <2>6, <2>7 DEF LogInv
<1>2. LogInv /\ [LogNext]_logVars => LogInv'
  <2>1. SUFFICES ASSUME LogInv, [LogNext]_logVars PROVE LogInv'
    OBVIOUS
  <2>2. CASE UNCHANGED logVars
    <3>1. UNCHANGED <<compressed, log, rowsOut, opened, tail>>
      BY <2>2 DEF logVars
    <3>2. OpenedOK' /\ Within' = Within
      BY <2>1, <3>1 DEF LogInv, OpenedOK, OpenFile, Block, Within, At
    <3>3. LogOK
      BY <2>1 DEF LogInv
    <3>4. TailOK'
      BY <2>1, <3>1, <3>2, <3>3, LogStays DEF LogInv, TailOK, IsReader
    <3>5. QED
      BY <2>1, <3>1, <3>2, <3>3, <3>4, LogStays DEF LogInv
  <2>3. CASE LogNext
    BY <2>1, <2>3, OpenKeeps, UnreadableKeeps, BeginKeeps, TakeKeeps, SignKeeps, StartRowKeeps,
       GoOnKeeps, TruncateKeeps, ReplaceKeeps DEF LogNext
  <2>4. QED
    BY <2>1, <2>2, <2>3
<1>3. QED
  BY <1>1, <1>2, PTL DEF LogSpec
-------------------------------------------------------------------------------
\* A reader that has caught up has read the log, up to what is still being written.
LEMMA CaughtUpAgrees ==
  ASSUME LogInv, CaughtUp, ~tail.torn
  PROVE  /\ Agrees(tail, log.blocks)
         /\ \A i \in tail.offset + 1 .. Len(log.blocks) :
              ~Given(log.blocks[i]) /\ ~(Ends(log.blocks[i]) /\ log.blocks[i].key \in Message)
<1>1. tail.offset \in Nat /\ tail.offset <= Len(log.blocks)
      /\ tail.checkpoint = Check(log.blocks, tail.offset) /\ tail.identity = log.id
  BY DEF LogInv, TailOK, CaughtUp
<1>2. ~Outdated(tail)
  BY <1>1, OutdatedStartsOver DEF LogInv
<1>3. ~Within
  BY DEF CaughtUp, Within, At
<1>4. Agrees(tail, log.blocks)
  BY <1>1, <1>2, <1>3 DEF LogInv, TailOK
<1>5. Corrupt \notin Message
  BY ReaderConstants
<1>6. QED
  BY <1>4, <1>5 DEF CaughtUp, Given, Lost

LEMMA FullIsUpto ==
  ASSUME LogInv
  PROVE  Full = Upto(log.blocks, Len(log.blocks))
<1>1. log.blocks \in Seq(Block)
  BY DEF LogInv, LogOK, Rows
<1>2. SubSeq(log.blocks, 1, Len(log.blocks)) = log.blocks
  BY <1>1, SubSeqFull
<1>3. QED
  BY <1>2 DEF Full, Upto

\* What is shown without the note on omitted records is the whole conversation, but for
\* corrupt frames, however the log was written, cut, replaced or outran the reader, unless
\* it was cut within a read that had compared its checkpoint.
THEOREM NothingIsEverMissingUnsaid == LogSpec => []NothingMissingUnsaid
<1>1. LogInv => NothingMissingUnsaid
  <2> DEFINE B == log.blocks
             o == tail.offset
  <2>1. SUFFICES ASSUME LogInv, CaughtUp, ~tail.omitted, ~tail.torn
                 PROVE  /\ tail.entries = Full
                        /\ \A i \in 1 .. o :
                             Ends(B[i]) => /\ B[i].key # Bad
                                           /\ B[i].key = Corrupt => compressed
    BY DEF NothingMissingUnsaid
  <2>2. Agrees(tail, B) /\ \A i \in o + 1 .. Len(B) : ~(Ends(B[i]) /\ B[i].key \in Message)
    BY <2>1, CaughtUpAgrees
  <2>3. B \in Seq(Block) /\ Len(B) \in Nat
    BY <2>1 DEF LogInv, LogOK, Rows
  <2>4. tail.entries = Upto(B, o) /\ Clean(B, o)
    BY <2>1, <2>2 DEF Agrees, Reads, HasRead, ReadTo
  <2>5. o \in 0 .. Len(B) /\ Len(B) \in o .. Len(B)
    BY <2>2, <2>3 DEF Agrees, Reads
  <2>6. Upto(B, Len(B)) = Upto(B, o)
    BY <2>2, <2>3, <2>5, UptoStays
  <2>7. Full = Upto(B, Len(B))
    BY <2>1, FullIsUpto
  <2>8. QED
    BY <2>4, <2>6, <2>7 DEF Clean
<1>2. QED
  BY <1>1, ReaderInvariant, PTL

\* A whole row, in a log of rows: what comes before it ends, if anything does.
LEMMA WholeRow ==
  ASSUME NEW B, Rows(B), NEW i \in 1 .. Len(B), Ends(B[i])
  PROVE  /\ B[i].size \in 1 .. i
         /\ i - B[i].size # 0 => Ends(B[i - B[i].size])
         /\ B[i - B[i].size + 1].at = 1
         /\ \A k \in 1 .. Len(B) : Ends(B[k]) /\ k < i => k <= i - B[i].size
<1> DEFINE st == RowStart(B, i)
<1>1. /\ B[i] \in Block /\ B[i].at <= B[i].size /\ st \in 1 .. i
      /\ st # 1 => Ends(B[st - 1])
      /\ \A k \in st .. i : B[k].at = k - st + 1
      /\ \A k \in st .. i - 1 : ~Ends(B[k])
  BY RowsOfBlocks
<1>2. B[i].at = B[i].size /\ B[i].size \in Nat \ {0} /\ i \in Nat
  BY <1>1 DEF Ends, Block
<1>3. st = i - B[i].size + 1
  BY <1>2 DEF RowStart
<1> DEFINE sz == B[i].size
<1> HIDE DEF st, sz
<1>4. sz \in Nat \ {0} /\ st = i - sz + 1 /\ i - sz = st - 1
  BY <1>1, <1>2, <1>3 DEF sz
<1>5. sz \in 1 .. i /\ (i - sz # 0 => st # 1)
  BY <1>1, <1>2, <1>4
<1>6. B[st].at = 1
  <2>1. st \in st .. i /\ st - st + 1 = 1
    BY <1>1
  <2>2. QED
    BY <1>1, <2>1
<1>7. ASSUME NEW k \in 1 .. Len(B), Ends(B[k]), k < i
      PROVE  k <= i - sz
  <2>1. ~(k \in st .. i - 1)
    BY <1>1, <1>7
  <2>2. QED
    BY <1>1, <1>2, <1>4, <1>7, <2>1
<1>8. QED
  BY <1>1, <1>4, <1>5, <1>6, <1>7 DEF sz

\* The newest message in reach is shown as it is now, whatever was read before it.
THEOREM NewestIsAlwaysShown == LogSpec => []NewestIsShown
<1>1. LogInv => NewestIsShown
  <2> DEFINE B  == log.blocks
             n  == Len(B)
             o  == tail.offset
             W  == {i \in 1 .. n : /\ Ends(B[i])
                                   /\ ~(compressed /\ B[i].key = Corrupt)
                                   /\ n > ReadLimit => i - B[i].size > n - ReadLimit}
             i  == Max(InReach)
  <2>1. SUFFICES ASSUME LogInv, CaughtUp, ~tail.torn, InReach # {},
                        B[i].key \in Message, B[i].size <= RecordLimit
                 PROVE  Shown(tail, B[i].row)
    BY DEF NewestIsShown, Shown
  <2>2. InReach = IF compressed /\ n > ReadLimit /\ W # {} THEN W \ {Min(W)} ELSE W
    BY DEF InReach
  <2>3. /\ Rows(B) /\ n \in Nat /\ ReadLimit \in Nat \ {0}
    BY <2>1, ReaderConstants DEF LogInv, LogOK, Rows
  <2>4. Agrees(tail, B) /\ \A k \in o + 1 .. n : ~Given(B[k])
    BY <2>1, CaughtUpAgrees
  <2>5. o \in 0 .. n
    BY <2>4 DEF Agrees, Reads
  <2>6. PICK J \in Nat, S \in Nat : HasRead(tail, B, J, S)
    BY <2>4 DEF Agrees, Reads
  <2>7. BeganAt(B, J, S) /\ S <= o /\ ReadTo(tail, B, S, o)
    BY <2>6 DEF HasRead
  <2>8. W \in SUBSET (1 .. n) /\ InReach \in SUBSET W /\ InReach \in SUBSET (1 .. n)
    BY <2>2
  <2>9. \A k \in 1 .. n : k \in W <=> Given(B[k]) /\ (n > ReadLimit => k - B[k].size > n - ReadLimit)
    BY DEF Given, Lost
  <2> HIDE DEF W, n, o
  <2>10. i \in InReach /\ \A k \in InReach : k <= i
    BY <2>1, <2>3, <2>8, LastPlace
  <2> HIDE DEF i
  <2>11. i \in 1 .. n /\ i \in W /\ Given(B[i]) /\ Ends(B[i])
         /\ (n > ReadLimit => i - B[i].size > n - ReadLimit)
    BY <2>8, <2>9, <2>10 DEF Given
  <2>12. /\ B[i].size \in 1 .. i
         /\ i - B[i].size # 0 => Ends(B[i - B[i].size])
         /\ B[i - B[i].size + 1].at = 1
         /\ \A k \in 1 .. n : Ends(B[k]) /\ k < i => k <= i - B[i].size
    BY <2>3, <2>11, WholeRow DEF n
  <2>13. \A k \in i + 1 .. n : ~Given(B[k])
    <3>1. SUFFICES ASSUME NEW k \in i + 1 .. n, Given(B[k]) PROVE FALSE
      OBVIOUS
    <3>2. k \in 1 .. n /\ i < k /\ Ends(B[k])
      BY <2>3, <2>11, <3>1 DEF Given
    <3>3. B[k].size \in 1 .. k /\ i <= k - B[k].size
      BY <2>3, <2>11, <3>1, <3>2, WholeRow DEF n
    <3>4. n > ReadLimit => k - B[k].size > n - ReadLimit
      BY <2>3, <2>11, <2>12, <3>2, <3>3
    <3>5. k \in W
      BY <2>9, <3>1, <3>2, <3>4
    <3>6. k \in InReach
      <4>1. CASE compressed /\ n > ReadLimit /\ W # {}
        <5>1. Min(W) <= i
          BY <2>3, <2>8, <2>11, <4>1, FirstPlace
        <5>2. Min(W) \in W
          BY <2>3, <2>8, <4>1, FirstPlace
        <5>3. k # Min(W)
          <6> DEFINE w == Min(W)
          <6> HIDE DEF w
          <6>1. w \in 1 .. n /\ w <= i
            BY <2>8, <5>1, <5>2 DEF w
          <6>2. k # w
            BY <2>3, <2>11, <3>2, <6>1
          <6>3. QED
            BY <6>2 DEF w
        <5>4. QED
          BY <2>2, <3>5, <4>1, <5>3
      <4>2. CASE ~(compressed /\ n > ReadLimit /\ W # {})
        BY <2>2, <3>5, <4>2
      <4>3. QED
        BY <4>1, <4>2
    <3>7. QED
      BY <2>10, <2>11, <3>2, <3>6
  <2>14. i <= o
    <3>1. ~(i \in o + 1 .. n)
      BY <2>4, <2>11 DEF n, o
    <3>2. QED
      BY <2>3, <2>5, <2>11, <3>1
  <2>15. S < i /\ Told(B, S, i)
    <3>1. CASE S = 0
      BY <2>11, <3>1 DEF Told
    <3>2. CASE S # 0
      <4> DEFINE u == i - B[i].size
      <4>1. J > 0 /\ J + ReadLimit <= n
        BY <2>7, <3>2 DEF BeganAt, n
      <4>2. n > ReadLimit /\ n - ReadLimit < u
        BY <2>3, <2>11, <2>12, <4>1
      <4>3. u \in 1 .. i - 1 /\ J < u /\ Ends(B[u]) /\ B[u + 1].at = 1
        BY <2>3, <2>11, <2>12, <4>1, <4>2
      <4>4. CASE ~compressed
        <5>1. S = J
          BY <2>7, <4>4 DEF BeganAt
        <5>2. u \in S + 1 .. i - B[i].size /\ S < i
          BY <2>11, <2>12, <4>3, <5>1
        <5>3. Given(B[u])
          BY <4>3, <4>4 DEF Given, Lost
        <5>4. QED
          BY <5>2, <5>3 DEF Told
      <4>5. CASE compressed
        <5> DEFINE w == Min(W)
                   v == w - B[w].size
        <5>1. W # {}
          BY <2>11
        <5>2. w \in W /\ w <= i
          BY <2>3, <2>8, <2>11, <5>1, FirstPlace
        <5>3. w # i
          BY <2>2, <2>10, <4>2, <4>5, <5>1
        <5> HIDE DEF w
        <5>4. w \in 1 .. n /\ w < i /\ Given(B[w]) /\ Ends(B[w]) /\ v > n - ReadLimit
          BY <2>3, <2>8, <2>9, <2>11, <4>2, <5>2, <5>3 DEF Given
        <5>5. B[w].size \in 1 .. w /\ B[v + 1].at = 1
          BY <2>3, <5>4, WholeRow DEF n
        <5> HIDE DEF v
        <5>6. v \in Nat /\ v < w
          BY <5>4, <5>5 DEF v
        <5>7. ~(v + 1 \in J + 1 .. S)
          BY <2>7, <4>5, <5>5 DEF BeganAt
        <5>8. J < v
          BY <2>3, <4>1, <5>4, <5>6
        <5>9. S <= v
          BY <5>6, <5>7, <5>8
        <5>10. w <= i - B[i].size
          BY <2>12, <5>4
        <5>11. w \in S + 1 .. i - B[i].size /\ S < i
          BY <2>11, <2>12, <5>4, <5>6, <5>9, <5>10
        <5>12. QED
          BY <5>4, <5>11 DEF Told
      <4>6. QED
        BY <2>1, <4>4, <4>5 DEF LogInv
    <3>3. QED
      BY <3>1, <3>2
  <2>16. Newest(B, S, o, i)
    <3>1. i \in S + 1 .. o
      BY <2>5, <2>11, <2>14, <2>15
    <3>2. \A k \in i + 1 .. o : k \in i + 1 .. n
      BY <2>3, <2>5
    <3>3. QED
      BY <2>11, <2>13, <3>1, <3>2 DEF Newest
  <2>17. i \in 1 .. o /\ NewestShown(tail, B, S, o)
    BY <2>5, <2>7, <2>11, <2>14 DEF ReadTo
  <2>18. QED
    BY <2>1, <2>15, <2>16, <2>17 DEF NewestShown
<1>2. QED
  BY <1>1, ReaderInvariant, PTL
===============================================================================
