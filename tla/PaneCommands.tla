----------------------------- MODULE PaneCommands -----------------------------
(***************************************************************************)
(* `send`, `stop` and `attach` find the tmux pane of a session and act on  *)
(* it.  A command asks the server for the sessions, tmux for the panes and *)
(* the system which processes live, each at its own moment, while agents   *)
(* start, end, switch sessions and tabs, and reuse process ids.            *)
(*                                                                         *)
(* A session either runs in a process of its own, which hooks report, or   *)
(* is a tab of a shared agent server, which a host (the TUI that shows it) *)
(* reports.  All sessions are of the terminal, of one agent program and of *)
(* one directory; panes are numbered in tmux's order.                      *)
(***************************************************************************)
EXTENDS Integers, FiniteSets, FiniteSetsExt

CONSTANTS
  Own,       \* sessions with a process of their own
  Tab,       \* sessions of the shared server, shown as tabs
  Agent,     \* process ids of agents
  Host,      \* process ids of the TUIs that show tabs
  Server,    \* process id of the shared server
  PaneCount, \* panes
  NoOne,     \* no process, or no session
  MaxSteps   \* bound of what agents and users do

ASSUME PaneConstants ==
  /\ Own \cap Tab = {} /\ Agent \cap Host = {} /\ Server \notin Agent \cup Host
  /\ NoOne \notin Own \cup Tab \cup Agent \cup Host \cup {Server}
  /\ PaneCount \in Nat /\ MaxSteps \in Nat

AnySession == Own \cup Tab
Proc     == Agent \cup Host \cup {Server}
TmuxPane == 1..PaneCount
Away     == 0     \* a process outside tmux
Dead     == -1

VARIABLES
  runsIn,   \* where each process runs
  agentOf,  \* the process that runs each session of its own
  tabs,     \* the tabs of each host
  front,    \* the tab each host shows
  heard,    \* server: the process each session's last hook named
  told,     \* server: the tabs and the front each host last reported
  cmd,      \* the command under way
  settled,  \* history: the sessions the command's listing is right about
  steps     \* what agents and users did so far

scene  == <<runsIn, agentOf, tabs, front, steps>>
record == <<heard, told>>
paneVars == <<scene, record, cmd, settled>>

Alive(p) == p \in Proc /\ runsIn[p] # Dead
In(pn)   == {p \in Proc : runsIn[p] = pn}

\* Whether the server's record of a session is as an up-to-date report makes it.
UpToDate(s) ==
  IF s \in Own THEN heard[s] = agentOf[s]
  ELSE \A h \in Host : /\ (s \in told[h].tabs) = (s \in tabs[h])
                       /\ (told[h].front = s) = (front[h] = s)

\* Where and how a session really runs.
Place(s) ==
  IF s \in Own THEN [h \in {agentOf[s]} |-> IF h \in Proc THEN runsIn[h] ELSE Dead]
  ELSE [h \in Host |-> <<s \in tabs[h], front[h] = s, runsIn[h]>>]

-------------------------------------------------------------------------------
(***************************************************************************)
(* The server's answer: a row names the session's process and the host     *)
(* whose report attributes a pane to it (attribute_host): one that lives   *)
(* and tabs it, one that shows it if there is any.                         *)
(***************************************************************************)
TabbedBy(s) == {h \in Host : Alive(h) /\ s \in told[h].tabs}
ShownBy(s)  == {h \in TabbedBy(s) : told[h].front = s}

HostOf(s) == IF ShownBy(s) # {} THEN ShownBy(s)
             ELSE IF TabbedBy(s) # {} THEN TabbedBy(s) ELSE {NoOne}

ListedRow(s, h) ==
  [pid |-> IF s \in Own THEN heard[s] ELSE Server, host |-> h,
   front |-> h # NoOne /\ told[h].front = s, tabbed |-> s \in Tab]

\* The choice between two hosts is their order of report, which is left open.
Listings == {[s \in AnySession |-> ListedRow(s, pick[s])] :
               pick \in {f \in [AnySession -> UNION {HostOf(s) : s \in AnySession}] :
                          \A s \in AnySession : f[s] \in HostOf(s)}}

-------------------------------------------------------------------------------
(***************************************************************************)
(* resolve_session_pane and its callers, as the processes are now.  A      *)
(* result is the set of the pane found, if any.                            *)
(***************************************************************************)
PaneOf(p) == IF Alive(p) /\ runsIn[p] \in TmuxPane THEN {runsIn[p]} ELSE {}

\* A pane that runs the agent's program, for a session whose own process is in none.
RunningClient == LET some == {pn \in TmuxPane : In(pn) # {}}
                 IN  IF some = {} THEN {} ELSE {Min(some)}

\* Mutant: a tab nobody shows is looked for like a session of its own.
LocatedAsOwn(row) ==
  LET found(pn, own) == {[pane |-> q, own |-> own] : q \in pn}
  IN  IF PaneOf(row.host) # {} THEN found(PaneOf(row.host), row.front)
      ELSE IF PaneOf(row.pid) # {} THEN found(PaneOf(row.pid), TRUE)
      ELSE found(RunningClient, FALSE)

\* Mutant: what a host tabs is what it shows.
LocatedAsFront(row) ==
  LET found(pn, own) == {[pane |-> q, own |-> own] : q \in pn}
  IN  IF PaneOf(row.host) # {} THEN found(PaneOf(row.host), TRUE)
      ELSE IF row.tabbed THEN {}
      ELSE IF PaneOf(row.pid) # {} THEN found(PaneOf(row.pid), TRUE)
      ELSE found(RunningClient, FALSE)

Located(row) ==
  LET found(pn, own) == {[pane |-> q, own |-> own] : q \in pn}
  IN  IF PaneOf(row.host) # {} THEN found(PaneOf(row.host), row.front)
      ELSE IF row.tabbed THEN {}
      ELSE IF PaneOf(row.pid) # {} THEN found(PaneOf(row.pid), TRUE)
      ELSE found(RunningClient, FALSE)

\* live_session_pane
RunningIn(row) == IF Alive(row.pid) \/ Alive(row.host) THEN Located(row) ELSE {}
ShowingIn(row) == {r.pane : r \in {q \in RunningIn(row) : q.own}}

\* Mutant: only the sessions on show count as hosted by the pane.
OthersShown(rows, s, pn) == {o \in AnySession \ {s} : pn \in ShowingIn(rows[o])}

Others(rows, s, pn) == {o \in AnySession \ {s} : pn \in {r.pane : r \in RunningIn(rows[o])}}

-------------------------------------------------------------------------------
(***************************************************************************)
(* Commands, one at a time.                                                *)
(***************************************************************************)
NoCmd == [step |-> "none"]

Return == cmd' = NoCmd /\ settled' = {}

\* query_sessions or query_stored: the listing is right about the sessions that
\* have not changed since they were last reported.
Ask(kind, s, force) ==
  /\ cmd = NoCmd
  /\ \E rows \in Listings :
       cmd' = [step |-> "listed", kind |-> kind, on |-> s, force |-> force, rows |-> rows]
  /\ settled' = {o \in AnySession : UpToDate(o)}
  /\ UNCHANGED <<scene, record>>

\* list_panes and the processes: stop refuses to end what else runs in the pane.
Target == LET row == cmd.rows[cmd.on]
          IN  CASE cmd.kind = "attach" -> {r.pane : r \in RunningIn(row)}
                [] cmd.kind = "send"   -> ShowingIn(row)
                [] cmd.kind = "stop"   -> {pn \in ShowingIn(row) :
                                             cmd.force \/ Others(cmd.rows, cmd.on, pn) = {}}

Look ==
  /\ cmd.step = "listed"
  /\ \/ \E pn \in Target :
          cmd' = [step |-> "found", kind |-> cmd.kind, on |-> cmd.on, force |-> cmd.force, pane |-> pn]
        /\ UNCHANGED settled
     \/ Target = {} /\ Return
  /\ UNCHANGED <<scene, record>>

\* kill-pane ends every process of the pane.
Stopped(dead) ==
  /\ runsIn'  = [p \in Proc |-> IF p \in dead THEN Dead ELSE runsIn[p]]
  /\ agentOf' = [s \in Own |-> IF agentOf[s] \in dead THEN NoOne ELSE agentOf[s]]
  /\ tabs'    = [h \in Host |-> IF h \in dead THEN {} ELSE tabs[h]]
  /\ front'   = [h \in Host |-> IF h \in dead THEN NoOne ELSE front[h]]

Kill == /\ cmd.step = "found" /\ cmd.kind = "stop"
        /\ Stopped(In(cmd.pane))
        /\ Return
        /\ UNCHANGED <<steps, record>>

\* A pane in copy mode takes no message; else the lines are typed.
Decline == cmd.step = "found" /\ cmd.kind = "send" /\ Return /\ UNCHANGED <<scene, record>>

TypeText ==
  /\ cmd.step = "found" /\ cmd.kind = "send"
  /\ cmd' = [cmd EXCEPT !.step = "typed"]
  /\ UNCHANGED <<scene, record, settled>>

\* A tenth of a second later, unless the pane is gone, comes the Enter.
Enter == cmd.step = "typed" /\ Return /\ UNCHANGED <<scene, record>>

\* The client that runs attach is switched to the pane.
AttachTo == cmd.step = "found" /\ cmd.kind = "attach" /\ Return /\ UNCHANGED <<scene, record>>

-------------------------------------------------------------------------------
(***************************************************************************)
(* Agents and their users, and the reports of both kinds.                  *)
(***************************************************************************)
Step == /\ steps < MaxSteps
        /\ steps' = steps + 1
        /\ settled' = {s \in settled : Place(s)' = Place(s)}
        /\ UNCHANGED <<record, cmd>>

\* An agent starts, perhaps inside another one, with the id of a dead process.
Start(s, p, at) ==
  /\ agentOf[s] = NoOne /\ runsIn[p] = Dead
  /\ runsIn' = [runsIn EXCEPT ![p] = at]
  /\ agentOf' = [agentOf EXCEPT ![s] = p]
  /\ UNCHANGED <<tabs, front>>
  /\ Step

\* An agent changes to another session (/clear, /resume).
SwitchTo(s, p) ==
  /\ agentOf[s] = NoOne /\ \E o \in Own : agentOf[o] = p
  /\ agentOf' = [o \in Own |-> IF o = s THEN p ELSE IF agentOf[o] = p THEN NoOne ELSE agentOf[o]]
  /\ UNCHANGED <<runsIn, tabs, front>>
  /\ Step

\* A TUI starts in a pane, with the shared server if there is none.
StartHost(h, at) ==
  /\ runsIn[h] = Dead
  /\ \E srv \in IF runsIn[Server] = Dead THEN {at, Away} ELSE {runsIn[Server]} :
       runsIn' = [runsIn EXCEPT ![h] = at, ![Server] = srv]
  /\ UNCHANGED <<agentOf, tabs, front>>
  /\ Step

ShowTab(h, s) ==
  /\ Alive(h) /\ front[h] # s
  /\ tabs' = [tabs EXCEPT ![h] = @ \cup {s}]
  /\ front' = [front EXCEPT ![h] = s]
  /\ UNCHANGED <<runsIn, agentOf>>
  /\ Step

CloseTab(h, s) ==
  /\ s \in tabs[h]
  /\ tabs' = [tabs EXCEPT ![h] = @ \ {s}]
  /\ front' = [front EXCEPT ![h] = IF @ = s THEN NoOne ELSE @]
  /\ UNCHANGED <<runsIn, agentOf>>
  /\ Step

Exit(p) == Alive(p) /\ Stopped({p}) /\ Step

\* The hook of a session names its process, its last one that there is none.
HookArrives(s) ==
  /\ heard' = [heard EXCEPT ![s] = agentOf[s]]
  /\ UNCHANGED <<scene, told, cmd, settled>>

HostReports(h) ==
  /\ Alive(h)
  /\ told' = [told EXCEPT ![h] = [tabs |-> tabs[h], front |-> front[h]]]
  /\ UNCHANGED <<scene, heard, cmd, settled>>

PaneInit ==
  /\ runsIn = [p \in Proc |-> Dead]
  /\ agentOf = [s \in Own |-> NoOne] /\ heard = [s \in Own |-> NoOne]
  /\ tabs = [h \in Host |-> {}] /\ front = [h \in Host |-> NoOne]
  /\ told = [h \in Host |-> [tabs |-> {}, front |-> NoOne]]
  /\ cmd = NoCmd /\ settled = {}
  /\ steps = 0

PaneNext ==
  \/ \E s \in AnySession, force \in BOOLEAN, kind \in {"send", "stop", "attach"} :
       (force => kind = "stop") /\ Ask(kind, s, force)
  \/ Look \/ Kill \/ Decline \/ TypeText \/ Enter \/ AttachTo
  \/ \E s \in Own, p \in Agent : SwitchTo(s, p) \/ \E at \in TmuxPane \cup {Away} : Start(s, p, at)
  \/ \E h \in Host : HostReports(h) \/ \E at \in TmuxPane : StartHost(h, at)
  \/ \E h \in Host, s \in Tab : ShowTab(h, s) \/ CloseTab(h, s)
  \/ \E p \in Proc : Exit(p)
  \/ \E s \in Own : HookArrives(s)

PaneSpec == PaneInit /\ [][PaneNext]_paneVars

-------------------------------------------------------------------------------
\* The sessions a pane carries: those of the agents that run in it and the tabs
\* of the hosts that do.
Carried(pn) == {s \in Own : agentOf[s] \in In(pn)} \cup UNION {tabs[h] : h \in In(pn) \cap Host}

OnShow(pn) == {s \in Own : agentOf[s] \in In(pn)} \cup {front[h] : h \in In(pn) \cap Host}

\* A command does to a pane what it was asked to do to its session.  Of the
\* sessions the listing was right about, and that stayed where they were,
\* `stop` without --force ends none but its own, whatever tabs and agents share
\* the pane; and `send` types into a pane that has its session on show (stop.rs:33-37,
\* hubs/tmux.rs:112-113).
CommandsHitTheirSession ==
  [][/\ Kill /\ ~cmd.force =>
          \A o \in settled \ {cmd.on} :
             o \in Carried(cmd.pane) => o \in Tab /\ \E h \in Host : runsIn[h] # cmd.pane /\ o \in tabs[h]
     /\ TypeText /\ cmd.on \in settled => cmd.on \in OnShow(cmd.pane)]_paneVars
===============================================================================
