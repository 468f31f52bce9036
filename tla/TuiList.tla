-------------------------------- MODULE TuiList --------------------------------
(***************************************************************************)
(* The dashboard's list (`agent-berth tui`): rows fetched by worker        *)
(* threads, the selection, the dialogs, and what the keys make it do to    *)
(* sessions.                                                               *)
(*                                                                         *)
(* The terminal thread runs one handler at a time.  A handler that leaves  *)
(* the list `dirty` asks for new rows before the next one runs, so that    *)
(* asking is part of its action.  A fetch reads the sessions, then the     *)
(* tmux panes, then answers; the server, the agents and other clients      *)
(* change the sessions meanwhile.                                          *)
(*                                                                         *)
(* What update_selection does to the preview is TuiPreview.  Chords (`g r`)*)
(* are one key.  The help sheet, lazygit and the browser act on no session *)
(* and are left out.                                                       *)
(***************************************************************************)
EXTENDS Naturals, FiniteSets, SequencesExt

CONSTANTS
  Session,  \* the stored sessions
  Tmux,     \* those whose agents run in tmux panes
  Filters,  \* what a filter text may match: sets of sessions; "" matches all
  None,     \* no session, no pane
  MaxStale  \* bound: superseded fetches that may still answer

ASSUME ListConstants ==
  /\ IsFiniteSet(Session) /\ Session \in Filters /\ Filters \subseteq SUBSET Session
  /\ Tmux \subseteq Session /\ None \notin Session
  /\ MaxStale \in Nat

VARIABLES
  \* The world.
  server,    \* session -> level: what the server would list it as
  \* The App.
  view,      \* "active" or "resumable"
  rows,      \* the fetched rows, sorted
  selected,  \* index into the filtered rows
  pane,      \* selected_pane: set by update_selection only
  filter,    \* the sessions that match the filter text
  input,     \* the dialog that takes the keys
  target,    \* confirm_session, memo_session or message_session
  fetches,   \* refreshes that have not been handled
  \* History.
  source,    \* the view the rows were fetched for
  pointed,   \* the session under the cursor when the open dialog was opened
  gone       \* removals the user was told of, until the session reports again

app == <<view, rows, selected, pane, filter, input, target>>
listVars == <<server, app, fetches, source, pointed, gone>>

\* A resumable session has no process; `rm` and `resume` hide a session until it
\* reports.
View == {"active", "resumable"}
ServerLevel == View \cup {"hidden"}

\* db::query_sessions(resumable, idle).  Which of the resumable sessions are
\* offered depends on their status and on the idle window.
Query(v) ==
  LET S == {s \in Session : server[s] = v}
  IN  IF v = "active" THEN {S} ELSE SUBSET S

\* Sort keys such as the activity change at any time, and the user picks the
\* key: any order of the rows is the sorted one.
Sorted(S) == SetToSeqs(S)

-------------------------------------------------------------------------------
(***************************************************************************)
(* The selection.                                                          *)
(***************************************************************************)
\* The rows that match the filter, by their places in the list, and how the
\* selection counts them.
Filtered(r, f) == {p \in DOMAIN r : r[p] \in f}
Rank(r, f, p)  == Cardinality({q \in Filtered(r, f) : q <= p})

Under(r, f, n) == LET at == {p \in Filtered(r, f) : Rank(r, f, p) = n}
                  IN  IF at = {} THEN None ELSE r[CHOOSE p \in at : TRUE]
Selected       == Under(rows, filter, selected)

Clamp(r, f, n) ==
  LET len == Cardinality(Filtered(r, f))
  IN  IF len = 0 THEN 1 ELSE IF n > len THEN len ELSE n

\* Mutant: the index stays where it was.
RestoredByIndex(r, f, n, keep) == Clamp(r, f, n)

\* restore_selection: follow the session that was selected.
Restored(r, f, n, keep) ==
  LET at == {p \in Filtered(r, f) : r[p] = keep}
  IN  IF at = {} THEN Clamp(r, f, n) ELSE Rank(r, f, CHOOSE p \in at : TRUE)

\* The pane that update_selection resolves for the selected session: the panes
\* that came with active rows show the agents of those that run in tmux.
Resolved(r, v, f, n) ==
  LET s == Under(r, f, n) IN IF v = "active" /\ s \in Tmux THEN s ELSE None

\* A handler's new rows (and the view they are for), filter and index, then
\* update_selection.
Show(r, v, f, n) ==
  /\ rows' = r /\ source' = v /\ filter' = f /\ selected' = n
  /\ pane' = Resolved(r, v, f, n)

-------------------------------------------------------------------------------
(***************************************************************************)
(* Fetches.  `current` stands for a generation equal to refresh_generation.*)
(***************************************************************************)
Refresh(v) ==
  \E late \in SUBSET {[f EXCEPT !.current = FALSE] : f \in fetches} :
    /\ Cardinality(late) <= MaxStale
    /\ fetches' = late \cup {[current |-> TRUE, view |-> v, answered |-> FALSE,
                              rows |-> <<>>]}

\* The loop asks once a second, whether the last fetch has answered or not.
Timer ==
  /\ Refresh(view)
  /\ UNCHANGED <<server, app, source, pointed, gone>>

\* The worker thread reads the sessions and the panes and sends its answer; an
\* error changes the status line only.
Answer(f) ==
  /\ f \in fetches /\ ~f.answered
  /\ \/ \E S \in Query(f.view) : \E r \in Sorted(S) :
          fetches' = (fetches \ {f}) \cup
                     {[current |-> f.current, view |-> f.view, answered |-> TRUE, rows |-> r]}
     \/ fetches' = fetches \ {f}
  /\ UNCHANGED <<server, app, source, pointed, gone>>

\* Mutant: answers are taken as they come.
HandleAny(f) ==
  /\ f \in fetches /\ f.answered
  /\ fetches' = fetches \ {f}
  /\ Show(f.rows, f.view, filter, Restored(f.rows, filter, selected, Selected))
  /\ UNCHANGED <<server, view, input, target, pointed, gone>>

\* drain_fetched: only the answer to the last question counts.
Handle(f) ==
  /\ f \in fetches /\ f.answered
  /\ fetches' = fetches \ {f}
  /\ IF f.current
     THEN Show(f.rows, f.view, filter, Restored(f.rows, filter, selected, Selected))
     ELSE UNCHANGED <<rows, source, filter, selected, pane>>
  /\ UNCHANGED <<server, view, input, target, pointed, gone>>

-------------------------------------------------------------------------------
(***************************************************************************)
(* Keys that move the cursor or change what is shown.                      *)
(***************************************************************************)
Quiet == UNCHANGED <<server, pointed, gone>>

\* Mutant: no clamp at the first row.
MoveUp ==
  /\ input \in {"normal", "filter"}
  /\ Filtered(rows, filter) # {}
  /\ \E n \in {Clamp(rows, filter, selected + 1), selected - 1} : Show(rows, source, filter, n)
  /\ UNCHANGED <<view, input, target, fetches>> /\ Quiet

Move ==
  /\ input \in {"normal", "filter"}
  /\ Filtered(rows, filter) # {}
  /\ \E n \in {Clamp(rows, filter, selected + 1), IF selected = 1 THEN 1 ELSE selected - 1} :
       Show(rows, source, filter, n)
  /\ UNCHANGED <<view, input, target, fetches>> /\ Quiet

\* `g a`, `g r`: the rows stay those of the other view until the answer.
SetView(v) ==
  /\ input = "normal" /\ view # v
  /\ view' = v /\ selected' = 1
  /\ Refresh(v)
  /\ UNCHANGED <<rows, source, pane, filter, input, target>> /\ Quiet

\* set_sort, set_group.
Resort ==
  /\ input = "normal"
  /\ \E q \in SetToSeqs(ToSet(rows)) : Show(q, source, filter, Restored(q, filter, selected, Selected))
  /\ UNCHANGED <<view, input, target, fetches>> /\ Quiet

StartFilter ==
  /\ input = "normal" /\ input' = "filter"
  /\ UNCHANGED <<view, rows, source, selected, pane, filter, target, fetches>> /\ Quiet

\* A character more or less; Esc clears the text and leaves the dialog.
TypeFilter ==
  /\ input = "filter"
  /\ \E f \in Filters : Show(rows, source, f, 1)
  /\ \/ input' = input
     \/ input' = "normal" /\ filter' = Session
  /\ UNCHANGED <<view, target, fetches>> /\ Quiet

EndFilter ==
  /\ input = "filter" /\ input' = "normal"
  /\ UNCHANGED <<view, rows, source, selected, pane, filter, target, fetches>> /\ Quiet

\* Esc outside the dialog.
ClearFilter ==
  /\ input = "normal" /\ filter # Session
  /\ Show(rows, source, Session, Clamp(rows, Session, selected))
  /\ UNCHANGED <<view, input, target, fetches>> /\ Quiet

\* `I`: switches the idle filter off, or asks for a window and switches it on.
ToggleIdle ==
  /\ input = "normal" /\ view = "resumable"
  /\ \/ Refresh(view) /\ UNCHANGED input
     \/ input' = "idle" /\ UNCHANGED fetches
  /\ UNCHANGED <<view, rows, source, selected, pane, filter, target>> /\ Quiet

EndIdle ==
  /\ input = "idle" /\ input' = "normal"
  /\ Refresh(view) \/ UNCHANGED fetches
  /\ UNCHANGED <<view, rows, source, selected, pane, filter, target>> /\ Quiet

-------------------------------------------------------------------------------
(***************************************************************************)
(* Keys that act on a session.                                             *)
(***************************************************************************)
\* `a`: with a pane, this terminal's tmux client is switched to it and the list
\* is asked for again; without one, a worker thread focuses the desktop app.
Attach ==
  /\ input = "normal" /\ Selected # None
  /\ IF pane # None THEN Refresh(view) ELSE UNCHANGED fetches
  /\ UNCHANGED <<server, app, source, pointed, gone>>

\* `r`: launch, then mark as resumed, then attach, each of which may fail.
Resume ==
  /\ input = "normal" /\ view = "resumable" /\ Selected # None
  /\ \/ server' = [server EXCEPT ![Selected] = "hidden"]
        /\ (Refresh(view) \/ UNCHANGED fetches)
     \/ UNCHANGED <<server, fetches>>
  /\ UNCHANGED <<app, source, pointed, gone>>

\* `d`, `m`, `M`: remember the session and open the dialog.  `M` is for active
\* sessions, and refused if the row says waiting.
OpenDialog(d) ==
  /\ input = "normal" /\ Selected # None
  /\ d = "message" => view = "active"
  /\ input' = d /\ target' = Selected /\ pointed' = Selected
  /\ UNCHANGED <<server, view, rows, selected, pane, filter, fetches, source,
                 gone>>

CloseDialog ==
  /\ input \in {"confirm", "memo", "message"}
  /\ input' = "normal" /\ target' = None /\ pointed' = None
  /\ UNCHANGED <<server, view, rows, selected, pane, filter, fetches, source, gone>>

\* Mutant: the dialog acts on the row under the cursor.
ConfirmSelected ==
  /\ input = "confirm" /\ Selected # None
  /\ \/ server' = [server EXCEPT ![Selected] = "hidden"] /\ gone' = gone \cup {Selected}
        /\ Refresh(view)
     \/ UNCHANGED <<server, gone, fetches>>
  /\ input' = "normal" /\ target' = None /\ pointed' = None
  /\ UNCHANGED <<view, rows, selected, pane, filter, source>>

\* `y`: the server hides the session and the list is asked for again, or the
\* removal fails.
Confirm ==
  /\ input = "confirm"
  /\ \/ server' = [server EXCEPT ![target] = "hidden"] /\ gone' = gone \cup {target}
        /\ Refresh(view)
     \/ UNCHANGED <<server, gone, fetches>>
  /\ input' = "normal" /\ target' = None /\ pointed' = None
  /\ UNCHANGED <<view, rows, selected, pane, filter, source>>

SetMemo ==
  /\ input = "memo"
  /\ Refresh(view) \/ UNCHANGED fetches
  /\ input' = "normal" /\ target' = None /\ pointed' = None
  /\ UNCHANGED <<server, view, rows, selected, pane, filter, source, gone>>

\* The pane is looked up anew; a worker thread types the message.
SendMessage ==
  /\ input = "message"
  /\ input' = "normal" /\ target' = None /\ pointed' = None
  /\ UNCHANGED <<server, view, rows, selected, pane, filter, fetches, source, gone>>

-------------------------------------------------------------------------------
\* Agents report, end and are resumed elsewhere; others remove sessions.
World(s, l) ==
  /\ server[s] # l
  /\ server' = [server EXCEPT ![s] = l]
  /\ gone' = gone \ {s}
  /\ UNCHANGED <<app, fetches, source, pointed>>

\* run: the first rows are asked for before the first key.
ListInit ==
  /\ server \in [Session -> ServerLevel]
  /\ view = "active" /\ rows = <<>> /\ selected = 1 /\ pane = None
  /\ filter = Session /\ input = "normal" /\ target = None
  /\ fetches = {[current |-> TRUE, view |-> "active", answered |-> FALSE, rows |-> <<>>]}
  /\ source = "active" /\ pointed = None /\ gone = {}

Keys ==
  \/ Move \/ \E v \in View : SetView(v)
  \/ Resort \/ StartFilter \/ TypeFilter \/ EndFilter \/ ClearFilter
  \/ ToggleIdle \/ EndIdle
  \/ Attach \/ Resume \/ \E d \in {"confirm", "memo", "message"} : OpenDialog(d)
  \/ CloseDialog \/ Confirm \/ SetMemo \/ SendMessage

ListNext ==
  \/ Timer
  \/ \E f \in fetches : Answer(f) \/ Handle(f)
  \/ Keys
  \/ \E s \in Session, l \in ServerLevel : World(s, l)

ListSpec == ListInit /\ [][ListNext]_listVars

-------------------------------------------------------------------------------
(***************************************************************************)
(* Properties.                                                             *)
(***************************************************************************)
OnScreen == ToSet(rows)
Visible  == OnScreen \cap filter

\* The shape of the state; and while any row is visible one of them is selected:
\* the keys that act on a session never find none although the list shows some.
ListTypeOK ==
  /\ Visible # {} => Selected # None
  /\ server \in [Session -> ServerLevel]
  /\ {view, source} \subseteq View
  /\ OnScreen \subseteq Session /\ Len(rows) = Cardinality(OnScreen)
  /\ filter \in Filters
  /\ selected = 1 \/ selected \in 1 .. Cardinality(Visible)
  /\ {pane, target, pointed} \subseteq Session \cup {None}
  /\ input \in {"normal", "filter", "idle", "confirm", "memo", "message"}
  /\ Cardinality(fetches) <= MaxStale + 1
  /\ Cardinality({f \in fetches : f.current}) <= 1

\* What the README says of `r`, "Resume the selected resumable session": an agent
\* is launched for sessions listed as resumable only.
ResumesOnlyResumable == [][Resume => source = "resumable"]_listVars

\* Rows come and go, change places and are refetched: the cursor stays on its
\* session as long as that one is still visible.
SelectionFollows == [][rows' # rows => Selected' = Selected \/ Selected \notin Visible']_listVars

\* The session that is removed is the one the user pressed `d` on, whatever
\* the list did until `y`.
RemovesWhatWasPointedAt == [][\A s \in gone' \ gone : s = pointed]_listVars

\* A row whose removal the user was told of does not come back to the screen
\* by an answer that was on its way.
RemovedStaysOffScreen ==
  [][\A s \in gone \cap gone' : s \notin OnScreen => s \notin OnScreen']_listVars
===============================================================================
