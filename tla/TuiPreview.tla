------------------------------ MODULE TuiPreview ------------------------------
(***************************************************************************)
(* The dashboard's preview of the selected session: the output of its tmux *)
(* pane, or its conversation read from its transcript log.  Worker threads *)
(* fetch the content; the terminal thread moves the selection, asks and    *)
(* takes the answers, in any order, one handler at a time.                 *)
(*                                                                         *)
(* Which session is selected is TuiList's; here a selection is what        *)
(* update_selection resolves it to.  The debounce and the second between   *)
(* refreshes are left open: the steps may come at any time.                *)
(***************************************************************************)
EXTENDS Naturals, FiniteSets

CONSTANTS
  Log,         \* transcript sources
  Pane,        \* tmux panes
  Nothing,        \* no log, no pane, nothing shown
  CacheCap,    \* CACHE_CAP
  MaxFetches   \* bound: previews asked for

ASSUME PreviewConstants ==
  /\ Log \cap Pane = {} /\ Nothing \notin Log \cup Pane
  /\ Nothing \notin [of : Log \cup Pane, details : BOOLEAN, gen : Nat]
  /\ {CacheCap, MaxFetches} \subseteq Nat

VARIABLES
  chosen,    \* [pane, shows, log]: selected_pane, pane_shows_session, selected_transcript
  details,   \* show_details
  shown,     \* preview
  reader,    \* transcript_reader: the log it has read, for which fetch, or Nothing
  pending,   \* preview_pending_since is set
  inFlight,  \* preview_in_flight, 0 for Nothing
  asked,     \* preview_generation
  asks,   \* asks that were not taken yet
  paneCache, \* previews
  logCache   \* transcript_previews

previewVars == <<chosen, details, shown, reader, pending, inFlight, asked, asks,
                 paneCache, logCache>>

\* A pane shows the session, or hosts it as a tab in the background; the log is
\* read when no pane shows it.
Choice == {t \in [pane : Pane \cup {Nothing}, shows : BOOLEAN, log : Log \cup {Nothing}] :
             t.shows => t.pane # Nothing /\ t.log = Nothing}

Content(s, d, g) == [of |-> s, details |-> d, gen |-> g]

HasPreview(t) == t.shows \/ t.log # Nothing

\* The cached content of a selection.
CachedPane(t) == IF t.shows /\ t.pane \in DOMAIN paneCache THEN paneCache[t.pane] ELSE Nothing
CachedLog(t)  == IF t.log \in DOMAIN logCache /\ logCache[t.log].details = details
                 THEN logCache[t.log] ELSE Nothing

\* A cache that is full is emptied for a new key.
Cached(cache, k, v) ==
  LET old == IF Cardinality(DOMAIN cache) >= CacheCap /\ k \notin DOMAIN cache
             THEN {} ELSE DOMAIN cache
  IN  [x \in old \cup {k} |-> IF x = k THEN v ELSE cache[x]]

-------------------------------------------------------------------------------
\* Mutant: the reader stays with the log it has read.
UpdateSelectionKeepsReader(t) ==
  /\ chosen' = t
  /\ IF t.log # chosen.log
     THEN /\ inFlight' = 0
          /\ shown' = IF t.log # Nothing THEN CachedLog(t) ELSE CachedPane(t)
          /\ UNCHANGED reader
     ELSE /\ shown' = IF chosen.log = Nothing THEN CachedPane(t) ELSE shown
          /\ UNCHANGED <<reader, inFlight>>

\* update_selection with select_preview, but for `pending`.
UpdateSelection(t) ==
  /\ chosen' = t
  /\ IF t.log # chosen.log
     THEN /\ reader' = Nothing /\ inFlight' = 0
          /\ shown' = IF t.log # Nothing THEN CachedLog(t) ELSE CachedPane(t)
     ELSE /\ shown' = IF chosen.log = Nothing THEN CachedPane(t) ELSE shown
          /\ UNCHANGED <<reader, inFlight>>

\* Whether update_selection leaves a preview to be asked for.
PendingAfter(t) == IF t.log # chosen.log THEN HasPreview(t)
                   ELSE IF t.pane # chosen.pane THEN t.pane # Nothing ELSE pending

\* The user moves the cursor, filters, sorts.
Select(t) ==
  /\ UpdateSelection(t)
  /\ pending' = PendingAfter(t)
  /\ UNCHANGED <<details, asked, asks, paneCache, logCache>>

\* apply_refresh: the selection may resolve to something else by now, and what is
\* shown is asked for again unless it is under way.
ApplyRefresh(t) ==
  /\ UpdateSelection(t)
  /\ pending' = (PendingAfter(t) \/ (HasPreview(t) /\ inFlight' = 0))
  /\ UNCHANGED <<details, asked, asks, paneCache, logCache>>

\* next_preview_fetch: a log's reader goes with the fetch.
NextFetch ==
  /\ inFlight = 0 /\ pending /\ asked < MaxFetches
  /\ pending' = FALSE
  /\ IF HasPreview(chosen)
     THEN LET s == IF chosen.log # Nothing THEN chosen.log ELSE chosen.pane
          IN  /\ asked' = asked + 1 /\ inFlight' = asked + 1
              /\ asks' = asks \cup {[gen |-> asked + 1, of |-> s, details |-> details,
                                           done |-> FALSE, content |-> Nothing]}
              /\ reader' = IF s \in Log THEN Nothing ELSE reader
     ELSE UNCHANGED <<asked, inFlight, asks, reader>>
  /\ UNCHANGED <<chosen, details, shown, paneCache, logCache>>

\* A worker thread reads the log on from the reader's position, or captures the
\* pane, which may be gone.
Work(f) ==
  /\ f \in asks /\ ~f.done
  /\ \E c \in {Content(f.of, f.details, f.gen)} \cup
              (IF f.of \in Pane THEN {Nothing} ELSE {}) :
       asks' = (asks \ {f}) \cup {[f EXCEPT !.done = TRUE, !.content = c]}
  /\ UNCHANGED <<chosen, details, shown, reader, pending, inFlight, asked,
                 paneCache, logCache>>

\* The reader comes back with the answer.
ReaderOf(f) == [of |-> f.of, gen |-> f.gen]

\* Mutant: every answer for the selected log is shown.
HandleLogAny(f) ==
  /\ f \in asks /\ f.done /\ f.of \in Log
  /\ asks' = asks \ {f}
  /\ IF f.details # details
     THEN /\ reader' = IF chosen.log = f.of THEN ReaderOf(f) ELSE reader
          /\ inFlight' = IF inFlight = f.gen THEN 0 ELSE inFlight
          /\ UNCHANGED <<shown, logCache>>
     ELSE /\ logCache' = Cached(logCache, f.of, f.content)
          /\ inFlight' = 0
          /\ IF chosen.log = f.of
             THEN reader' = ReaderOf(f) /\ shown' = f.content
             ELSE UNCHANGED <<reader, shown>>
  /\ UNCHANGED <<chosen, details, pending, asked, paneCache>>

\* A log's answer of the other style gives back its reader only.  Others fill the
\* cache unless it has a newer one, and are shown if they are in flight.
HandleLog(f) ==
  /\ f \in asks /\ f.done /\ f.of \in Log
  /\ asks' = asks \ {f}
  /\ IF f.details # details
     THEN /\ reader' = IF chosen.log = f.of THEN ReaderOf(f) ELSE reader
          /\ inFlight' = IF inFlight = f.gen THEN 0 ELSE inFlight
          /\ UNCHANGED <<shown, logCache>>
     ELSE /\ logCache' = IF f.of \in DOMAIN logCache /\ logCache[f.of].gen >= f.gen
                         THEN logCache
                         ELSE Cached(logCache, f.of, f.content)
          /\ inFlight' = IF inFlight = f.gen THEN 0 ELSE inFlight
          /\ IF inFlight = f.gen /\ chosen.log = f.of
             THEN reader' = ReaderOf(f) /\ shown' = f.content
             ELSE UNCHANGED <<reader, shown>>
  /\ UNCHANGED <<chosen, details, pending, asked, paneCache>>

\* Mutant: a pane that is gone is noticed before the fetch is taken off.
HandlePaneGone(f) ==
  /\ f \in asks /\ f.done /\ f.of \in Pane
  /\ asks' = asks \ {f}
  /\ IF inFlight = f.gen /\ f.content # Nothing
     THEN /\ inFlight' = 0
          /\ paneCache' = Cached(paneCache, f.of, f.content)
          /\ shown' = IF chosen.shows /\ chosen.pane = f.of THEN f.content ELSE shown
     ELSE UNCHANGED <<inFlight, paneCache, shown>>
  /\ UNCHANGED <<chosen, details, reader, pending, asked, logCache>>

HandlePane(f) ==
  /\ f \in asks /\ f.done /\ f.of \in Pane
  /\ asks' = asks \ {f}
  /\ IF inFlight = f.gen
     THEN /\ inFlight' = 0
          /\ IF f.content # Nothing
             THEN /\ paneCache' = Cached(paneCache, f.of, f.content)
                  /\ shown' = IF chosen.shows /\ chosen.pane = f.of THEN f.content ELSE shown
             ELSE UNCHANGED <<paneCache, shown>>
     ELSE UNCHANGED <<inFlight, paneCache, shown>>
  /\ UNCHANGED <<chosen, details, reader, pending, asked, logCache>>

\* `t`: render what the reader has in the other style, and ask anew.
ToggleDetails ==
  /\ details' = ~details /\ logCache' = <<>>
  /\ IF chosen.log # Nothing
     THEN /\ shown' = IF reader = Nothing THEN Nothing ELSE Content(reader.of, ~details, reader.gen)
          /\ pending' = TRUE
     ELSE UNCHANGED <<shown, pending>>
  /\ UNCHANGED <<chosen, reader, inFlight, asked, asks, paneCache>>

PreviewInit ==
  /\ chosen = [pane |-> Nothing, shows |-> FALSE, log |-> Nothing]
  /\ details = FALSE /\ shown = Nothing /\ reader = Nothing /\ pending = FALSE
  /\ inFlight = 0 /\ asked = 0 /\ asks = {}
  /\ paneCache = <<>> /\ logCache = <<>>

PreviewNext ==
  \/ \E t \in Choice : Select(t) \/ ApplyRefresh(t)
  \/ NextFetch \/ ToggleDetails
  \/ \E f \in asks : Work(f) \/ HandleLog(f) \/ HandlePane(f)

PreviewSpec == PreviewInit /\ [][PreviewNext]_previewVars

-------------------------------------------------------------------------------
\* The right column never shows the output of another session than the selected
\* one, nor its log in a style the user has left, and a reader goes on from where
\* it was only in the log it has read.
PreviewIsOfSelected ==
  /\ shown # Nothing => \/ shown.of = chosen.log /\ shown.details = details
                        \/ chosen.shows /\ shown.of = chosen.pane
  /\ reader # Nothing => reader.of = chosen.log

\* No fetch is waited for that does not come: a preview in flight would keep
\* every later one from being asked for.
InFlightIsOutstanding == inFlight # 0 => \E f \in asks : f.gen = inFlight

\* While a log stays selected in one style its content does not disappear, and an
\* answer never takes the place of one that was asked for later.
LogPreviewIsSteady ==
  [][chosen.log # Nothing /\ chosen'.log = chosen.log /\ details' = details /\ shown # Nothing
     => shown' # Nothing /\ shown'.gen >= shown.gen]_previewVars
===============================================================================
