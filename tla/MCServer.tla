------------------------------- MODULE MCServer -------------------------------
(***************************************************************************)
(* The server around its store, and the dashboard, checked in one run:     *)
(* `part` says which of them moves.  What the dashboard sees of the server *)
(* is in TuiList, for any server.                                          *)
(*                                                                         *)
(* Server: one session and its agent process, with or without a TUI that   *)
(* hosts it.  Dashboard: the list and the preview meet in update_selection *)
(* only, which TuiPreview takes for any selection; to interleave them      *)
(* would add nothing.                                                      *)
(***************************************************************************)
EXTENDS BerthServer, TuiList, TuiPreview

CONSTANTS s1, s2

VARIABLE part

MCFilters == {Session, {s1}}

\* The tabs and the rows that keep them: nobody removes or resumes a session,
\* archives it or works in it, which touches neither.
TabsNext ==
  \/ \E w \in Worker, status \in Statuses :
       (\A s \in DOMAIN status : status[s] = "idle") /\ ServeWorker(w, status)
  \/ \E h \in Host, ss \in SUBSET Sid : ServeHost(h, ss)
  \/ Beat \/ Commit \/ Fail
  \/ Crash \/ Load \/ Restore
  \/ Clock
  \/ \E i \in Instance : Process(i)

MCVars == <<part, serverVars, listVars, previewVars>>

MCInit ==
  /\ part \in {"tabs", "sessions", "list", "preview"}
  /\ ServerInit /\ ListInit /\ PreviewInit
  /\ part # "list" => server = [s \in Session |-> "active"]
  /\ part = "sessions" => alive \subseteq Worker
  /\ part \in {"list", "preview"} => alive = {}

MCNext ==
  /\ UNCHANGED part
  /\ \/ part = "tabs" /\ TabsNext /\ UNCHANGED <<listVars, previewVars>>
     \/ /\ part = "sessions" /\ ServerNext /\ alive' \subseteq Worker
        /\ UNCHANGED <<listVars, previewVars>>
     \/ part = "list" /\ ListNext /\ UNCHANGED <<serverVars, previewVars>>
     \/ part = "preview" /\ PreviewNext /\ UNCHANGED <<serverVars, listVars>>

MCSpec == MCInit /\ [][MCNext]_MCVars
===============================================================================
