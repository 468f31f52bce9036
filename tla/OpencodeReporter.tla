--------------------------- MODULE OpencodeReporter ---------------------------
(***************************************************************************)
(* The reporter plugin inside an opencode 2 server (opencode-v2/index.js), *)
(* one instance per location: which sessions it reports, and as what.      *)
(*                                                                         *)
(* Events of every location reach every instance, in order.  Most of them  *)
(* do not say where their session is: the instance asks once, and keeps    *)
(* such events until the answer.  A session has at most one open lookup,   *)
(* and what waited is applied again a while after its answer: events that  *)
(* come in between are applied at once (locate, :57, :69-79).  A lookup    *)
(* that throws before it returns its promise is left out.                  *)
(* The heartbeat sends what `seen`, `running` and `pending` hold, each     *)
(* time anew, and changes nothing here; titles are left out.               *)
(***************************************************************************)
EXTENDS Naturals, SequencesExt, Maps

CONSTANTS
  OcSession,
  Here,      \* the sessions of the instance's location
  Subagent,  \* subagents' sessions
  MaxQueued  \* bound: events that wait for an answer

ASSUME OcConstants == Here \subseteq OcSession /\ Subagent \subseteq OcSession /\ MaxQueued \in Nat

VARIABLES
  oc,      \* the server's sessions: session -> [state, run, asked]
  plugin,  \* the instance
  answered, \* the sessions whose lookup was answered, and the replay has yet to run
  overtaken \* history: the newest event of their run was applied before older ones

ocVars == <<oc, plugin, answered, overtaken>>

\* `run` is "unseen" for an execution from before the plugin was loaded, of which
\* no event has come yet.
OcRow == [state : {"none", "alive", "deleted"}, run : {"no", "unseen", "yes"}, asked : BOOLEAN]

Where(s) == IF s \in Here THEN "here" ELSE "elsewhere"

FreshPlugin == [seen |-> {}, running |-> {}, child |-> {}, pending |-> {}, dirs |-> EmptyMap,
                locating |-> {}, queued |-> <<>>]

-------------------------------------------------------------------------------
(***************************************************************************)
(* apply.                                                                  *)
(***************************************************************************)
Drop(p, s) == [p EXCEPT !.seen = @ \ {s}, !.running = @ \ {s}, !.pending = @ \ {s},
                        !.dirs = Without(@, {s})]

\* Only these say where the session is; requests are no `session.` events.
Placed == {"created", "asked", "replied"}

\* What an event of the instance's location says.
Note(p, e) ==
  LET s == e.sid
  IN  CASE e.type = "created"  -> [p EXCEPT !.seen = @ \cup {s},
                                            !.child = @ \cup ({s} \cap Subagent)]
        [] e.type = "started"  -> [p EXCEPT !.seen = @ \cup {s}, !.running = @ \cup {s}]
        [] e.type = "streamed" -> [p EXCEPT !.seen = @ \cup {s}, !.running = @ \cup {s}]
        [] e.type = "ended"    -> LET q == [p EXCEPT !.seen = @ \cup {s}, !.running = @ \ {s}]
                                  IN  IF s \in p.child THEN Drop(q, s) ELSE q
        [] e.type = "asked"    -> [p EXCEPT !.seen = @ \cup {s}, !.pending = @ \cup {s}]
        [] e.type = "replied"  -> [p EXCEPT !.pending = @ \ {s}]

Handle(p, e) ==
  LET s     == e.sid
      known == IF e.type = "created" THEN [p EXCEPT !.dirs = Put(@, s, Where(s))] ELSE p
      scope == IF e.type \in Placed THEN Where(s) ELSE known.dirs[s]
  IN  IF e.type = "deleted" THEN Drop([p EXCEPT !.child = @ \ {s}], s)
      ELSE IF e.type \notin Placed /\ s \notin DOMAIN p.dirs
      THEN [p EXCEPT !.locating = @ \cup {s}, !.queued = Append(@, e)]
      ELSE IF scope = "elsewhere" THEN known
      ELSE Note(known, e)

\* Mutant: an answer discards the events that wait for another one.
ReplayOwn(p, s) ==
  FoldLeft(Handle, [p EXCEPT !.locating = @ \ {s}, !.queued = <<>>],
           SelectSeq(p.queued, LAMBDA e : e.sid = s))

\* replay: all that waits is applied, and what still has to waits again.
Replay(p, s) == FoldLeft(Handle, [p EXCEPT !.locating = @ \ {s}, !.queued = <<>>], p.queued)

-------------------------------------------------------------------------------
Queued(s) == \E i \in DOMAIN plugin.queued : plugin.queued[i].sid = s

\* An event of a session, as the server sends it and the instance takes it.
Emit(s, type) ==
  /\ plugin' = Handle(plugin, [sid |-> s, type |-> type])
  /\ overtaken' = IF type \in Placed \cup {"deleted"} THEN overtaken
                  ELSE IF s \in DOMAIN plugin.dirs /\ Queued(s) THEN overtaken \cup {s}
                  ELSE overtaken \ {s}
  /\ UNCHANGED answered

Room == Len(plugin.queued) < MaxQueued

OcCreate(s) ==
  /\ oc[s].state = "none"
  /\ oc' = [oc EXCEPT ![s].state = "alive"]
  /\ Emit(s, "created")

OcStart(s) ==
  /\ oc[s].state = "alive" /\ oc[s].run = "no" /\ Room
  /\ oc' = [oc EXCEPT ![s].run = "yes"]
  /\ Emit(s, "started")

OcStream(s) ==
  /\ oc[s].run # "no" /\ Room
  /\ oc' = [oc EXCEPT ![s].run = "yes"]
  /\ Emit(s, "streamed")

\* Succeeded, failed or interrupted.
OcEnd(s) ==
  /\ oc[s].run # "no" /\ ~oc[s].asked /\ Room
  /\ oc' = [oc EXCEPT ![s].run = "no"]
  /\ Emit(s, "ended")

OcAsk(s) ==
  /\ oc[s].run # "no" /\ ~oc[s].asked
  /\ oc' = [oc EXCEPT ![s].asked = TRUE]
  /\ Emit(s, "asked")

OcReply(s) ==
  /\ oc[s].asked
  /\ oc' = [oc EXCEPT ![s].asked = FALSE]
  /\ Emit(s, "replied")

OcDelete(s) ==
  /\ oc[s].state = "alive"
  /\ oc' = [oc EXCEPT ![s] = [state |-> "deleted", run |-> "no", asked |-> FALSE]]
  /\ Emit(s, "deleted")

\* locate: the server answers, or fails to, and then the session is taken for one
\* of this location.
LookedUp(s) ==
  /\ s \in plugin.locating \ answered
  /\ \E dir \in {Where(s), ""} : plugin' = [plugin EXCEPT !.dirs = Put(@, s, dir)]
  /\ answered' = answered \cup {s}
  /\ UNCHANGED <<oc, overtaken>>

\* A microtask or two later what waited is applied again.
Catchup(s) ==
  /\ s \in answered
  /\ plugin' = Replay(plugin, s)
  /\ answered' = answered \ {s}
  /\ UNCHANGED <<oc, overtaken>>

\* The plugin is loaded into a server that has sessions.
OcInit ==
  /\ oc \in [OcSession -> {r \in OcRow : /\ r.state # "deleted"
                                         /\ r.run # "no" => r.state = "alive" /\ r.run = "unseen"
                                         /\ ~r.asked}]
  /\ plugin = FreshPlugin /\ answered = {} /\ overtaken = {}

OcNext ==
  \E s \in OcSession :
    \/ OcCreate(s) \/ OcStart(s) \/ OcStream(s) \/ OcEnd(s) \/ OcAsk(s) \/ OcReply(s) \/ OcDelete(s)
    \/ LookedUp(s) \/ Catchup(s)

OcSpec == OcInit /\ [][OcNext]_ocVars

-------------------------------------------------------------------------------
\* Sessions none of whose events wait are reported as what they are, although
\* events may have waited, been replayed and overtaken by others: running while
\* they execute (from the first event on that tells), waiting while they ask.
\* Those of another location are reported only if the lookup failed.  Left out are
\* sessions whose newest event came between the answer and the replay of older
\* ones, until the next event of their run (IdleIsIdle); and a subagent's request
\* that overtook the end of its earlier run goes with that end.
ReportsAreTrue ==
  \A s \in plugin.seen :
    IF s \notin Here THEN plugin.dirs[s] = ""
    ELSE oc[s].state = "alive" /\ ~Queued(s) =>
           /\ oc[s].run # "unseen" /\ s \notin overtaken
                => (s \in plugin.running <=> oc[s].run = "yes")
           /\ s \in plugin.pending => oc[s].asked
           /\ oc[s].asked /\ s \notin Subagent => s \in plugin.pending

\* "look it up once and gate their events on the result" (index.js:55): a session
\* that has finished and none of whose events waits is not reported as running.
IdleIsIdle ==
  \A s \in plugin.running \cap Here :
    oc[s].state = "alive" /\ oc[s].run = "no" => Queued(s)

\* "Any event for a session of this location proves it is live here" (a comment
\* of apply): what is reported exists.
ReportedIsLive == \A s \in plugin.seen : oc[s].state # "deleted"
===============================================================================
