----------------------------- MODULE ServerStart ------------------------------
(***************************************************************************)
(* How a server starts, stops and is found: the database's lock, the       *)
(* socket, the pid file, the systemd unit, the service commands, and the   *)
(* clients that use the server or, without one, the file.                  *)
(*                                                                         *)
(* Two processes may be servers: the unit's, which systemd starts again    *)
(* when it fails, and one run by hand.  Any of them may be killed at any   *)
(* step.  The order in which a server takes and gives up the lock, the     *)
(* file and the socket is all that keeps two of them, and the clients,     *)
(* apart.                                                                  *)
(***************************************************************************)
EXTENDS Naturals

CONSTANTS
  ByUnit, ByHand,  \* the two processes
  Rm,              \* clients that change the file: `rm`, `memo`, `resume`
  Ls,              \* clients that read sessions
  Nobody,          \* no process, no file
  Stale,           \* a file whose process is gone
  MaxCrashes, MaxHandStarts,
  Careful          \* nobody runs `service stop` while a server run by hand starts

Process == {ByUnit, ByHand}
Client  == Rm \cup Ls

\* Where a client may be besides being with a process.
Places == {"new", "refused", "holding", "done", "failed"}

ASSUME ServerStartAssumption ==
  /\ ByUnit # ByHand /\ Rm \cap Ls = {}
  /\ Process \cap (Client \cup Places) = {}
  /\ {Nobody, Stale} \cap (Process \cup Client) = {}
  /\ MaxCrashes \in Nat /\ MaxHandStarts \in Nat /\ Careful \in BOOLEAN

VARIABLES
  step,       \* process -> where in serve() it is
  signalled,  \* the processes a SIGTERM is on its way to
  lock,       \* redb's lock on the database file
  sock,       \* the socket file: whose it is
  pidFile,    \* the pid file: whose it is
  active,     \* systemd's view of the unit
  service,    \* the service command under way
  file,       \* the marks in the database file
  memory,     \* process -> the marks in its store
  call,       \* client -> where it is, or the process it asked
  answer,     \* what clients were told: the marks a listing showed
  owed,       \* history: the marks a listing has to show
  faults      \* kills and starts by hand so far

startVars == <<step, signalled, lock, sock, pidFile, active, service,
               file, memory, call, answer, owed, faults>>

Steps == {"off", "begun", "alone", "open", "named", "bound", "serving", "leaving"}
Calls == Places \cup Process

procs   == <<step, signalled>>
clients == <<call, answer, owed>>
unit    == <<active, service>>

\* A connection is made, and a request is answered.
Bound(p)     == sock = p /\ step[p] \in {"bound", "serving"}
Answering(p) == step[p] \in {"serving", "leaving"}
Reached      == sock \in Process /\ step[sock] = "serving"

At(p, s) == step' = [step EXCEPT ![p] = s]

\* The process ends: the kernel releases its lock and resets its connections;
\* its files stay.
Ends(p, sk, pf) ==
  /\ At(p, "off")
  /\ signalled' = signalled \ {p}
  /\ lock' = IF lock = p THEN Nobody ELSE lock
  /\ sock' = IF sk = p THEN Stale ELSE sk
  /\ pidFile' = IF pf = p THEN Stale ELSE pf
  /\ call' = [c \in Client |-> IF call[c] = p THEN "refused" ELSE call[c]]
  /\ UNCHANGED <<file, memory, answer, owed>>

-------------------------------------------------------------------------------
(***************************************************************************)
(* serve().                                                                *)
(***************************************************************************)
\* ping: an answer ends the start.
AlreadyRunning(p) ==
  /\ step[p] = "begun" /\ Reached
  /\ Ends(p, sock, pidFile) /\ UNCHANGED <<unit, faults>>

\* No server, or none that answers within DEFAULT_TIMEOUT.
NoAnswer(p) ==
  /\ step[p] = "begun" /\ At(p, "alone")
  /\ UNCHANGED <<signalled, lock, sock, pidFile, unit, file, memory, clients, faults>>

\* db::open, load, prune and persist_all.
OpenAndLoad(p) ==
  /\ step[p] = "alone" /\ lock = Nobody
  /\ lock' = p /\ memory' = [memory EXCEPT ![p] = file] /\ At(p, "open")
  /\ UNCHANGED <<signalled, sock, pidFile, unit, file, clients, faults>>

\* Mutant: a server that gives up cleans up.
OpenDeniedCleansUp(p) ==
  /\ step[p] = "alone" /\ lock # Nobody
  /\ Ends(p, Nobody, Nobody) /\ UNCHANGED <<unit, faults>>

\* Another process holds the file: the server gives up and cleans nothing up.
OpenDenied(p) ==
  /\ step[p] = "alone" /\ lock # Nobody
  /\ Ends(p, sock, pidFile) /\ UNCHANGED <<unit, faults>>

WritePid(p) ==
  /\ step[p] = "open" /\ pidFile' = p /\ At(p, "named")
  /\ UNCHANGED <<signalled, lock, sock, unit, file, memory, clients, faults>>

\* ipc::bind: whatever socket file is there is removed first.
Bind(p) ==
  /\ step[p] = "named" /\ sock' = p /\ At(p, "bound")
  /\ UNCHANGED <<signalled, lock, pidFile, unit, file, memory, clients, faults>>

\* install_shutdown, and the loop that accepts.
Listen(p) ==
  /\ step[p] = "bound" /\ At(p, "serving")
  /\ UNCHANGED <<signalled, lock, sock, pidFile, unit, file, memory, clients, faults>>

\* The signal handler removes the files and exits with 0, which does not make
\* systemd start the unit again.  Requests are served until the exit.
Unlink(p) ==
  /\ step[p] = "serving" /\ p \in signalled
  /\ sock' = Nobody /\ At(p, "leaving")
  /\ UNCHANGED <<signalled, lock, pidFile, unit, file, memory, clients, faults>>

Leave(p) ==
  /\ step[p] = "leaving"
  /\ Ends(p, sock, Nobody)
  /\ active' = (active /\ p # ByUnit)
  /\ UNCHANGED <<service, faults>>

\* Before the handler is installed the signal just ends the process.
Terminated(p) ==
  /\ step[p] \notin {"off", "serving", "leaving"} /\ p \in signalled
  /\ Ends(p, sock, pidFile)
  /\ active' = (active /\ p # ByUnit)
  /\ UNCHANGED <<service, faults>>

Killed(p) ==
  /\ step[p] # "off" /\ faults.crashes < MaxCrashes
  /\ Ends(p, sock, pidFile)
  /\ faults' = [faults EXCEPT !.crashes = @ + 1]
  /\ UNCHANGED unit

-------------------------------------------------------------------------------
(***************************************************************************)
(* systemd, the service commands and the user's shell.                     *)
(***************************************************************************)
Begin(p) ==
  /\ At(p, "begun")
  /\ UNCHANGED <<signalled, lock, sock, pidFile, file, memory, clients>>

\* Restart=on-failure, or the start that `service start` asked for.
UnitStarts ==
  /\ active /\ service = "none" /\ step[ByUnit] = "off"
  /\ Begin(ByUnit) /\ UNCHANGED <<unit, faults>>

Idle == UNCHANGED <<lock, sock, pidFile, file, memory, clients, faults, step>>

\* start and install: nothing is done while a server answers.
ServiceStart ==
  /\ service = "none" /\ ~Reached /\ active' = TRUE
  /\ Idle /\ UNCHANGED <<signalled, service>>

Signal(S) == signalled' = signalled \cup {p \in S : step[p] # "off"}

\* systemctl restart: the unit's process is stopped before it is started.
ServiceRestart ==
  /\ service = "none" /\ service' = "restarting"
  /\ Signal({ByUnit}) /\ Idle /\ UNCHANGED active

Restarted ==
  /\ service = "restarting" /\ step[ByUnit] = "off"
  /\ service' = "none" /\ active' = TRUE
  /\ Idle /\ UNCHANGED signalled

\* stop and uninstall: systemctl stop, which waits, then cleanup().
ServiceStop ==
  /\ service = "none" /\ service' = "stopping"
  /\ Careful => step[ByHand] \in {"off", "serving", "leaving"}
  /\ active' = FALSE /\ Signal({ByUnit}) /\ Idle

SignalPid ==
  /\ service = "stopping" /\ step[ByUnit] = "off" /\ service' = "signalling"
  /\ Signal({pidFile} \cap Process) /\ Idle /\ UNCHANGED active

RemovePid ==
  /\ service = "signalling" /\ service' = "removing" /\ pidFile' = Nobody
  /\ UNCHANGED <<procs, lock, sock, active, file, memory, clients, faults>>

RemoveSocket ==
  /\ service = "removing" /\ service' = "none" /\ sock' = Nobody
  /\ UNCHANGED <<procs, lock, pidFile, active, file, memory, clients, faults>>

HandStart ==
  /\ step[ByHand] = "off" /\ faults.hands < MaxHandStarts
  /\ Careful => service \in {"none", "restarting"}
  /\ Begin(ByHand)
  /\ faults' = [faults EXCEPT !.hands = @ + 1]
  /\ UNCHANGED unit

\* Control-C.
Interrupt ==
  /\ step[ByHand] # "off" /\ Signal({ByHand}) /\ Idle /\ UNCHANGED unit

-------------------------------------------------------------------------------
(***************************************************************************)
(* The clients: note_removal and set_memo, query_sessions and its kin.     *)
(***************************************************************************)
Told == {c \in Rm : call[c] = "done"}

To(c, s) == call' = [call EXCEPT ![c] = s]

Calling(c) ==
  /\ call[c] = "new"
  /\ owed' = [owed EXCEPT ![c] = Told]
  /\ UNCHANGED <<procs, lock, sock, pidFile, unit, file, memory, answer, faults>>

\* The connection waits in the listener's queue until it is accepted.
Connect(c) == Calling(c) /\ \E p \in Process : Bound(p) /\ To(c, p)

\* No server, or none that accepts within DEFAULT_TIMEOUT.
Refused(c) == Calling(c) /\ To(c, "refused")

Kept(c, p) ==
  /\ file' = file \cup ({c} \cap Rm)
  /\ memory' = [memory EXCEPT ![p] = @ \cup ({c} \cap Rm)]
  /\ answer' = IF c \in Ls THEN [answer EXCEPT ![c] = memory[p]] ELSE answer

Answered(c) ==
  /\ \E p \in Process : call[c] = p /\ Answering(p) /\ Kept(c, p)
  /\ To(c, "done")
  /\ UNCHANGED <<procs, lock, sock, pidFile, unit, owed, faults>>

\* Mutant: the file is opened whether or not a server has it.
TakeFileShared(c) ==
  /\ call[c] = "refused"
  /\ To(c, "holding") /\ lock' = c
  /\ UNCHANGED <<procs, sock, pidFile, unit, file, memory, answer, owed, faults>>

\* The client opens the file itself, which fails while another process has it.
TakeFile(c) ==
  /\ call[c] = "refused"
  /\ IF lock = Nobody THEN To(c, "holding") /\ lock' = c
                      ELSE To(c, "failed") /\ UNCHANGED lock
  /\ UNCHANGED <<procs, sock, pidFile, unit, file, memory, answer, owed, faults>>

UseFile(c) ==
  /\ call[c] = "holding" /\ To(c, "done") /\ lock' = Nobody
  /\ file' = file \cup ({c} \cap Rm)
  /\ answer' = IF c \in Ls THEN [answer EXCEPT ![c] = file] ELSE answer
  /\ UNCHANGED <<procs, sock, pidFile, unit, memory, owed, faults>>

-------------------------------------------------------------------------------
StartInit ==
  /\ step = [p \in Process |-> "off"] /\ signalled = {}
  /\ lock = Nobody /\ sock = Nobody /\ pidFile = Nobody
  /\ active = FALSE /\ service = "none"
  /\ file = {} /\ memory = [p \in Process |-> {}]
  /\ call = [c \in Client |-> "new"]
  /\ answer = [c \in Ls |-> {}] /\ owed = [c \in Client |-> {}]
  /\ faults = [crashes |-> 0, hands |-> 0]

Serves(p) ==
  \/ AlreadyRunning(p) \/ NoAnswer(p) \/ OpenAndLoad(p) \/ OpenDenied(p)
  \/ WritePid(p) \/ Bind(p) \/ Listen(p)
  \/ Unlink(p) \/ Leave(p) \/ Terminated(p)

Cleanup == SignalPid \/ RemovePid \/ RemoveSocket

StartNext ==
  \/ \E p \in Process : Serves(p) \/ Killed(p)
  \/ UnitStarts \/ ServiceStart \/ ServiceRestart \/ Restarted
  \/ ServiceStop \/ Cleanup \/ HandStart \/ Interrupt
  \/ \E c \in Client : Connect(c) \/ Refused(c) \/ Answered(c) \/ TakeFile(c) \/ UseFile(c)

\* Processes run on, systemd restarts a failed unit, and a client that has the
\* file is done with it some day.  Nothing makes a command be run.
StartFairness ==
  /\ \A p \in Process : WF_startVars(Serves(p))
  /\ WF_startVars(UnitStarts)
  /\ \A c \in Client : WF_startVars(UseFile(c))

StartSpec == StartInit /\ [][StartNext]_startVars /\ StartFairness

-------------------------------------------------------------------------------
StartTypeOK ==
  /\ step \in [Process -> Steps] /\ signalled \subseteq Process
  /\ lock \in Process \cup Client \cup {Nobody}
  /\ sock \in Process \cup {Nobody, Stale} /\ pidFile \in Process \cup {Nobody, Stale}
  /\ active \in BOOLEAN
  /\ service \in {"none", "restarting", "stopping", "signalling", "removing"}
  /\ file \subseteq Rm /\ memory \in [Process -> SUBSET Rm]
  /\ call \in [Client -> Calls]
  /\ answer \in [Ls -> SUBSET Rm] /\ owed \in [Client -> SUBSET Rm]
  /\ faults \in [crashes : 0..MaxCrashes, hands : 0..MaxHandStarts]

\* db.rs:152-207, server.rs:53-67: whichever way a listing is answered, by a
\* server or from the file, it shows every removal that was acknowledged before
\* it was asked for, whatever servers came and went in between.
ListingsShowRemovals == \A c \in Ls : call[c] = "done" => owed[c] \subseteq answer[c]

\* service.rs:76-90, Restart=on-failure: once the service is meant to run and
\* no command is under way, a server comes to answer on the socket, and stays;
\* whatever files and locks the servers before it left behind.
ServerComesBack == <>[](active /\ service = "none") => <>[]Reached
===============================================================================
