-------------------------- MODULE ConversationTurns ---------------------------
(***************************************************************************)
(* What `logs` makes of a session's log: the rows an agent's harness       *)
(* writes, parsed by its provider into records, grouped into turns, and    *)
(* the reply and the pending calls of the newest one.                      *)
(*                                                                         *)
(* A row is its meaning (a prompt, a tool's result, the marker of an end); *)
(* what each harness writes for it, and so what the parser makes of it,    *)
(* differs.  The harness appends rows in any order that makes sense to it: *)
(* users type while the agent works, calls run at the same time, and a     *)
(* message is written again as it grows.                                   *)
(***************************************************************************)
EXTENDS Integers, SequencesExt

CONSTANTS
  Provider,   \* the providers whose logs are read
  MaxLines    \* lines the harness writes

VARIABLES
  harness,    \* whose log it is
  lines       \* the log: [id, row]; a line with the id of an earlier one replaces it

turnsVars == <<harness, lines>>

-------------------------------------------------------------------------------
(***************************************************************************)
(* The records of each provider's rows.                                    *)
(***************************************************************************)
Rec(entries, starts, ends) == [entries |-> entries, starts |-> starts, ends |-> ends]

Plain(entries)  == Rec(entries, FALSE, FALSE)
Asking(entries) == Rec(entries, TRUE, FALSE)
Ended           == Rec(<<>>, FALSE, TRUE)

\* content(): the blocks of an assistant's message.
Blocks == [text   |-> Plain(<<"text">>),
           call   |-> Plain(<<"call">>),
           calls  |-> Plain(<<"call", "call">>),
           spoken |-> Plain(<<"text", "call">>),
           thought |-> Plain(<<"thinking">>)]

\* tool_result(): the text blocks of a result, of which there may be none.
Results == [result |-> Plain(<<"result">>), blank |-> Plain(<<>>)]

\* Text that starts with a prefix of the harness is not the user's.
UserRows == [prompt |-> Asking(<<"prompt">>), injected |-> Plain(<<"context">>)]

\* Rows of either kind.
f ++ g == [row \in DOMAIN f \cup DOMAIN g |-> IF row \in DOMAIN f THEN f[row] ELSE g[row]]

\* A finished background task asks for work in the harness's name; end_turn is
\* part of the last message.
ClaudeRows ==
  Blocks ++ Results ++ UserRows ++
  [notification |-> Asking(<<"context">>),
   reply        |-> Rec(<<"text">>, FALSE, TRUE),
   ended        |-> Ended]

\* Each item is a row, and markers stand between turns.
CodexRows ==
  [r \in {"text", "call", "thought"} |-> Blocks[r]] ++ Results ++ UserRows ++
  [started |-> Asking(<<>>), ended |-> Ended]

\* Assistant rows with skipRun are the client's own.
CodebuddyRows ==
  [r \in {"text", "call"} |-> Blocks[r]] ++ Results ++ UserRows ++
  [mark |-> Plain(<<"context">>), ended |-> Ended]

PiRows ==
  Blocks ++ Results ++
  [prompt |-> Asking(<<"prompt">>), reply |-> Rec(<<"text">>, FALSE, TRUE)]

DshRows == Blocks ++ Results ++ UserRows ++ [ended |-> Ended]

\* An export has no rows for results: a tool's part gets its output.
OpencodeRows ==
  [r \in {"text", "call", "spoken"} |-> Blocks[r]] ++
  [prompt |-> Asking(<<"prompt">>),
   tool   |-> Plain(<<"call", "result">>),
   ended  |-> Ended]

RowsOf == [claude |-> ClaudeRows, codex |-> CodexRows, codebuddy |-> CodebuddyRows,
           pi |-> PiRows, dsh |-> DshRows, opencode |-> OpencodeRows]

ASSUME TurnsAssumption == Provider \subseteq DOMAIN RowsOf /\ MaxLines \in Nat

\* full(): every record, in the order of first appearance, as last written.
LastWritten(log, id) == log[CHOOSE n \in DOMAIN log :
                              /\ log[n].id = id
                              /\ \A m \in DOMAIN log : log[m].id = id => m <= n]

FullLog(log) ==
  LET ids == {log[n].id : n \in DOMAIN log}
      RecordOf(row) == [row |-> row, entries |-> RowsOf[harness][row].entries,
                        starts |-> RowsOf[harness][row].starts, ends |-> RowsOf[harness][row].ends]
  IN  [id \in ids |-> RecordOf(LastWritten(log, id).row)]

-------------------------------------------------------------------------------
(***************************************************************************)
(* Turns.                                                                  *)
(***************************************************************************)
EntriesOf(records) == FlattenSeq([n \in DOMAIN records |-> records[n].entries])

\* Mutant: only text is output.
HasTextOutput(turn) == "text" \in ToSet(EntriesOf(turn.records))

HasOutput(turn) == {"text", "call", "result"} \cap ToSet(EntriesOf(turn.records)) # {}

\* The loop of turns().
AddRecord(turns, record) ==
  LET opens == \/ turns = <<>>
               \/ record.starts /\ (Last(turns).complete \/ HasOutput(Last(turns)))
      turn  == IF opens THEN [records |-> <<>>, complete |-> FALSE] ELSE Last(turns)
  IN  Append(IF opens THEN turns ELSE Front(turns),
             [records  |-> Append(turn.records, record),
              complete |-> turn.complete \/ record.ends])

TurnsOf(records) == FoldLeft(AddRecord, <<>>, records)

\* The last position before n whose entry is not one of some kinds, or 0.
LastOther(entries, n, kinds) ==
  Max({0} \cup {i \in 1..n : entries[i] \notin kinds})

\* reply(): the last run of text, by its positions.
Reply(turn) ==
  LET entries == EntriesOf(turn.records)
      texts   == {i \in DOMAIN entries : entries[i] = "text"}
  IN  IF texts = {} THEN {}
      ELSE (LastOther(entries, Max(texts), {"text"}) + 1)..Max(texts)

\* pending() and trailing_calls(): the calls at the end.
Pending(turn) ==
  LET entries == EntriesOf(turn.records)
      start   == LastOther(entries, Len(entries), {"call", "context", "thinking"}) + 1
  IN  {i \in start..Len(entries) : entries[i] = "call"}

\* latest(): the newest turn, and those before it that have output.
Latest(turns, count) ==
  LET picks == {n \in DOMAIN turns : n = Len(turns) \/ HasOutput(turns[n])}
  IN  {n \in picks : Cardinality({m \in picks : m > n}) < count}

\* What `logs --final` prints, and the note it gives with it.
Final(turns) ==
  IF turns = <<>> THEN [reply |-> {}, pending |-> {}]
  ELSE [reply |-> Reply(Last(turns)), pending |-> Pending(Last(turns))]

NotRepliedYet(turns) == Final(turns) = [reply |-> {}, pending |-> {}]

-------------------------------------------------------------------------------
(***************************************************************************)
(* The harness (external).                                                 *)
(***************************************************************************)
NumberOf(records, kind) ==
  Cardinality({i \in DOMAIN EntriesOf(records) : EntriesOf(records)[i] = kind})

Blanks(records) == Cardinality({n \in DOMAIN records : records[n].row = "blank"})

\* Calls without a result, whatever the result is.
Waiting(records) == NumberOf(records, "call") - NumberOf(records, "result") - Blanks(records)

AppendLine(id, row) == lines' = Append(lines, [id |-> id, row |-> row])

\* A new row, in any order but that a result is one of a call.
WriteRow(row) ==
  /\ row \in DOMAIN Results => Waiting(FullLog(lines)) > 0
  /\ AppendLine(Cardinality({lines[n].id : n \in DOMAIN lines}) + 1, row)

\* The message written last grows.
Rewrite ==
  /\ lines # <<>>
  /\ \E grown \in {<<"text", "spoken">>, <<"call", "tool">>, <<"call", "calls">>} :
       /\ Last(lines).row = grown[1] /\ grown[2] \in DOMAIN RowsOf[harness]
       /\ AppendLine(Last(lines).id, grown[2])

TurnsInit == harness \in Provider /\ lines = <<>>

\* The next session's log.
OtherLog == Len(lines) = MaxLines /\ lines' = <<>> /\ harness' \in Provider

TurnsNext ==
  \/ /\ Len(lines) < MaxLines /\ UNCHANGED harness
     /\ Rewrite \/ \E row \in DOMAIN RowsOf[harness] : WriteRow(row)
  \/ OtherLog

TurnsSpec == TurnsInit /\ [][TurnsNext]_turnsVars

-------------------------------------------------------------------------------
Outputs(records) ==
  {n \in DOMAIN records :
     \E kind \in {"text", "call", "result"} : kind \in ToSet(records[n].entries)}

\* The turn a record is in, from the lengths of the turns.
TurnAt(turns, n) ==
  CHOOSE t \in DOMAIN turns :
    /\ n <= Len(FlattenSeq([u \in 1..t |-> turns[u].records]))
    /\ n > Len(FlattenSeq([u \in 1..(t - 1) |-> turns[u].records]))

\* transcript.rs:275-278, README.md:238-253.  A log in turns is the log: no
\* record is lost or moved.  Two records of the agent's work are in one turn
\* exactly if nobody asked for work in between.  `--final` has a reply exactly if
\* the agent said something since it was last asked, and `complete` is true
\* exactly if it has finished since; the pending calls are among those that wait
\* for a result (unless a result had no text), and the note that the newest
\* prompt has no reply is not given when there is one.
TurnsFollowRequests ==
  LET records == FullLog(lines)
      turns   == TurnsOf(records)
      since   == Max({0} \cup {n \in DOMAIN records : records[n].starts})..Len(records)
      Did(kind) == \E n \in since \ {0} : kind \in ToSet(records[n].entries)
  IN  /\ FlattenSeq([t \in DOMAIN turns |-> turns[t].records]) = records
      /\ \A m, n \in Outputs(records) : m < n =>
           ((TurnAt(turns, m) = TurnAt(turns, n))
              <=> \A k \in (m + 1)..n : ~records[k].starts)
      /\ (Final(turns).reply # {}) <=> Did("text")
      /\ turns # <<>> =>
           (Last(turns).complete <=> \E n \in since \ {0} : records[n].ends)
      /\ Blanks(records) = 0 => Cardinality(Final(turns).pending) <= Waiting(records)
      /\ NotRepliedYet(turns) => ~Did("text")
      /\ \A count \in 1..Len(turns) :
           /\ Len(turns) \in Latest(turns, count)
           /\ Cardinality(Latest(turns, count)) <= count
===============================================================================
