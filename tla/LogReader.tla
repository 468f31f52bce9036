------------------------------- MODULE LogReader -------------------------------
(***************************************************************************)
(* The live preview's reader of a transcript log (transcript::Reader): it  *)
(* reads on from where it was, keeps the latest records, and starts over   *)
(* when the log is not the one it has read.  The agent writes, cuts and    *)
(* replaces the log at any time, within a read too: nothing is locked.     *)
(*                                                                         *)
(* A log is a sequence of blocks of bytes.  A row takes one or more, and   *)
(* its newline is in the last.  Rows carry ids and times, so that no two   *)
(* written rows have the same bytes.  In a compressed log (DeepSeek's) a   *)
(* row is a frame.  The path is given.                                     *)
(***************************************************************************)
EXTENDS Integers, SequencesExt, FiniteSetsExt

CONSTANTS
  Message,     \* record ids of messages
  Shape,       \* the rows agents write: [key, size]
  Marker, Bad, \* keys of rows with nothing to show, and of rows that do not parse
  Corrupt,     \* the key of rows whose frame cannot be decoded
  Nobody,      \* no file yet, no block
  ReadLimit, RecordLimit, EntryLimit, \* READ_LIMIT, RECORD_LIMIT, ENTRY_LIMIT
  CheckLen,    \* the 256 bytes of a checkpoint
  MaxRows, MaxFiles, MaxWrites \* bounds: rows written, files, changes of a file

ASSUME ReaderConstants ==
  /\ Shape \subseteq [key : Message \cup {Marker, Bad, Corrupt}, size : Nat \ {0}]
  /\ Bad # Corrupt /\ Marker \notin {Bad, Corrupt} /\ {Marker, Bad, Corrupt} \cap Message = {}
  /\ Nobody \notin Nat \* files are numbered
  /\ {ReadLimit, RecordLimit, EntryLimit, CheckLen} \subseteq Nat \ {0}
  /\ RecordLimit < ReadLimit

VARIABLES
  compressed, \* what the provider says of its logs
  log,        \* the file at the path: [id, blocks, writes]
  rowsOut,    \* rows written so far, in all files
  opened,     \* what a reader that is at work holds: the file's metadata, how far it is,
              \* what the file held when it was replaced; `cut` is history: it was cut in
              \* its place since
  tail        \* the Reader; `torn` is history: it went by what the file held before a cut

logVars == <<compressed, log, rowsOut, opened, tail>>

FreshReader == [offset |-> 0, pending |-> <<>>, skipping |-> FALSE, entries |-> <<>>,
                checkpoint |-> <<>>, modified |-> 0, identity |-> Nobody, omitted |-> FALSE,
                torn |-> FALSE]

Closed == [id |-> 0, len |-> 0, modified |-> 0, at |-> "closed", rest |-> <<>>, cut |-> FALSE]

-------------------------------------------------------------------------------
(***************************************************************************)
(* Rows.                                                                   *)
(***************************************************************************)
Ends(b)  == b.at = b.size
Whole(p) == p # <<>> /\ p[1].at = 1 /\ Len(p) = p[1].size /\ \A i \in DOMAIN p : p[i].row = p[1].row

\* A revision takes the place of the message it revises.
Revised(entries, e) ==
  IF \E i \in DOMAIN entries : entries[i].key = e.key
  THEN [i \in DOMAIN entries |-> IF entries[i].key = e.key THEN e ELSE entries[i]]
  ELSE Append(entries, e)

\* Mutant: the oldest entry is dropped without a word.
RecordQuietly(r) ==
  LET b == r.pending[1]
      e == Revised(r.entries, [key |-> b.key, row |-> b.row])
  IN  IF ~Whole(r.pending) \/ b.key \in {Bad, Corrupt} THEN [r EXCEPT !.omitted = TRUE]
      ELSE IF b.key = Marker THEN r
      ELSE IF Len(e) > EntryLimit THEN [r EXCEPT !.entries = Tail(e)]
      ELSE [r EXCEPT !.entries = e]

\* record: a complete line.
Record(r) ==
  LET b == r.pending[1]
      e == Revised(r.entries, [key |-> b.key, row |-> b.row])
  IN  IF ~Whole(r.pending) \/ b.key \in {Bad, Corrupt} THEN [r EXCEPT !.omitted = TRUE]
      ELSE IF b.key = Marker THEN r
      ELSE IF Len(e) > EntryLimit THEN [r EXCEPT !.entries = Tail(e), !.omitted = TRUE]
      ELSE [r EXCEPT !.entries = e]

\* Mutant: a line that was too long hides the ones after it.
FeedSkipsOn(r, b) ==
  LET kept == IF r.skipping THEN r
              ELSE IF Len(r.pending) >= RecordLimit
              THEN [r EXCEPT !.pending = <<>>, !.skipping = TRUE, !.omitted = TRUE]
              ELSE [r EXCEPT !.pending = Append(@, b)]
      line == IF kept.skipping THEN kept ELSE Record(kept)
  IN  IF Ends(b) THEN [line EXCEPT !.pending = <<>>] ELSE kept

\* One more block of a line, which may be too long to keep.
Feed(r, b) ==
  LET kept == IF r.skipping THEN r
              ELSE IF Len(r.pending) >= RecordLimit
              THEN [r EXCEPT !.pending = <<>>, !.skipping = TRUE, !.omitted = TRUE]
              ELSE [r EXCEPT !.pending = Append(@, b)]
      line == IF kept.skipping THEN kept ELSE Record(kept)
  IN  IF Ends(b) THEN [line EXCEPT !.pending = <<>>, !.skipping = FALSE] ELSE kept

\* decode_frames: from the first frame's start on; what is before it is passed
\* over.  A last frame that cannot be decoded may still be being written.
Frames(blocks) ==
  LET n    == Len(blocks)
      From == {i \in 1 .. n : blocks[i].at = 1}
      done == IF Ends(blocks[n]) /\ blocks[n].key # Corrupt THEN n ELSE Max(From) - 1
  IN  IF From = {} THEN [text |-> <<>>, consumed |-> n]
      ELSE [text |-> SubSeq(blocks, Min(From), done), consumed |-> done]

\* A corrupt frame that another one follows adds no text, and no note.
FeedText(r, b) == IF compressed /\ b.key = Corrupt THEN r ELSE Feed(r, b)

-------------------------------------------------------------------------------
(***************************************************************************)
(* read, in the order it looks at the file: its metadata, the checkpoint,  *)
(* the bytes, the next checkpoint.                                         *)
(***************************************************************************)
At(step) == opened.at = step

Open ==
  /\ At("closed")
  /\ opened' = [id |-> log.id, len |-> Len(log.blocks), modified |-> log.writes,
                at |-> "checkpoint", rest |-> <<>>, cut |-> FALSE]
  /\ UNCHANGED <<compressed, log, rowsOut, tail>>

\* What the open file holds by now: a file that was replaced is not written any more.
Held == IF opened.id = log.id THEN log.blocks ELSE opened.rest

Check(blocks, offset) == SubSeq(blocks, Max({1, offset - CheckLen + 1}), offset)

\* A log that is too far ahead is read from near its end.
StartPoint(r) ==
  IF opened.len - r.offset > ReadLimit
  THEN [r EXCEPT !.offset = opened.len - ReadLimit, !.pending = <<>>,
                 !.skipping = TRUE, !.omitted = TRUE, !.torn = @ \/ opened.cut]
  ELSE r

Replaced ==
  \/ tail.identity \notin {Nobody, opened.id}
  \/ opened.len < tail.offset
  \/ opened.len = tail.offset /\ tail.modified # opened.modified

Reset == Replaced \/ Check(Held, tail.offset) # tail.checkpoint

\* The bytes of the checkpoint may be gone: an error, which leaves the reader as
\* it was.
Unreadable ==
  /\ At("checkpoint") /\ ~Replaced /\ tail.offset > Len(Held)
  /\ opened' = Closed
  /\ UNCHANGED <<compressed, log, rowsOut, tail>>

Begin ==
  /\ At("checkpoint") /\ (Replaced \/ tail.offset <= Len(Held))
  /\ opened' = [opened EXCEPT !.at = "bytes"]
  /\ tail' = StartPoint([(IF Reset THEN FreshReader ELSE tail) EXCEPT
                           !.identity = opened.id, !.modified = opened.modified])
  /\ UNCHANGED <<compressed, log, rowsOut>>

Take ==
  /\ At("bytes")
  /\ opened' = [opened EXCEPT !.at = "sign"]
  /\ LET bytes == SubSeq(Held, tail.offset + 1, Min({Len(Held), tail.offset + ReadLimit}))
         part  == IF compressed THEN Frames(bytes) ELSE [text |-> bytes, consumed |-> Len(bytes)]
     IN  tail' = [FoldLeft(FeedText, tail, part.text) EXCEPT !.offset = tail.offset + part.consumed]
  /\ UNCHANGED <<compressed, log, rowsOut>>

\* The bytes of the new checkpoint may be gone, too: an error, and a checkpoint that
\* nothing matches.
Sign ==
  /\ At("sign")
  /\ opened' = Closed
  /\ tail' = [tail EXCEPT !.checkpoint = IF tail.offset <= Len(Held) THEN Check(Held, tail.offset)
                                         ELSE <<Nobody>>]
  /\ UNCHANGED <<compressed, log, rowsOut>>

-------------------------------------------------------------------------------
(***************************************************************************)
(* The agent.  Every change of a file gives it another modification time.  *)
(***************************************************************************)
Write(blocks) == log' = [log EXCEPT !.blocks = blocks, !.writes = @ + 1]

InRow == log.blocks # <<>> /\ ~Ends(Last(log.blocks))

StartRow(shape) ==
  /\ ~InRow /\ rowsOut < MaxRows /\ log.writes < MaxWrites
  /\ rowsOut' = rowsOut + 1
  /\ Write(Append(log.blocks, [row |-> rowsOut + 1, key |-> shape.key, at |-> 1, size |-> shape.size]))
  /\ UNCHANGED <<compressed, opened, tail>>

GoOn ==
  /\ InRow /\ log.writes < MaxWrites
  /\ Write(Append(log.blocks, [Last(log.blocks) EXCEPT !.at = @ + 1]))
  /\ UNCHANGED <<compressed, rowsOut, opened, tail>>

\* The log is written anew, in its place or as another file.
Truncate ==
  /\ log.blocks # <<>> /\ log.writes < MaxWrites
  /\ Write(<<>>)
  /\ opened' = IF opened.id = log.id THEN [opened EXCEPT !.cut = TRUE] ELSE opened
  /\ tail' = IF (At("bytes") \/ At("sign")) /\ opened.id = log.id
             THEN [tail EXCEPT !.torn = TRUE] ELSE tail
  /\ UNCHANGED <<compressed, rowsOut>>

Replace ==
  /\ log.id < MaxFiles /\ log.writes < MaxWrites
  /\ log' = [id |-> log.id + 1, blocks |-> <<>>, writes |-> log.writes + 1]
  /\ opened' = IF opened.id = log.id THEN [opened EXCEPT !.rest = log.blocks] ELSE opened
  /\ UNCHANGED <<compressed, rowsOut, tail>>

LogInit ==
  /\ compressed \in BOOLEAN
  /\ log = [id |-> 1, blocks |-> <<>>, writes |-> 0]
  /\ rowsOut = 0 /\ opened = Closed /\ tail = FreshReader

LogNext ==
  \/ Open \/ Unreadable \/ Begin \/ Take \/ Sign
  \/ \E shape \in Shape : StartRow(shape)
  \/ GoOn \/ Truncate \/ Replace

LogSpec == LogInit /\ [][LogNext]_logVars

-------------------------------------------------------------------------------
(***************************************************************************)
(* Properties.                                                             *)
(***************************************************************************)
\* full: the messages of the whole file, each in its newest revision.
AddRow(entries, b) ==
  IF Ends(b) /\ b.key \in Message THEN Revised(entries, [key |-> b.key, row |-> b.row]) ELSE entries
Full == FoldLeft(AddRow, <<>>, log.blocks)

\* The reader has read what the log holds: of a compressed one all but a last frame
\* that is not whole, or cannot be decoded.
CaughtUp ==
  /\ At("closed")
  /\ tail.identity = log.id /\ tail.modified = log.writes
  /\ tail.offset <= Len(log.blocks)
  /\ tail.checkpoint = Check(log.blocks, tail.offset)
  /\ \A i \in tail.offset + 1 .. Len(log.blocks) :
       compressed /\ (Ends(log.blocks[i]) => log.blocks[i].key = Corrupt)

\* However the log was written, cut, replaced or outran the reader: what it shows
\* without the note on omitted records is the whole conversation, and no row of it
\* was malformed.  Left out are corrupt frames, which are passed over without the
\* note (dsh.rs:258-262), and a reader whose file was cut in its place after the
\* checkpoint was compared and before the read was done (transcript.rs:444-499),
\* until it starts over.
NothingMissingUnsaid ==
  CaughtUp /\ ~tail.omitted /\ ~tail.torn =>
    /\ tail.entries = Full
    /\ \A i \in 1 .. tail.offset :
         Ends(log.blocks[i]) => /\ log.blocks[i].key # Bad
                                /\ log.blocks[i].key = Corrupt => compressed

\* The rows that are whole within the last READ_LIMIT, which a reader that jumps
\* can tell: it passes over the first line, and over the first frame it can decode.
InReach ==
  LET n == Len(log.blocks)
      Whole1 == {i \in 1 .. n : /\ Ends(log.blocks[i])
                                /\ ~(compressed /\ log.blocks[i].key = Corrupt)
                                /\ n > ReadLimit => i - log.blocks[i].size > n - ReadLimit}
  IN  IF compressed /\ n > ReadLimit /\ Whole1 # {} THEN Whole1 \ {Min(Whole1)} ELSE Whole1

\* The preview is live: the newest message in reach is shown, as it is now, unless
\* the file was cut within a read that had looked at its checkpoint, or jumped by
\* its length.
NewestIsShown ==
  CaughtUp /\ ~tail.torn /\ InReach # {} =>
    LET b == log.blocks[Max(InReach)]
    IN  b.key \in Message /\ b.size <= RecordLimit
          => \E x \in DOMAIN tail.entries : tail.entries[x].row = b.row
===============================================================================
