----------------------------- MODULE LogTailer -----------------------------
(***************************************************************************)
(* The log tailer of the agents (oa-event-monitors/lib/utils): FileWatcher *)
(* polls the size of a log file and, whenever it has changed, opens a      *)
(* stream on the bytes between the previous size and the current one.      *)
(* Every chunk a stream delivers is split at the newlines and the pieces   *)
(* are handed on as lines; the size is then written to the tracker file.   *)
(* A stream reads later than the poll that opened it, so the file may have *)
(* grown or been truncated by then, and several streams may be open.       *)
(*                                                                         *)
(* What is abstracted: a byte is the number of its line and its place in   *)
(* it; every line has the same length; the tracker file holds a size.      *)
(***************************************************************************)
EXTENDS Naturals, Sequences, FiniteSets, SequencesExt

CONSTANTS
  Width,      \* how many characters a line has, its newline not counted
  Chunk,      \* how many bytes a stream delivers at a time (64 KiB)
  MaxLines,   \* bound: lines written to the log
  MaxStreams, \* bound: streams open at the same time
  MaxTruncations,  \* bound: how often the log is truncated or replaced
  MaxRestarts      \* bound: how often the agent is started again

ASSUME TailerAssumption ==
  /\ Width \in Nat \ {0, 1}
  /\ Chunk \in Nat \ {0}
  /\ MaxLines \in Nat /\ MaxStreams \in Nat
  /\ MaxTruncations \in Nat /\ MaxRestarts \in Nat

VARIABLES
  file,       \* the bytes of the log
  touched,    \* how the file has changed since it was last polled
  watching,   \* is the agent running
  size,       \* the size seen by the last poll: prev.size of the next
  streams,    \* the open read streams
  rawlines,   \* the pieces handed on as lines, in order
  tracker,    \* the size in the tracker file
  lines,      \* how many lines have been written
  due,        \* history: lines written while the file was watched, and not disturbed since
  torn,       \* history: has the file shrunk under an open stream
  truncations, restarts

tailerVars == <<file, touched, watching, size, streams, rawlines, tracker, lines, due, torn,
                truncations, restarts>>

Newline == <<0, 0>>
Byte == ((1..MaxLines) \X (1..Width)) \cup {Newline}

\* A stream: the place of its next byte, and of its last.  `cut` marks a piece
\* at the edge of a chunk that is not an edge of its stream.
Stream == [start : Nat, next : Nat, end : Nat]
Piece == [text : Seq(Byte), cut : BOOLEAN]

TailerTypeOK ==
  /\ file \in Seq(Byte)
  /\ touched \in {"no", "grown", "shrunk"}
  /\ watching \in BOOLEAN /\ torn \in BOOLEAN
  /\ size \in Nat
  /\ streams \in Seq(Stream)
  /\ rawlines \in Seq(Piece)
  /\ tracker \in Nat
  /\ lines \in 0..MaxLines
  /\ due \subseteq 1..lines
  /\ truncations \in 0..MaxTruncations
  /\ restarts \in 0..MaxRestarts

TailerInit ==
  /\ file = <<>>
  /\ touched = "no"
  /\ watching = TRUE
  /\ size = 0
  /\ streams = <<>>
  /\ rawlines = <<>>
  /\ tracker = 0
  /\ lines = 0
  /\ due = {}
  /\ torn = FALSE
  /\ truncations = 0
  /\ restarts = 0

----------------------------------------------------------------------------
(* The program that writes the log                                         *)

Line(n) == [p \in 1..Width |-> <<n, p>>]

\* A whole line is appended.
AppendLine ==
  /\ lines < MaxLines
  /\ lines' = lines + 1
  /\ file' = file \o Append(Line(lines + 1), Newline)
  /\ touched' = IF touched = "shrunk" THEN "shrunk" ELSE "grown"
  /\ due' = IF watching /\ touched # "shrunk" THEN due \cup {lines + 1} ELSE due
  /\ UNCHANGED <<watching, size, streams, rawlines, tracker, torn, truncations, restarts>>

\* The log is truncated, or rotated away and begun again.
Truncate ==
  /\ truncations < MaxTruncations
  /\ file # <<>>
  /\ truncations' = truncations + 1
  /\ file' = <<>>
  /\ touched' = "shrunk"
  /\ due' = {}
  /\ torn' = (torn \/ streams # <<>>)
  /\ UNCHANGED <<watching, size, streams, rawlines, tracker, lines, restarts>>

----------------------------------------------------------------------------
(* FileWatcher                                                             *)

\* Mutants: the stream begins after the first new byte; it begins at the start.
WindowLate(curr) == [start |-> size + 1, next |-> size + 1, end |-> curr]
WindowWhole(curr) == [start |-> 0, next |-> 0, end |-> curr]

\* createReadStream's start and end are both inclusive: the byte at curr.size,
\* which is not there yet when the file is polled, belongs to the window too.
Window(curr) == [start |-> size, next |-> size, end |-> curr]

\* The listener of fs.watchFile: a file that has shrunk is not read.
Poll ==
  LET curr == Len(file) IN
  /\ watching /\ touched # "no"
  /\ Len(streams) < MaxStreams
  /\ touched' = "no"
  /\ size' = curr
  /\ streams' = IF size > curr THEN streams ELSE Append(streams, Window(curr))
  /\ UNCHANGED <<file, watching, rawlines, tracker, lines, due, torn, truncations, restarts>>

\* The bytes stream s delivers next, if the file still has them.
Available(s) ==
  LET last == CHOOSE e \in {s.end, s.next + Chunk - 1, Len(file) - 1} :
                \A f \in {s.end, s.next + Chunk - 1, Len(file) - 1} : e <= f
  IN SubSeq(file, s.next + 1, last + 1)

\* A chunk split at its newlines, empty pieces dropped: a piece begins after a
\* newline or with the chunk, and ends before a newline or with the chunk.
Begins(chunk) ==
  {j \in 1..Len(chunk) : chunk[j] # Newline /\ (j = 1 \/ chunk[j - 1] = Newline)}

EndOf(chunk, j) ==
  CHOOSE k \in j..Len(chunk) :
    /\ \A l \in j..k : chunk[l] # Newline
    /\ k = Len(chunk) \/ chunk[k + 1] = Newline

InOrder(S) ==
  CHOOSE f \in [1..Cardinality(S) -> S] :
    \A j, k \in 1..Cardinality(S) : j < k => f[j] < f[k]

PieceAt(s, chunk, j) ==
  [text |-> SubSeq(chunk, j, EndOf(chunk, j)),
   cut |-> \/ j = 1 /\ s.next > s.start
           \/ EndOf(chunk, j) = Len(chunk) /\ s.next + Len(chunk) <= s.end]

Pieces(s, chunk) ==
  [k \in 1..Cardinality(Begins(chunk)) |-> PieceAt(s, chunk, InOrder(Begins(chunk))[k])]

\* The 'data' listener of stream k, and, when nothing is left, its end.
Data(k) ==
  LET s == streams[k]
      chunk == IF s.next >= Len(file) \/ s.next > s.end THEN <<>> ELSE Available(s)
  IN
  /\ IF chunk = <<>>
     THEN streams' = RemoveAt(streams, k) /\ UNCHANGED <<rawlines, tracker>>
     ELSE /\ streams' = [streams EXCEPT ![k].next = @ + Len(chunk)]
          /\ rawlines' = rawlines \o Pieces(s, chunk)
          /\ tracker' = s.end
  /\ UNCHANGED <<file, touched, watching, size, lines, due, torn, truncations, restarts>>

----------------------------------------------------------------------------
(* The agent stops, and is started again                                   *)

Stop ==
  /\ watching
  /\ watching' = FALSE
  /\ streams' = <<>>
  /\ due' = {}
  /\ UNCHANGED <<file, touched, size, rawlines, tracker, lines, torn, truncations, restarts>>

\* FileTracker.where_to_start_from: the offset the tracker file gives.
where_to_start_from == IF Len(file) < tracker THEN Len(file) ELSE tracker

\* watch only logs the offset; the size the file has now is the first prev.size.
WatchedFrom(byte_offset) == Len(file)

start ==
  /\ ~watching
  /\ restarts < MaxRestarts
  /\ restarts' = restarts + 1
  /\ watching' = TRUE
  /\ touched' = "no"
  /\ size' = WatchedFrom(where_to_start_from)
  /\ UNCHANGED <<file, streams, rawlines, tracker, lines, due, torn, truncations>>

Streams == \E k \in 1..Len(streams) : Data(k)

TailerNext ==
  \/ AppendLine
  \/ Truncate
  \/ Poll
  \/ Streams
  \/ Stop
  \/ start

\* watchFile keeps polling, and every stream delivers what it has.
TailerFairness == WF_tailerVars(Poll) /\ WF_tailerVars(Streams)

TailerSpec == TailerInit /\ [][TailerNext]_tailerVars

TailerFairSpec == TailerSpec /\ TailerFairness

----------------------------------------------------------------------------
(* Properties                                                              *)

Whole(n) == {k \in 1..Len(rawlines) : rawlines[k].text = Line(n)}

\* What is handed on is a whole line or, when the inclusive end of a window
\* took it, the first character of the next one; and no line is handed on
\* twice, whether streams overlap or the agent is restarted.  A line may be cut
\* where a chunk ends, and a file that shrinks under an open stream is read
\* as it comes.
HandedOnIntact ==
  torn \/
    /\ \A k \in 1..Len(rawlines) :
         \/ rawlines[k].cut
         \/ \E n \in 1..lines : rawlines[k].text \in {Line(n), <<<<n, 1>>>>}
    /\ \A n \in 1..lines : Cardinality(Whole(n)) <= 1

\* The characters of line n that have been handed on.
HandedOn(n) ==
  \A p \in 1..Width : \E k \in 1..Len(rawlines) :
    \E j \in 1..Len(rawlines[k].text) : rawlines[k].text[j] = <<n, p>>

\* Every character of a line that is written while the agent watches is handed
\* on, unless the log is truncated or the agent stops first.  What is written
\* to a truncated log before the next poll is lost.
WrittenIsHandedOn ==
  \A n \in 1..MaxLines : (n \in due) ~> (HandedOn(n) \/ n \notin due)
=============================================================================
