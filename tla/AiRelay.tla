------------------------------- MODULE AiRelay -------------------------------
(***************************************************************************)
(* luna-ai-d's inference_prompt: the relay of an answer that arrives from  *)
(* the inference server in pieces of any size to the client that sent the  *)
(* prompt.  The server is external.                                        *)
(*                                                                         *)
(* An answer is its headers and its lines; positions are counted in bytes  *)
(* from its beginning.                                                     *)
(***************************************************************************)
EXTENDS Integers, Sequences

CONSTANTS
  Streams,     \* answers: [header, lines], where they end; a line is [kind, end]
  BufSize      \* the relay's buffer

\* The bytes that make up the end of the headers.
Blank == 2

ASSUME RelayAssumption ==
  /\ BufSize \in Nat \ {0, 1}
  /\ \A s \in Streams :
       /\ s.header \in Nat /\ s.header >= Blank
       /\ s.lines \in Seq([kind : {"chunk", "last", "other"}, end : Nat])
       /\ \A i \in 1..Len(s.lines) :
            /\ s.header < s.lines[i].end
            /\ \A j \in 1..i - 1 : s.lines[j].end < s.lines[i].end

VARIABLES
  stream,      \* the answer on its way
  bytes_read,  \* of it
  base,        \* where in it the buffer begins
  pos,         \* line, the pointer into the buffer
  headers_passed,
  relayed,     \* what the client was sent for each line that was taken
  relaying     \* "read", "lines" in the loop over the lines, "done"

relay == <<stream, bytes_read, base, pos, headers_passed, relayed, relaying>>

RelayInit ==
  /\ stream \in Streams
  /\ bytes_read = 0 /\ base = 0 /\ pos = 0
  /\ headers_passed = FALSE /\ relayed = << >> /\ relaying = "read"

\* Where line i begins, and where the answer ends.
BeginOf(i) == IF i = 1 THEN stream.header ELSE stream.lines[i - 1].end
AnswerSize == BeginOf(Len(stream.lines) + 1)

\* What a line is worth to the client; lines that are no object, such as the
\* lengths of a chunked transfer, are skipped.
Said(line) ==
  CASE line.kind = "chunk" -> <<"chunk">>
    [] line.kind = "last" -> <<"chunk", "done">>
    [] OTHER -> << >>

\* strstr finds the end of the headers in the buffer, which has bytes base to n.
HeadersEnd(n) == stream.header <= n /\ base <= stream.header - Blank

\* One read.  Headers that fill the buffer are dropped from it.
ReadStream ==
  /\ relaying = "read"
  /\ \E n \in bytes_read + 1..AnswerSize :
       /\ n - base <= BufSize - 1
       /\ bytes_read' = n
       /\ IF headers_passed \/ HeadersEnd(n)
          THEN /\ headers_passed' = TRUE /\ relaying' = "lines"
               /\ pos' = IF headers_passed THEN base ELSE stream.header
               /\ UNCHANGED base
          ELSE /\ base' = IF n - base >= BufSize - 1 THEN n ELSE base
               /\ UNCHANGED <<pos, headers_passed, relaying>>
  /\ UNCHANGED <<stream, relayed>>

\* strchr finds the end of line i first.
Finds(i) ==
  /\ pos < stream.lines[i].end /\ stream.lines[i].end <= bytes_read
  /\ \A j \in 1..i - 1 : stream.lines[j].end <= pos

\* A turn of the loop over the lines.  What is left of a line whose beginning
\* was lost does not begin an object.
RelayLine(i) ==
  /\ relaying = "lines" /\ Finds(i)
  /\ relayed' = Append(relayed, IF pos = BeginOf(i) THEN Said(stream.lines[i]) ELSE << >>)
  /\ pos' = stream.lines[i].end
  /\ UNCHANGED <<stream, bytes_read, base, headers_passed, relaying>>

\* Mutant of NewBase: the buffer is emptied, the line that is not complete too.
NewBaseDropsRest == bytes_read

\* memmove: the buffer begins behind the last complete line.
NewBase == pos

LinesEnd ==
  /\ relaying = "lines" /\ \A i \in 1..Len(stream.lines) : ~Finds(i)
  /\ base' = NewBase /\ relaying' = "read"
  /\ UNCHANGED <<stream, bytes_read, pos, headers_passed, relayed>>

\* The server is done, two seconds pass without data, or a line has filled the
\* buffer and the read is one of no bytes.
StreamEnds ==
  /\ relaying = "read" /\ relaying' = "done"
  /\ UNCHANGED <<stream, bytes_read, base, pos, headers_passed, relayed>>

Failed == <<"error">>

\* No socket, no connection, or the request cannot be written.
PromptFails ==
  /\ relaying = "read" /\ bytes_read = 0 /\ relaying' = "done" /\ relayed' = <<Failed>>
  /\ UNCHANGED <<stream, bytes_read, base, pos, headers_passed>>

RelayNext ==
  \/ ReadStream \/ (\E i \in 1..Len(stream.lines) : RelayLine(i)) \/ LinesEnd
  \/ StreamEnds \/ PromptFails

-----------------------------------------------------------------------------

\* However the answer is cut into reads, the client gets what its lines say, in
\* order and once each, and all of it once all was read, provided the headers
\* fit the buffer; and when every line fits too, the buffer is never full at a
\* read, which would end the relay as if the server were done.
RelaysInOrder ==
  \/ relayed = <<Failed>>
  \/ /\ Len(relayed) <= Len(stream.lines)
     /\ \A i \in 1..Len(relayed) : relayed[i] = Said(stream.lines[i])
     /\ stream.header < BufSize /\ relaying # "lines" =>
          /\ bytes_read = AnswerSize => Len(relayed) = Len(stream.lines)
          /\ (\A i \in 1..Len(stream.lines) : stream.lines[i].end - BeginOf(i) < BufSize)
               => bytes_read - base < BufSize - 1
==============================================================================
