------------------------------ MODULE Framing ------------------------------
(***************************************************************************)
(* How ClientSocket cuts what it reads into lines: ReadData() appends a    *)
(* chunk, whatever the network made of the bytes, to Buffer, and Read()    *)
(* takes the first line that is not empty out of it.  TcpServer works with *)
(* whole lines; this module shows that it may.                             *)
(*                                                                         *)
(* A byte is Text, a line End (CR or LF), or Nul.                          *)
(***************************************************************************)
EXTENDS Integers, SequencesExt

CONSTANTS Text, End, Nul

Bytes == {Text, End, Nul}

\* The position of the first b in buf; behind it when there is none.
Position(buf, b) ==
    CHOOSE i \in 1 .. Len(buf) + 1 :
        /\ i = Len(buf) + 1 \/ buf[i] = b
        /\ \A j \in 1 .. i - 1 : buf[j] # b

\* Mutant of ReadChunk: the chunk takes the place of what was there.
ReadChunkReplaces(buf, chunk) == SubSeq(chunk, 1, Position(chunk, Nul) - 1)

\* ReadData(): "Buffer += string(data)" takes the chunk up to its first NUL.
ReadChunk(buf, chunk) == buf \o SubSeq(chunk, 1, Position(chunk, Nul) - 1)

\* One round of the loop in Read(): the first line end and what is before it
\* leave Buffer; an empty line is dropped.  s has the lines read and Buffer.
ReadRound(s) ==
    LET found == Position(s.Buffer, End)
        line  == SubSeq(s.Buffer, 1, found - 1)
    IN  IF found > Len(s.Buffer) THEN s
        ELSE [lines  |-> IF line = << >> THEN s.lines ELSE Append(s.lines, line),
              Buffer |-> SubSeq(s.Buffer, found + 1, Len(s.Buffer))]

\* Read() until it returns false.  A round takes a byte or is the last.
ReadLines(s) ==
    LET after[k \in 0 .. Len(s.Buffer)] == IF k = 0 THEN s ELSE ReadRound(after[k - 1])
    IN  after[Len(s.Buffer)]

NothingRead == [lines |-> << >>, Buffer |-> << >>]

\* The socket reads one chunk after the other, and after each all its lines.
Received(chunks) ==
    LET after[k \in 0 .. Len(chunks)] ==
            IF k = 0 THEN NothingRead
            ELSE ReadLines([after[k - 1] EXCEPT !.Buffer = ReadChunk(@, chunks[k])])
    IN  after[Len(chunks)]

-----------------------------------------------------------------------------
(* What the lines of a stream are: the longest stretches without an End    *)
(* that an End follows.                                                    *)

Stretches(stream) ==
    {s \in (1 .. Len(stream)) \X (1 .. Len(stream)) :
        /\ s[1] <= s[2] /\ s[2] < Len(stream)
        /\ stream[s[2] + 1] = End
        /\ s[1] = 1 \/ stream[s[1] - 1] = End
        /\ \A i \in s[1] .. s[2] : stream[i] # End}

\* The lines are all the stretches of the stream, in their order.
AreLinesOf(lines, stream) ==
    \E nth \in [1 .. Len(lines) -> Stretches(stream)] :
        /\ \A s \in Stretches(stream) : \E k \in 1 .. Len(lines) : nth[k] = s
        /\ \A j, k \in 1 .. Len(lines) : j < k => nth[j][2] < nth[k][1]
        /\ \A k \in 1 .. Len(lines) : lines[k] = SubSeq(stream, nth[k][1], nth[k][2])

\* A user's commands are the lines it sent, wherever the network cuts the
\* stream, in the middle of a line or between CR and LF, and a line that has
\* not ended is kept for the rest of it (ClientSocket.cpp:55-81).  NUL, which
\* no JSON text holds, is left out: it would swallow the rest of its chunk.
CutAnywhere(chunks) ==
    LET stream == FlattenSeq(chunks)
        r == Received(chunks)
    IN  /\ AreLinesOf(r.lines, stream)
        /\ \E n \in 0 .. Len(stream) :
              /\ r.Buffer = SubSeq(stream, n + 1, Len(stream))
              /\ n = 0 \/ stream[n] = End
              /\ \A i \in n + 1 .. Len(stream) : stream[i] # End
=============================================================================
