-------------------------------- MODULE Wire --------------------------------
(***************************************************************************)
(* The bytes behind the lines of TcpServer: what the users have written    *)
(* reaches ReadData() in chunks that the network makes of it.              *)
(***************************************************************************)
EXTENDS TcpServer, Framing

CONSTANT Written    \* the bytes of each line, with the CR and LF it ends in

ASSUME WireAssumption ==
    /\ Nul \notin {Text, End}
    /\ Written \in [Lines -> Seq({Text, End})]

Stream(lines) == FlattenSeq([i \in 1 .. Len(lines) |-> Written[lines[i]]])

\* A byte more: a chunk of its own, or part of the last.
Lengthened(cuts, byte) ==
    {Append(chunks, << byte >>) : chunks \in cuts}
        \cup {[chunks EXCEPT ![Len(chunks)] = Append(@, byte)] : chunks \in cuts \ {<< >>}}

\* The ways to cut the first bytes of a stream into chunks.
Chunkings(stream) ==
    LET cut[n \in 0 .. Len(stream)] ==
            IF n = 0 THEN {<< >>} ELSE Lengthened(cut[n - 1], stream[n])
    IN  UNION {cut[n] : n \in 0 .. Len(stream)}

\* Which lines a user may have sent arrive as they should, as a table that TLC
\* fills once.
FramedRight ==
    {<< lines, \A chunks \in Chunkings(Stream(lines)) : CutAnywhere(chunks) >> :
        lines \in UNION {BoundedSeq(Lines, MaxLines[c]) : c \in Conns}}

\* What users have sent is cut into the lines it consists of, wherever the
\* network cuts the bytes (ClientSocket.cpp:55-81).
LinesCutAnywhere == \A c \in Conns : << sent[c], TRUE >> \in FramedRight
=============================================================================
