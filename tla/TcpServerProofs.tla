-------------------------- MODULE TcpServerProofs --------------------------
(***************************************************************************)
(* Proofs about TcpServer, for any number of connections and descriptors:  *)
(* the type invariant, that the read loop never calls read() on a socket   *)
(* with nothing to read, and that a stream is cut into the lines it        *)
(* consists of, whatever chunks it arrives in.                             *)
(*                                                                         *)
(* The second does not follow from the types.  It needs that a descriptor  *)
(* of the answer of select() still belongs to the same client when the     *)
(* loop gets there: that open sockets have distinct descriptors, that no   *)
(* list holds a client twice (the second read would find nothing), and     *)
(* that a connection waiting for accept() is in no list yet.               *)
(*                                                                         *)
(* The third is kept by each round of the loop in Read() and by each       *)
(* chunk: the lines read are the stretches before some line end of the     *)
(* stream, and Buffer is what has arrived behind it (Framed).              *)
(***************************************************************************)
EXTENDS Wire, CommonLemmas

NoRepeat(s) == \A i, j \in 1 .. Len(s) : s[i] = s[j] => i = j

Holds(s, c) == \E i \in 1 .. Len(s) : s[i] = c

\* A connection is in at most one place before it is accepted.
WaitingIsNew ==
    /\ NoRepeat(backlog)
    /\ \A c \in Conns : Holds(backlog, c) =>
            peer[c] # "none" /\ ~isConnected(c) /\ ~Holds(srvClients, c)
    /\ \A c \in Conns : peer[c] = "none" => ~isConnected(c) /\ ~Holds(srvClients, c)

TcpInv ==
    /\ TcpTypeOK
    /\ NoRepeat(srvClients)
    /\ NoRepeat(unvisited)
    /\ WaitingIsNew
    /\ DistinctFiles
    /\ ReadNeverBlocks

-----------------------------------------------------------------------------
(* Sequences.                                                              *)

\* What erasing one element of a sequence leaves.
LEMMA RemoveAtElements ==
    ASSUME NEW S, NEW s \in Seq(S), NEW i \in 1 .. Len(s)
    PROVE  /\ RemoveAt(s, i) \in Seq(S)
           /\ Len(RemoveAt(s, i)) = Len(s) - 1
           /\ \A j \in 1 .. Len(s) - 1 :
                RemoveAt(s, i)[j] = IF j < i THEN s[j] ELSE s[j + 1]
<1> DEFINE front == SubSeq(s, 1, i - 1)
           back == SubSeq(s, i + 1, Len(s))
<1>1. /\ Len(s) \in Nat
      /\ \A k \in 1 .. Len(s) : s[k] \in S
  BY LenProperties, ElementOfSeq
<1>2. /\ front \in Seq(S)
      /\ Len(front) = i - 1
      /\ \A j \in 1 .. i - 1 : front[j] = s[j]
  BY <1>1, SubSeqProperties
<1>3. /\ back \in Seq(S)
      /\ Len(back) = Len(s) - i
      /\ \A j \in 1 .. Len(s) - i : back[j] = s[i + j]
  BY <1>1, SubSeqProperties
<1>4. RemoveAt(s, i) = front \o back
  BY DEF RemoveAt
<1> HIDE DEF front, back
<1>5. /\ front \o back \in Seq(S)
      /\ Len(front \o back) = Len(front) + Len(back)
      /\ \A j \in 1 .. Len(front) + Len(back) :
           (front \o back)[j] = IF j <= Len(front) THEN front[j] ELSE back[j - Len(front)]
  BY <1>2, <1>3, ConcatProperties
<1>6. ASSUME NEW j \in 1 .. Len(s) - 1
      PROVE  (front \o back)[j] = IF j < i THEN s[j] ELSE s[j + 1]
  <2>1. CASE j < i
    BY <1>1, <1>2, <1>3, <1>5, <2>1
  <2>2. CASE ~(j < i)
    <3>1. (front \o back)[j] = back[j - (i - 1)]
      BY <1>1, <1>2, <1>3, <1>5, <2>2
    <3>2. back[j - (i - 1)] = s[i + (j - (i - 1))]
      <4>1. j - (i - 1) \in 1 .. Len(s) - i
        BY <1>1, <2>2
      <4>2. QED
        BY <1>3, <4>1
    <3>3. i + (j - (i - 1)) = j + 1
      BY <1>1
    <3>4. QED
      BY <2>2, <3>1, <3>2, <3>3
  <2>3. QED
    BY <2>1, <2>2
<1>7. QED
  BY <1>1, <1>2, <1>3, <1>4, <1>5, <1>6

\* Pruning keeps the order, adds nobody and repeats nobody.
LEMMA PruneElements ==
    ASSUME NEW s \in Seq(Conns), NoRepeat(s)
    PROVE  /\ Prune(s) \in Seq(Conns)
           /\ NoRepeat(Prune(s))
           /\ \A c \in Conns : Holds(Prune(s), c) => Holds(s, c)
<1>1. CASE FirstDead(s) = {}
  BY <1>1 DEF Prune
<1>2. CASE FirstDead(s) # {}
  <2> DEFINE i == CHOOSE k \in FirstDead(s) : TRUE
  <2>1. i \in 1 .. Len(s)
    BY <1>2 DEF FirstDead
  <2>2. Prune(s) = RemoveAt(s, i)
    BY <1>2 DEF Prune
  <2> HIDE DEF i
  <2> DEFINE r == RemoveAt(s, i)
  <2>3. /\ r \in Seq(Conns)
        /\ Len(s) \in Nat
        /\ Len(r) = Len(s) - 1
        /\ \A j \in 1 .. Len(s) - 1 : r[j] = IF j < i THEN s[j] ELSE s[j + 1]
    BY <2>1, RemoveAtElements, LenProperties
  <2> HIDE DEF r
  <2>4. ASSUME NEW j \in 1 .. Len(r)
        PROVE  \E k \in 1 .. Len(s) : r[j] = s[k] /\ k = IF j < i THEN j ELSE j + 1
    BY <2>1, <2>3
  <2>5. NoRepeat(r)
    <3> SUFFICES ASSUME NEW j \in 1 .. Len(r), NEW k \in 1 .. Len(r), r[j] = r[k]
                 PROVE  j = k
      BY DEF NoRepeat
    <3>1. PICK jj \in 1 .. Len(s) : r[j] = s[jj] /\ jj = IF j < i THEN j ELSE j + 1
      BY <2>4
    <3>2. PICK kk \in 1 .. Len(s) : r[k] = s[kk] /\ kk = IF k < i THEN k ELSE k + 1
      BY <2>4
    <3>3. jj = kk
      BY <3>1, <3>2 DEF NoRepeat
    <3>4. QED
      BY <2>1, <2>3, <3>1, <3>2, <3>3
  <2>6. \A c \in Conns : Holds(r, c) => Holds(s, c)
    BY <2>4 DEF Holds
  <2>7. QED
    BY <2>2, <2>3, <2>5, <2>6 DEF r
<1>3. QED
  BY <1>1, <1>2

LEMMA AppendElements ==
    ASSUME NEW s \in Seq(Conns), NEW c \in Conns, NoRepeat(s), ~Holds(s, c)
    PROVE  /\ Append(s, c) \in Seq(Conns)
           /\ NoRepeat(Append(s, c))
           /\ \A d \in Conns : Holds(Append(s, c), d) <=> Holds(s, d) \/ d = c
  BY DEF NoRepeat, Holds

LEMMA TailElements ==
    ASSUME NEW s \in Seq(Conns), s # << >>, NoRepeat(s)
    PROVE  /\ Head(s) \in Conns
           /\ Holds(s, Head(s))
           /\ Tail(s) \in Seq(Conns)
           /\ NoRepeat(Tail(s))
           /\ ~Holds(Tail(s), Head(s))
           /\ \A d \in Conns : Holds(Tail(s), d) => Holds(s, d)
           /\ \A j \in 1 .. Len(Tail(s)) : Tail(s)[j] = s[j + 1] /\ Tail(s)[j] # Head(s)
  BY DEF NoRepeat, Holds

-----------------------------------------------------------------------------
(* The initial state and the peers.                                        *)

LEMMA TcpInitInv == TcpInit => TcpInv
<1> SUFFICES ASSUME TcpInit PROVE TcpInv
  OBVIOUS
<1>1. << >> \in Seq(Conns) /\ << >> \in Seq(Lines) /\ Len(<< >>) = 0
  OBVIOUS
<1>2. TcpTypeOK
  BY <1>1 DEF TcpInit, TcpTypeOK, PeerStates
<1>3. NoRepeat(srvClients) /\ NoRepeat(unvisited) /\ WaitingIsNew
  BY <1>1 DEF TcpInit, NoRepeat, WaitingIsNew, Holds, isConnected
<1>4. DistinctFiles /\ ReadNeverBlocks
  BY DEF TcpInit, DistinctFiles, ReadNeverBlocks, isConnected
<1>5. QED
  BY <1>2, <1>3, <1>4 DEF TcpInv

\* As long as no client becomes less readable the loop is safe.
LEMMA ReadableGrows ==
    ASSUME TcpTypeOK, ReadNeverBlocks,
           UNCHANGED << file, readfs, unvisited, listening, alive >>,
           \A c \in Conns : Readable(c) => Readable(c)'
    PROVE  ReadNeverBlocks'
<1>1. \A i \in 1 .. Len(unvisited) : unvisited[i] \in Conns
  BY DEF TcpTypeOK
<1>2. QED
  BY <1>1 DEF ReadNeverBlocks, isConnected

\* A peer may enter the waiting line, send, or go: no client becomes less
\* readable and no descriptor changes hands.
LEMMA PeerKeepsInv ==
    ASSUME TcpInv, NEW c \in Conns, Peer(c)
    PROVE  TcpInv'
<1> USE DEF TcpInv
<1>1. CASE Connect(c)
  <2>1. TcpTypeOK'
    BY <1>1 DEF Connect, TcpTypeOK, PeerStates, sockVars, srvVars
  <2>2. ~Holds(backlog, c)
    BY <1>1 DEF Connect, WaitingIsNew
  <2>3. WaitingIsNew'
    <3>1. /\ NoRepeat(backlog')
          /\ \A d \in Conns : Holds(backlog', d) <=> Holds(backlog, d) \/ d = c
      BY <1>1, <2>2, AppendElements DEF Connect, TcpTypeOK, WaitingIsNew
    <3>2. QED
      BY <1>1, <3>1 DEF Connect, TcpTypeOK, WaitingIsNew, sockVars, srvVars,
         isConnected, Holds
  <2>4. DistinctFiles' /\ NoRepeat(srvClients)' /\ NoRepeat(unvisited)'
    BY <1>1 DEF Connect, DistinctFiles, isConnected, NoRepeat, sockVars, srvVars
  <2>5. ReadNeverBlocks'
    <3>1. \A d \in Conns : Readable(d) => Readable(d)'
      BY <1>1 DEF Connect, TcpTypeOK, Readable
    <3>2. QED
      BY <1>1, <3>1, ReadableGrows DEF Connect, sockVars, srvVars
  <2>6. QED
    BY <2>1, <2>3, <2>4, <2>5
<1>2. CASE \E line \in Lines : PeerSend(c, line)
  <2> PICK line \in Lines : PeerSend(c, line)
    BY <1>2
  <2>1. TcpTypeOK'
    BY DEF PeerSend, TcpTypeOK, PeerStates, sockVars, srvVars
  <2>2. WaitingIsNew' /\ DistinctFiles' /\ NoRepeat(srvClients)' /\ NoRepeat(unvisited)'
    BY DEF PeerSend, WaitingIsNew, DistinctFiles, isConnected, NoRepeat, Holds,
       sockVars, srvVars
  <2>3. \A d \in Conns : Readable(d) => Readable(d)'
    <3>1. inbox[c] \in Seq(Lines) /\ Append(inbox[c], line) # << >>
      <4>1. inbox[c] \in Seq(Lines)
        BY DEF TcpTypeOK
      <4>2. QED
        BY <4>1
    <3>2. QED
      BY <3>1 DEF PeerSend, TcpTypeOK, Readable
  <2>4. ReadNeverBlocks'
    BY <2>3, ReadableGrows DEF PeerSend, sockVars, srvVars
  <2>5. QED
    BY <2>1, <2>2, <2>4
<1>3. CASE PeerClose(c) \/ PeerAbort(c)
  <2>1. TcpTypeOK'
    BY <1>3 DEF PeerClose, PeerAbort, TcpTypeOK, PeerStates, sockVars, srvVars
  <2>2. WaitingIsNew' /\ DistinctFiles' /\ NoRepeat(srvClients)' /\ NoRepeat(unvisited)'
    BY <1>3 DEF PeerClose, PeerAbort, TcpTypeOK, WaitingIsNew, DistinctFiles,
       isConnected, NoRepeat, Holds, sockVars, srvVars
  <2>3. \A d \in Conns : Readable(d) => Readable(d)'
    BY <1>3 DEF PeerClose, PeerAbort, TcpTypeOK, Readable
  <2>4. ReadNeverBlocks'
    BY <1>3, <2>3, ReadableGrows DEF PeerClose, PeerAbort, sockVars, srvVars
  <2>5. QED
    BY <2>1, <2>2, <2>4
<1>4. QED
  BY <1>1, <1>2, <1>3 DEF Peer

-----------------------------------------------------------------------------
(* The owner of the clients.                                               *)

LEMMA TakeLineKeepsInv ==
    ASSUME TcpInv, NEW c \in Conns, TakeLine(c)
    PROVE  TcpInv'
<1>1. TcpTypeOK'
  <2>1. buffer[c] \in Seq(Lines) /\ buffer[c] # << >>
    BY DEF TcpInv, TcpTypeOK, TakeLine, HasLine
  <2>2. Tail(buffer[c]) \in Seq(Lines)
    BY <2>1
  <2>3. QED
    BY <2>2 DEF TcpInv, TcpTypeOK, TakeLine, peerVars, srvVars
<1>2. QED
  BY <1>1 DEF TcpInv, TakeLine, WaitingIsNew, DistinctFiles, ReadNeverBlocks,
     isConnected, Readable, NoRepeat, Holds, peerVars, srvVars

\* Sending happens outside Listen() and only closes sockets.
LEMMA SendAllKeepsInv ==
    ASSUME TcpInv, NEW to, NEW k, SendAll(to, k)
    PROVE  TcpInv'
<1> USE DEF TcpInv
<1> DEFINE live == {c \in to : isConnected(c) /\ k > 0}
<1> DEFINE Sent(answered, late) ==
             LET broken == late \cup {c \in live : peer[c] = "pipe"}
                 failed == broken \cup {c \in live : peer[c] = "reset"}
             IN  /\ peer' = [c \in Conns |-> IF c \in answered THEN "pipe" ELSE peer[c]]
                 /\ alive' = ~(SigPipeFatal /\ broken # {})
                 /\ file' = [c \in Conns |-> IF c \in failed THEN NoFile ELSE file[c]]
<1>a. PICK answered \in SUBSET {c \in live : peer[c] = "fin"} :
        \E late \in SUBSET (IF k > 1 THEN answered ELSE {}) : Sent(answered, late)
  BY DEF SendAll
<1>1. PICK late \in SUBSET (IF k > 1 THEN answered ELSE {}) : Sent(answered, late)
  BY <1>a
<1> DEFINE broken == late \cup {c \in live : peer[c] = "pipe"}
           failed == broken \cup {c \in live : peer[c] = "reset"}
<1>2. /\ \A c \in answered : peer[c] = "fin"
      /\ peer' = [c \in Conns |-> IF c \in answered THEN "pipe" ELSE peer[c]]
      /\ file' = [c \in Conns |-> IF c \in failed THEN NoFile ELSE file[c]]
      /\ alive' \in BOOLEAN
  BY <1>1
<1> HIDE DEF live, broken, failed
<1>3. /\ UNCHANGED << backlog, inbox, sent, buffer, srvVars >>
      /\ ~listening
  BY DEF SendAll
<1>4. TcpTypeOK'
  BY <1>2, <1>3 DEF TcpTypeOK, PeerStates, srvVars
<1>5. WaitingIsNew'
  BY <1>2, <1>3 DEF TcpTypeOK, WaitingIsNew, isConnected, NoRepeat, Holds, srvVars
<1>6. DistinctFiles' /\ NoRepeat(srvClients)' /\ NoRepeat(unvisited)'
  BY <1>2, <1>3 DEF TcpTypeOK, DistinctFiles, isConnected, NoRepeat, srvVars
<1>7. ReadNeverBlocks'
  BY <1>3 DEF ReadNeverBlocks, srvVars
<1>8. QED
  BY <1>4, <1>5, <1>6, <1>7

-----------------------------------------------------------------------------
(* Listen().                                                               *)

\* What the pruned list and the new one have.
LEMMA ListenKeepsInv ==
    ASSUME TcpInv, Listen
    PROVE  TcpInv'
<1> USE DEF TcpInv
<1> DEFINE kept == Prune(srvClients)
<1>1. /\ kept \in Seq(Conns)
      /\ NoRepeat(kept)
      /\ \A c \in Conns : Holds(kept, c) => Holds(srvClients, c)
  BY PruneElements DEF TcpTypeOK
<1>2. /\ readfs' = ReadyFds(kept)
      /\ listening' = TRUE
      /\ unvisited' = srvClients'
      /\ Accept(kept)
      /\ UNCHANGED << peer, inbox, sent, buffer, alive >>
  BY DEF Listen
<1> HIDE DEF kept
<1>3. \A fd \in readfs' : \E c \in Conns : file[c] = fd /\ isConnected(c) /\ Readable(c)
  <2>1. \A c \in Range(kept) : c \in Conns
    BY <1>1 DEF Range
  <2>2. QED
    BY <1>2, <2>1 DEF ReadyFds
<1>4. readfs' \subseteq Fds
  BY <1>3 DEF TcpTypeOK, isConnected
<1>5. CASE CanAccept(kept)
  <2> DEFINE c == Head(backlog)
  <2>1. PICK fd \in FreeFds : file' = [file EXCEPT ![c] = fd]
    BY <1>2, <1>5 DEF Accept
  <2>2. /\ backlog' = Tail(backlog)
        /\ srvClients' = Append(kept, c)
        /\ accepted' = << c >>
    BY <1>2, <1>5 DEF Accept
  <2>3. /\ c \in Conns
        /\ Holds(backlog, c)
        /\ Tail(backlog) \in Seq(Conns)
        /\ NoRepeat(Tail(backlog))
        /\ ~Holds(Tail(backlog), c)
        /\ \A d \in Conns : Holds(Tail(backlog), d) => Holds(backlog, d)
    BY <1>5, TailElements DEF TcpTypeOK, WaitingIsNew, CanAccept
  <2>4. fd \in Fds /\ fd # NoFile /\ \A d \in Conns : file[d] # fd
    BY TcpAssumption DEF FreeFds
  <2>5. /\ peer[c] # "none" /\ ~isConnected(c) /\ ~Holds(srvClients, c)
        /\ ~Holds(kept, c)
    BY <1>1, <2>3 DEF WaitingIsNew
  <2> HIDE DEF c
  <2>6. /\ srvClients' \in Seq(Conns)
        /\ NoRepeat(srvClients')
        /\ \A d \in Conns : Holds(srvClients', d) <=> Holds(kept, d) \/ d = c
    BY <1>1, <2>2, <2>3, <2>5, AppendElements
  <2>7. TcpTypeOK'
    BY <1>2, <1>4, <2>1, <2>2, <2>3, <2>4, <2>6 DEF TcpTypeOK
  <2>8. \A d \in Conns : file'[d] = IF d = c THEN fd ELSE file[d]
    BY <2>1, <2>3 DEF TcpTypeOK
  <2>9. WaitingIsNew'
    BY <1>1, <1>2, <2>2, <2>3, <2>5, <2>6, <2>8 DEF WaitingIsNew, isConnected
  <2>10. DistinctFiles'
    BY <2>4, <2>8 DEF DistinctFiles, isConnected
  <2>11. ReadNeverBlocks'
    <3> SUFFICES ASSUME NEW i \in 1 .. Len(unvisited'),
                        file'[unvisited'[i]] # NoFile, file'[unvisited'[i]] \in readfs'
                 PROVE  Readable(unvisited[i])'
      BY DEF ReadNeverBlocks, isConnected
    <3>1. unvisited'[i] \in Conns
      BY <1>2, <2>6
    <3>2. PICK d \in Conns : file[d] = file'[unvisited'[i]] /\ isConnected(d) /\ Readable(d)
      BY <1>3
    <3>3. unvisited'[i] # c
      BY <2>4, <2>8, <3>1, <3>2
    <3>4. unvisited'[i] = d
      BY <2>8, <3>1, <3>2, <3>3 DEF DistinctFiles
    <3>5. QED
      BY <1>2, <3>2, <3>4 DEF Readable
  <2>12. QED
    BY <1>2, <2>6, <2>7, <2>9, <2>10, <2>11
<1>6. CASE ~CanAccept(kept)
  <2>1. srvClients' = kept /\ accepted' = << >> /\ UNCHANGED << file, backlog >>
    BY <1>2, <1>6 DEF Accept
  <2>2. TcpTypeOK'
    BY <1>1, <1>2, <1>4, <2>1 DEF TcpTypeOK
  <2>3. WaitingIsNew' /\ DistinctFiles'
    BY <1>1, <1>2, <2>1 DEF WaitingIsNew, DistinctFiles, isConnected
  <2>4. ReadNeverBlocks'
    <3> SUFFICES ASSUME NEW i \in 1 .. Len(unvisited'),
                        file[unvisited'[i]] # NoFile, file[unvisited'[i]] \in readfs'
                 PROVE  Readable(unvisited[i])'
      BY <2>1 DEF ReadNeverBlocks, isConnected
    <3>1. unvisited'[i] \in Conns
      BY <1>1, <1>2, <2>1
    <3>2. PICK d \in Conns : file[d] = file[unvisited'[i]] /\ isConnected(d) /\ Readable(d)
      BY <1>3
    <3>3. unvisited'[i] = d
      BY <3>1, <3>2 DEF DistinctFiles
    <3>4. QED
      BY <1>2, <3>2, <3>3 DEF Readable
  <2>5. QED
    BY <1>1, <1>2, <2>1, <2>2, <2>3, <2>4
<1>7. QED
  BY <1>5, <1>6

\* A read changes what is readable for its own client only, and that client
\* is not visited again.
LEMMA ReadDataEffect ==
    ASSUME TcpTypeOK, NEW c \in Conns, ReadData(c)
    PROVE  /\ buffer' \in [Conns -> Seq(Lines)]
           /\ inbox' \in [Conns -> Seq(Lines)]
           /\ file' \in [Conns -> Fds \cup {NoFile}]
           /\ \A d \in Conns : file'[d] = file[d] \/ (d = c /\ file'[d] = NoFile)
           /\ \A d \in Conns \ {c} : inbox'[d] = inbox[d]
<1>1. CASE inbox[c] # << >>
  <2>1. /\ inbox[c] \in Seq(Lines) /\ buffer[c] \in Seq(Lines)
        /\ Len(inbox[c]) \in Nat
    BY DEF TcpTypeOK
  <2>2. PICK n \in 1 .. Len(inbox[c]) :
          /\ buffer' = [buffer EXCEPT ![c] = @ \o SubSeq(inbox[c], 1, n)]
          /\ inbox' = [inbox EXCEPT ![c] = SubSeq(@, n + 1, Len(@))]
    BY <1>1 DEF ReadData
  <2>3. file' = file
    BY <1>1 DEF ReadData
  <2>4. \A i \in 1 .. Len(inbox[c]) : inbox[c][i] \in Lines
    BY <2>1, ElementOfSeq
  <2>5. /\ SubSeq(inbox[c], 1, n) \in Seq(Lines)
        /\ SubSeq(inbox[c], n + 1, Len(inbox[c])) \in Seq(Lines)
    BY <2>1, <2>4, SubSeqProperties
  <2>6. buffer[c] \o SubSeq(inbox[c], 1, n) \in Seq(Lines)
    BY <2>1, <2>5, ConcatProperties
  <2>7. QED
    BY <2>2, <2>3, <2>5, <2>6 DEF TcpTypeOK
<1>2. CASE inbox[c] = << >>
  BY <1>2 DEF ReadData, CloseSocket, TcpTypeOK
<1>3. QED
  BY <1>1, <1>2

LEMMA VisitKeepsInv ==
    ASSUME TcpInv, Visit
    PROVE  TcpInv'
<1> USE DEF TcpInv
<1> DEFINE c == Head(unvisited)
<1>1. /\ unvisited' = Tail(unvisited)
      /\ UNCHANGED << peer, backlog, sent, srvClients, listening, readfs, accepted, alive >>
      /\ alive /\ listening
  BY DEF Visit
<1>2. /\ c \in Conns
      /\ Tail(unvisited) \in Seq(Conns)
      /\ NoRepeat(Tail(unvisited))
      /\ \A j \in 1 .. Len(Tail(unvisited)) :
           Tail(unvisited)[j] = unvisited[j + 1] /\ Tail(unvisited)[j] # c
  BY TailElements DEF Visit, TcpTypeOK
<1>3. /\ buffer' \in [Conns -> Seq(Lines)]
      /\ inbox' \in [Conns -> Seq(Lines)]
      /\ file' \in [Conns -> Fds \cup {NoFile}]
      /\ \A d \in Conns : file'[d] = file[d] \/ (d = c /\ file'[d] = NoFile)
      /\ \A d \in Conns \ {c} : inbox'[d] = inbox[d]
  <2>1. ReadData(c) \/ UNCHANGED << file, buffer, inbox >>
    BY DEF Visit
  <2>2. QED
    BY <1>2, <2>1, ReadDataEffect DEF TcpTypeOK
<1> HIDE DEF c
<1>4. TcpTypeOK'
  BY <1>1, <1>2, <1>3 DEF TcpTypeOK
<1>5. WaitingIsNew' /\ DistinctFiles'
  BY <1>1, <1>3 DEF WaitingIsNew, DistinctFiles, isConnected
<1>6. ReadNeverBlocks'
  <2> SUFFICES ASSUME NEW j \in 1 .. Len(unvisited'),
                      file'[unvisited'[j]] # NoFile, file'[unvisited'[j]] \in readfs
               PROVE  Readable(unvisited[j])'
    BY <1>1 DEF ReadNeverBlocks, isConnected
  <2> DEFINE d == unvisited'[j]
  <2>1. d \in Conns \ {c} /\ d = unvisited[j + 1] /\ j + 1 \in 1 .. Len(unvisited)
    <3>1. /\ unvisited \in Seq(Conns) /\ unvisited # << >>
          /\ Tail(unvisited) \in Seq(Conns)
      BY <1>2 DEF Visit, TcpTypeOK
    <3>2. Len(Tail(unvisited)) = Len(unvisited) - 1 /\ Len(unvisited) \in Nat
      BY <3>1
    <3>3. j \in 1 .. Len(Tail(unvisited)) /\ d = Tail(unvisited)[j]
      BY <1>1
    <3>4. j + 1 \in 1 .. Len(unvisited)
      BY <3>2, <3>3
    <3>5. d \in Conns
      BY <3>1, <3>3, ElementOfSeq
    <3>6. d = unvisited[j + 1] /\ d # c
      BY <1>2, <3>3
    <3>7. QED
      BY <3>4, <3>5, <3>6
  <2>2. file'[d] = file[d] /\ inbox'[d] = inbox[d]
    BY <1>3, <2>1
  <2>3. Readable(d)
    BY <1>1, <2>1, <2>2 DEF ReadNeverBlocks, isConnected
  <2>4. QED
    BY <1>1, <2>2, <2>3 DEF Readable
<1>7. QED
  BY <1>1, <1>2, <1>4, <1>5, <1>6

LEMMA ListenedKeepsInv ==
    ASSUME TcpInv, Listened
    PROVE  TcpInv'
<1>1. TcpTypeOK'
  BY DEF TcpInv, TcpTypeOK, Listened, peerVars, sockVars
<1>2. QED
  BY <1>1 DEF TcpInv, Listened, WaitingIsNew, DistinctFiles, ReadNeverBlocks,
     isConnected, NoRepeat, Holds, peerVars, sockVars

-----------------------------------------------------------------------------
(* The theorems.                                                           *)

LEMMA TcpStepInv == TcpInv /\ [TcpNext]_tcpVars => TcpInv'
<1> SUFFICES ASSUME TcpInv, [TcpNext]_tcpVars PROVE TcpInv'
  OBVIOUS
<1>1. ASSUME NEW c \in Conns, Peer(c) PROVE TcpInv'
  BY <1>1, PeerKeepsInv
<1>2. ASSUME NEW c \in Conns, TakeLine(c) PROVE TcpInv'
  BY <1>2, TakeLineKeepsInv
<1>3. ASSUME NEW to \in SUBSET Conns, NEW k \in 0 .. 2, SendAll(to, k) PROVE TcpInv'
  BY <1>3, SendAllKeepsInv
<1>4. CASE Listen
  BY <1>4, ListenKeepsInv
<1>5. CASE Visit
  BY <1>5, VisitKeepsInv
<1>6. CASE Listened
  BY <1>6, ListenedKeepsInv
<1>7. CASE UNCHANGED tcpVars
  BY <1>7 DEF tcpVars, peerVars, sockVars, srvVars, TcpInv, TcpTypeOK, NoRepeat,
     Holds, WaitingIsNew, DistinctFiles, ReadNeverBlocks, isConnected, Readable
<1>8. QED
  BY <1>1, <1>2, <1>3, <1>4, <1>5, <1>6, <1>7 DEF TcpNext

THEOREM TcpInvariant == TcpSpec => []TcpInv
<1>1. TcpInit => TcpInv
  BY TcpInitInv
<1>2. TcpInv /\ [TcpNext]_tcpVars => TcpInv'
  BY TcpStepInv
<1>3. QED
  BY <1>1, <1>2, PTL DEF TcpSpec

\* The variables of the server have their types in every behaviour.
THEOREM TcpTypeCorrect == TcpSpec => []TcpTypeOK
<1>1. TcpInv => TcpTypeOK
  BY DEF TcpInv
<1>2. QED
  BY <1>1, TcpInvariant, PTL

\* With any number of users, descriptors and lines, and whatever the owner of
\* the clients does between two calls, Listen() never reads a socket that has
\* nothing to read.
THEOREM TcpReadNeverBlocks == TcpSpec => []ReadNeverBlocks
<1>1. TcpInv => ReadNeverBlocks
  BY DEF TcpInv
<1>2. QED
  BY <1>1, TcpInvariant, PTL

-----------------------------------------------------------------------------
(* Cutting a stream into lines.                                            *)

Upto(stream, n) == {s \in Stretches(stream) : s[2] < n}

\* The stretches that end within the first n bytes, in their order.
AreLinesUpto(lines, stream, n) ==
    \E nth \in [1 .. Len(lines) -> Upto(stream, n)] :
        /\ \A s \in Upto(stream, n) : \E k \in 1 .. Len(lines) : nth[k] = s
        /\ \A j, k \in 1 .. Len(lines) : j < k => nth[j][2] < nth[k][1]
        /\ \A k \in 1 .. Len(lines) : lines[k] = SubSeq(stream, nth[k][1], nth[k][2])

\* The first n bytes have been cut into lines, and the others are in Buffer.
CutAt(s, stream, n) ==
    /\ s.Buffer = SubSeq(stream, n + 1, Len(stream))
    /\ n = 0 \/ stream[n] = End
    /\ AreLinesUpto(s.lines, stream, n)

Framed(s, stream) == \E n \in 0 .. Len(stream) : CutAt(s, stream, n)

HasEnd(buf) == \E i \in 1 .. Len(buf) : buf[i] = End

\* The states of a socket that reads a stream of bytes of S.
Sockets(S) == [lines : Seq(Seq(S)), Buffer : Seq(S)]

LEMMA PositionIsFirst ==
    ASSUME NEW S, NEW buf \in Seq(S), NEW b
    PROVE  /\ Position(buf, b) \in 1 .. Len(buf) + 1
           /\ Position(buf, b) = Len(buf) + 1 \/ buf[Position(buf, b)] = b
           /\ \A j \in 1 .. Position(buf, b) - 1 : buf[j] # b
<1> DEFINE there == {i \in 1 .. Len(buf) + 1 : i = Len(buf) + 1 \/ buf[i] = b}
<1>1. Len(buf) \in Nat
  OBVIOUS
<1>2. there \in SUBSET Nat /\ Len(buf) + 1 \in there
  BY <1>1
<1>3. PICK m \in there : \A i \in there : m <= i
  <2> HIDE DEF there
  <2> QED
    BY <1>2, HasMin
<1>4. \A j \in 1 .. m - 1 : buf[j] # b
  <2> SUFFICES ASSUME NEW j \in 1 .. m - 1, buf[j] = b PROVE FALSE
    OBVIOUS
  <2>1. j \in there /\ ~(m <= j)
    BY <1>1, <1>3
  <2> QED
    BY <1>3, <2>1
<1>5. \E i \in 1 .. Len(buf) + 1 : /\ i = Len(buf) + 1 \/ buf[i] = b
                                   /\ \A j \in 1 .. i - 1 : buf[j] # b
  BY <1>3, <1>4
<1> QED
  BY <1>5 DEF Position

\* The last part of a stream, byte by byte.
LEMMA RestOfStream ==
    ASSUME NEW S, NEW stream \in Seq(S), NEW n \in 0 .. Len(stream)
    PROVE  /\ SubSeq(stream, n + 1, Len(stream)) \in Seq(S)
           /\ Len(SubSeq(stream, n + 1, Len(stream))) = Len(stream) - n
           /\ \A i \in 1 .. Len(stream) - n :
                SubSeq(stream, n + 1, Len(stream))[i] = stream[n + i]
<1>1. /\ Len(stream) \in Nat
      /\ \A i \in n + 1 .. Len(stream) : stream[i] \in S
  OBVIOUS
<1> QED
  BY <1>1, SubSeqProperties

\* A part of the rest of a stream is a part of the stream.
LEMMA PartOfRest ==
    ASSUME NEW S, NEW stream \in Seq(S), NEW n \in 0 .. Len(stream),
           NEW i \in 1 .. Len(stream) - n + 1, NEW j \in i - 1 .. Len(stream) - n
    PROVE  SubSeq(SubSeq(stream, n + 1, Len(stream)), i, j) = SubSeq(stream, n + i, n + j)
<1> DEFINE rest == SubSeq(stream, n + 1, Len(stream))
           left == SubSeq(rest, i, j)
           right == SubSeq(stream, n + i, n + j)
<1>1. /\ Len(stream) \in Nat
      /\ \A k \in 1 .. Len(stream) : stream[k] \in S
  OBVIOUS
<1>2. /\ rest \in Seq(S) /\ Len(rest) = Len(stream) - n
      /\ \A k \in 1 .. Len(stream) - n : rest[k] = stream[n + k]
  BY RestOfStream
<1> HIDE DEF rest
<1>3. \A k \in i .. j : rest[k] \in S
  BY <1>1, <1>2
<1>4. /\ left \in Seq(S) /\ Len(left) = j - i + 1
      /\ \A k \in 1 .. j - i + 1 : left[k] = rest[i + k - 1]
  BY <1>1, <1>3, SubSeqProperties
<1>5. \A k \in n + i .. n + j : stream[k] \in S
  BY <1>1
<1>6. /\ right \in Seq(S) /\ Len(right) = j - i + 1
      /\ \A k \in 1 .. j - i + 1 : right[k] = stream[n + i + k - 1]
  BY <1>1, <1>5, SubSeqProperties
<1> HIDE DEF left, right
<1>7. \A k \in 1 .. j - i + 1 : left[k] = right[k]
  <2> SUFFICES ASSUME NEW k \in 1 .. j - i + 1 PROVE left[k] = right[k]
    OBVIOUS
  <2>1. i + k - 1 \in 1 .. Len(stream) - n
    BY <1>1
  <2>2. rest[i + k - 1] = stream[n + (i + k - 1)] /\ n + (i + k - 1) = n + i + k - 1
    BY <1>1, <1>2, <2>1
  <2> QED
    BY <1>4, <1>6, <2>2
<1>8. Len(left) = Len(right)
  BY <1>4, <1>6
<1>9. left = right
  BY <1>4, <1>6, <1>7, <1>8, SeqEqual
<1> QED
  BY <1>9 DEF left, right, rest

\* A stretch by its first and its last byte.
LEMMA StretchIff ==
    ASSUME NEW stream, NEW n, NEW a, NEW b
    PROVE  <<a, b>> \in Upto(stream, n) <=>
             /\ a \in 1 .. Len(stream) /\ b \in 1 .. Len(stream)
             /\ a <= b /\ b < Len(stream) /\ b < n
             /\ stream[b + 1] = End
             /\ a = 1 \/ stream[a - 1] = End
             /\ \A i \in a .. b : stream[i] # End
<1>1. <<a, b>> \in (1 .. Len(stream)) \X (1 .. Len(stream))
        <=> a \in 1 .. Len(stream) /\ b \in 1 .. Len(stream)
  OBVIOUS
<1>2. <<a, b>>[1] = a /\ <<a, b>>[2] = b
  OBVIOUS
<1> QED
  BY <1>1, <1>2 DEF Upto, Stretches

\* A stretch that the next line end completes is all there is up to it.
LEMMA NextStretch ==
    ASSUME NEW S, NEW stream \in Seq(S), NEW n \in 0 .. Len(stream),
           n = 0 \/ stream[n] = End,
           NEW m \in n + 1 .. Len(stream), stream[m] = End,
           \A i \in n + 1 .. m - 1 : stream[i] # End
    PROVE  Upto(stream, m) = Upto(stream, n) \cup (IF m = n + 1 THEN {} ELSE {<<n + 1, m - 1>>})
<1>1. Len(stream) \in Nat
  OBVIOUS
<1>2. ASSUME NEW t \in Upto(stream, m), t \notin Upto(stream, n)
      PROVE  t = <<n + 1, m - 1>> /\ m # n + 1
  <2>1. PICK a \in 1 .. Len(stream), b \in 1 .. Len(stream) : t = <<a, b>>
    BY DEF Upto, Stretches
  <2>2. /\ a <= b /\ b < m /\ n <= b
        /\ stream[b + 1] = End
        /\ a = 1 \/ stream[a - 1] = End
        /\ \A i \in a .. b : stream[i] # End
    <3>1. <<a, b>> \in Upto(stream, m) /\ <<a, b>> \notin Upto(stream, n)
      BY <1>2, <2>1
    <3>2. /\ a <= b /\ b < Len(stream) /\ b < m
          /\ stream[b + 1] = End
          /\ a = 1 \/ stream[a - 1] = End
          /\ \A i \in a .. b : stream[i] # End
      BY <3>1, StretchIff
    <3>3. ~(b < n)
      BY <3>1, <3>2, StretchIff
    <3> QED
      BY <1>1, <3>2, <3>3
  <2>3. b = m - 1
    <3>1. b + 1 \notin n + 1 .. m - 1
      BY <2>2
    <3> QED
      BY <1>1, <2>2, <3>1
  <2>4. n < a
    <3>1. n # 0 => n \notin a .. b
      BY <2>2
    <3> QED
      BY <1>1, <2>2, <3>1
  <2>5. a = n + 1
    <3>1. a # 1 => a - 1 \notin n + 1 .. m - 1
      BY <2>2
    <3> QED
      BY <1>1, <2>2, <2>4, <3>1
  <2> QED
    BY <1>1, <2>1, <2>2, <2>3, <2>5
<1>3. m # n + 1 => <<n + 1, m - 1>> \in Upto(stream, m)
  <2> SUFFICES ASSUME m # n + 1 PROVE <<n + 1, m - 1>> \in Upto(stream, m)
    OBVIOUS
  <2>1. /\ n + 1 \in 1 .. Len(stream) /\ m - 1 \in 1 .. Len(stream)
        /\ n + 1 <= m - 1 /\ m - 1 < Len(stream) /\ m - 1 < m
        /\ (m - 1) + 1 = m /\ (n + 1) - 1 = n /\ (n = 0 => n + 1 = 1)
    BY <1>1
  <2> QED
    BY <2>1, StretchIff
<1>4. Upto(stream, n) \subseteq Upto(stream, m)
  BY <1>1 DEF Upto, Stretches
<1> QED
  BY <1>2, <1>3, <1>4

\* One line more: it is that stretch.
LEMMA LinesGrow ==
    ASSUME NEW S, NEW stream \in Seq(S), NEW n \in 0 .. Len(stream), NEW m \in n + 2 .. Len(stream),
           Upto(stream, m) = Upto(stream, n) \cup {<<n + 1, m - 1>>},
           NEW lines \in Seq(Seq(S)), AreLinesUpto(lines, stream, n),
           NEW line \in Seq(S), line = SubSeq(stream, n + 1, m - 1)
    PROVE  AreLinesUpto(Append(lines, line), stream, m)
<1> DEFINE last == Len(lines) + 1
           new == <<n + 1, m - 1>>
<1>1. /\ Len(lines) \in Nat /\ Len(Append(lines, line)) = last
      /\ \A k \in 1 .. Len(lines) : Append(lines, line)[k] = lines[k]
      /\ Append(lines, line)[last] = line
  BY AppendProperties
<1>2. PICK nth \in [1 .. Len(lines) -> Upto(stream, n)] :
        /\ \A s \in Upto(stream, n) : \E k \in 1 .. Len(lines) : nth[k] = s
        /\ \A j, k \in 1 .. Len(lines) : j < k => nth[j][2] < nth[k][1]
        /\ \A k \in 1 .. Len(lines) : lines[k] = SubSeq(stream, nth[k][1], nth[k][2])
  BY DEF AreLinesUpto
<1> DEFINE nth1 == [k \in 1 .. last |-> IF k = last THEN new ELSE nth[k]]
<1>3. /\ nth1[last] = new
      /\ \A k \in 1 .. Len(lines) : nth1[k] = nth[k] /\ k \in 1 .. last
      /\ \A k \in 1 .. last : k = last \/ k \in 1 .. Len(lines)
      /\ last \in 1 .. last
  BY <1>1
<1>4. nth1 \in [1 .. last -> Upto(stream, m)]
  BY <1>1, <1>2
<1> HIDE DEF nth1
<1>5. \A s \in Upto(stream, m) : \E k \in 1 .. last : nth1[k] = s
  BY <1>2, <1>3
<1>6. \A t \in Upto(stream, n) : t[2] \in Nat /\ t[2] < n
  BY DEF Upto, Stretches
<1>7. \A j, k \in 1 .. last : j < k => nth1[j][2] < nth1[k][1]
  <2> SUFFICES ASSUME NEW j \in 1 .. last, NEW k \in 1 .. last, j < k
               PROVE  nth1[j][2] < nth1[k][1]
    OBVIOUS
  <2>1. j \in 1 .. Len(lines) /\ nth1[j] = nth[j]
    BY <1>1, <1>3
  <2>2. CASE k = last
    <3>1. nth1[k][1] = n + 1
      BY <1>3, <2>2
    <3>2. nth[j][2] \in Nat /\ nth[j][2] < n
      BY <1>2, <1>6, <2>1
    <3> QED
      BY <2>1, <3>1, <3>2
  <2>3. CASE k \in 1 .. Len(lines)
    BY <1>2, <1>3, <2>1, <2>3
  <2> QED
    BY <1>3, <2>2, <2>3
<1>8. \A k \in 1 .. last : Append(lines, line)[k] = SubSeq(stream, nth1[k][1], nth1[k][2])
  <2> SUFFICES ASSUME NEW k \in 1 .. last
               PROVE  Append(lines, line)[k] = SubSeq(stream, nth1[k][1], nth1[k][2])
    OBVIOUS
  <2>1. CASE k = last
    <3>1. nth1[k][1] = n + 1 /\ nth1[k][2] = m - 1
      BY <1>3, <2>1
    <3> QED
      BY <1>1, <2>1, <3>1
  <2>2. CASE k \in 1 .. Len(lines)
    BY <1>1, <1>2, <1>3, <2>2
  <2> QED
    BY <1>3, <2>1, <2>2
<1>9. PICK all : all = Append(lines, line)
  OBVIOUS
<1> HIDE DEF last, new
<1>10. AreLinesUpto(all, stream, m)
  BY <1>1, <1>4, <1>5, <1>7, <1>8, <1>9 DEF AreLinesUpto
<1> QED
  BY <1>9, <1>10

\* A round of Read() cuts off one line, or finds none.
LEMMA RoundKeepsFramed ==
    ASSUME NEW S, NEW stream \in Seq(S), NEW s \in Sockets(S), Framed(s, stream)
    PROVE  /\ ReadRound(s) \in Sockets(S)
           /\ Framed(ReadRound(s), stream)
           /\ HasEnd(s.Buffer) => Len(ReadRound(s).Buffer) + 1 <= Len(s.Buffer)
           /\ ~HasEnd(s.Buffer) => ReadRound(s) = s
<1> DEFINE buf == s.Buffer
           found == Position(buf, End)
           line == SubSeq(buf, 1, found - 1)
           rest == SubSeq(buf, found + 1, Len(buf))
<1>1. buf \in Seq(S) /\ Len(buf) \in Nat /\ s.lines \in Seq(Seq(S)) /\ Len(stream) \in Nat
  BY DEF Sockets
<1>2. /\ found \in 1 .. Len(buf) + 1
      /\ found = Len(buf) + 1 \/ buf[found] = End
      /\ \A j \in 1 .. found - 1 : buf[j] # End
  BY <1>1, PositionIsFirst
<1>3. CASE found > Len(buf)
  <2>1. ReadRound(s) = s
    BY <1>3 DEF ReadRound
  <2>2. ~HasEnd(s.Buffer)
    BY <1>1, <1>2, <1>3 DEF HasEnd
  <2> QED
    BY <2>1, <2>2
<1>4. CASE ~(found > Len(buf))
  <2>1. found \in 1 .. Len(buf) /\ buf[found] = End
    BY <1>1, <1>2, <1>4
  <2>2. PICK n \in 0 .. Len(stream) : CutAt(s, stream, n)
    BY DEF Framed
  <2>3. /\ buf = SubSeq(stream, n + 1, Len(stream)) /\ Len(buf) = Len(stream) - n
        /\ \A i \in 1 .. Len(buf) : buf[i] = stream[n + i]
    BY <2>2, RestOfStream DEF CutAt
  <2> DEFINE m == n + found
  <2>4. m \in n + 1 .. Len(stream) /\ m \in 0 .. Len(stream)
    BY <1>1, <2>1, <2>3
  <2>5. stream[m] = End /\ \A i \in n + 1 .. m - 1 : stream[i] # End
    <3>1. ASSUME NEW i \in n + 1 .. m - 1 PROVE stream[i] # End
      <4>1. i - n \in 1 .. found - 1 /\ i - n \in 1 .. Len(buf) /\ n + (i - n) = i
        BY <1>1, <2>1
      <4> QED
        BY <1>2, <2>3, <4>1
    <3> QED
      BY <2>1, <2>3, <3>1
  <2>6. line \in Seq(S) /\ Len(line) = found - 1 /\ line = SubSeq(stream, n + 1, m - 1)
    <3>1. found - 1 \in 1 - 1 .. Len(stream) - n /\ 1 \in 1 .. Len(stream) - n + 1
      BY <1>1, <2>1, <2>3
    <3>2. line = SubSeq(stream, n + 1, n + (found - 1))
      BY <2>3, <3>1, PartOfRest
    <3>3. n + (found - 1) = m - 1
      BY <1>1, <2>1
    <3>4. \A k \in 1 .. found - 1 : buf[k] \in S
      BY <1>1, <2>1
    <3>5. line \in Seq(S) /\ Len(line) = found - 1
      BY <1>1, <2>1, <3>4, SubSeqProperties
    <3> QED
      BY <3>2, <3>3, <3>5
  <2>7. rest \in Seq(S) /\ Len(rest) = Len(buf) - found /\ rest = SubSeq(stream, m + 1, Len(stream))
    <3>1. found + 1 \in 1 .. Len(stream) - n + 1 /\ Len(buf) \in (found + 1) - 1 .. Len(stream) - n
      <4>1. PICK l : l = Len(buf)
        OBVIOUS
      <4>2. l \in Nat /\ l = Len(stream) - n /\ found \in 1 .. l
        BY <1>1, <2>1, <2>3, <4>1
      <4> HIDE DEF found
      <4>3. found + 1 \in 1 .. Len(stream) - n + 1 /\ l \in (found + 1) - 1 .. Len(stream) - n
        BY <1>1, <4>2
      <4> QED
        BY <4>1, <4>3
    <3>2. rest = SubSeq(stream, n + (found + 1), n + Len(buf))
      BY <2>3, <3>1, PartOfRest
    <3>3. n + (found + 1) = m + 1 /\ n + Len(buf) = Len(stream)
      BY <1>1, <2>1, <2>3
    <3>4. rest = SubSeq(stream, m + 1, Len(stream))
      BY <3>2, <3>3
    <3>5. found \in 0 .. Len(buf)
      BY <2>1
    <3>6. rest \in Seq(S) /\ Len(rest) = Len(buf) - found
      BY <1>1, <3>5, RestOfStream
    <3> QED
      BY <3>4, <3>6
  <2> DEFINE lines == IF line = << >> THEN s.lines ELSE Append(s.lines, line)
             r == [lines |-> lines, Buffer |-> rest]
  <2>8. ReadRound(s) = r
    BY <1>4 DEF ReadRound
  <2>9. line = << >> <=> found = 1
    <3> HIDE DEF line
    <3>1. line = << >> <=> Len(line) = 0
      BY <2>6, EmptySeq
    <3> QED
      BY <1>1, <2>1, <2>6, <3>1
  <2>10. Upto(stream, m) = Upto(stream, n) \cup (IF m = n + 1 THEN {} ELSE {<<n + 1, m - 1>>})
    <3>1. n = 0 \/ stream[n] = End
      BY <2>2 DEF CutAt
    <3> HIDE DEF m
    <3> QED
      BY <2>4, <2>5, <3>1, NextStretch
  <2>11. AreLinesUpto(s.lines, stream, n)
    BY <2>2 DEF CutAt
  <2>12. lines \in Seq(Seq(S)) /\ AreLinesUpto(lines, stream, m)
    <3>1. CASE found = 1
      <4>1. Upto(stream, m) = Upto(stream, n) /\ lines = s.lines
        BY <2>9, <2>10, <3>1
      <4> HIDE DEF lines, m
      <4> QED
        BY <1>1, <2>11, <4>1 DEF AreLinesUpto
    <3>2. CASE found # 1
      <4>1. m \in n + 2 .. Len(stream) /\ m # n + 1
        BY <1>1, <2>1, <2>4, <3>2
      <4>2. lines = Append(s.lines, line)
        BY <2>9, <3>2
      <4>3. Upto(stream, m) = Upto(stream, n) \cup {<<n + 1, m - 1>>}
        BY <2>10, <4>1
      <4>4. lines \in Seq(Seq(S))
        <5> HIDE DEF line
        <5> QED
          BY <1>1, <2>6, <4>2, AppendProperties
      <4> HIDE DEF line, m, lines
      <4> QED
        BY <1>1, <2>6, <2>11, <4>1, <4>2, <4>3, <4>4, LinesGrow
    <3> QED
      BY <3>1, <3>2
  <2>13. r \in Sockets(S) /\ CutAt(r, stream, m)
    <3> HIDE DEF lines, rest, m
    <3> QED
      BY <2>5, <2>7, <2>12 DEF Sockets, CutAt
  <2>14. Len(r.Buffer) + 1 <= Len(s.Buffer)
    <3>1. Len(r.Buffer) = Len(buf) - found
      BY <2>7
    <3> HIDE DEF r, found
    <3> QED
      BY <1>1, <2>1, <3>1
  <2>15. HasEnd(s.Buffer)
    BY <2>1 DEF HasEnd
  <2> QED
    BY <2>4, <2>8, <2>13, <2>14, <2>15 DEF Framed
<1> QED
  BY <1>3, <1>4

\* Read() until it returns false leaves no line in Buffer.
LEMMA ReadLinesFramed ==
    ASSUME NEW S, NEW stream \in Seq(S), NEW s \in Sockets(S), Framed(s, stream)
    PROVE  /\ ReadLines(s) \in Sockets(S)
           /\ Framed(ReadLines(s), stream)
           /\ ~HasEnd(ReadLines(s).Buffer)
<1> DEFINE n == Len(s.Buffer)
           V == {v \in Sockets(S) : Framed(v, stream)}
           step == [k \in 1 .. n |-> [v \in V |-> ReadRound(v)]]
           after[k \in 0 .. n] == IF k = 0 THEN s ELSE ReadRound(after[k - 1])
           Good(k) == /\ after[k] \in V
                      /\ HasEnd(after[k].Buffer) => Len(after[k].Buffer) + k <= n
           wrong == {k \in 0 .. n : ~Good(k)}
<1>1. n \in Nat /\ s \in V
  BY DEF Sockets
<1>2. ASSUME NEW v \in V
      PROVE  /\ ReadRound(v) \in V
             /\ HasEnd(v.Buffer) => Len(ReadRound(v).Buffer) + 1 <= Len(v.Buffer)
             /\ ~HasEnd(v.Buffer) => ReadRound(v) = v
             /\ Len(v.Buffer) \in Nat
  <2>1. v \in Sockets(S) /\ Framed(v, stream)
    OBVIOUS
  <2>2. Len(v.Buffer) \in Nat
    BY <2>1 DEF Sockets
  <2> QED
    BY <2>1, <2>2, RoundKeepsFramed
<1>3. ReadLines(s) = after[n]
  BY DEF ReadLines
<1>4. \A k \in 0 .. n : after[k] = IF k = 0 THEN s ELSE ReadRound(after[k - 1])
  <2> DEFINE Run(f) == f = [k \in 0 .. n |-> IF k = 0 THEN s ELSE ReadRound(f[k - 1])]
  <2>1. step \in [1 .. n -> [V -> V]]
    <3> HIDE DEF V
    <3> QED
      BY <1>2
  <2>2. PICK f \in [0 .. n -> V] : IsLoop(n, s, step, f)
    <3> HIDE DEF step, V, n
    <3> QED
      BY <1>1, <2>1, LoopRuns
  <2>3. \A k \in 0 .. n : f[k] = IF k = 0 THEN s ELSE ReadRound(f[k - 1])
    <3> SUFFICES ASSUME NEW k \in 0 .. n, k # 0 PROVE f[k] = ReadRound(f[k - 1])
      BY <2>2 DEF IsLoop
    <3>1. k \in 1 .. n /\ k - 1 \in 0 .. n
      BY <1>1
    <3>2. f[k] = step[k][f[k - 1]] /\ f[k - 1] \in V
      BY <2>2, <3>1 DEF IsLoop
    <3> HIDE DEF V, n
    <3> QED
      BY <3>1, <3>2
  <2>4. Run(f)
    <3> HIDE DEF V, n
    <3> QED
      BY <2>2, <2>3 DEF IsLoop
  <2>5. Run(after)
    <3> HIDE DEF n
    <3> QED
      BY <2>4
  <2> HIDE DEF after, n
  <2> QED
    BY <2>5
<1> HIDE DEF after
<1>5. Good(0)
  <2>1. after[0] = s
    BY <1>1, <1>4
  <2> HIDE DEF V
  <2> QED
    BY <1>1, <2>1
<1>6. ASSUME NEW k \in 0 .. n, k # 0, Good(k - 1) PROVE Good(k)
  <2>1. PICK v : v = after[k - 1]
    OBVIOUS
  <2>2. /\ v \in V /\ after[k] = ReadRound(v)
        /\ HasEnd(v.Buffer) => Len(v.Buffer) + (k - 1) <= n
    BY <1>4, <1>6, <2>1
  <2>3. /\ after[k] \in V /\ Len(after[k].Buffer) \in Nat /\ Len(v.Buffer) \in Nat
        /\ HasEnd(v.Buffer) => Len(after[k].Buffer) + 1 <= Len(v.Buffer)
        /\ ~HasEnd(v.Buffer) => after[k] = v
    BY <1>2, <2>2
  <2> HIDE DEF V, n
  <2>4. ASSUME HasEnd(after[k].Buffer) PROVE Len(after[k].Buffer) + k <= n
    BY <1>1, <2>2, <2>3, <2>4
  <2> QED
    BY <2>3, <2>4
<1>7. wrong = {}
  <2> HIDE DEF Good
  <2> SUFFICES ASSUME wrong # {} PROVE FALSE
    OBVIOUS
  <2>1. PICK k \in wrong : \A j \in wrong : k <= j
    <3>1. wrong \in SUBSET Nat
      BY <1>1
    <3> HIDE DEF wrong
    <3> QED
      BY <3>1, HasMin
  <2>2. k \in 0 .. n /\ ~Good(k)
    BY <2>1
  <2>3. k # 0
    BY <1>5, <2>2
  <2>4. k - 1 \in 0 .. n /\ ~(k <= k - 1)
    BY <1>1, <2>2, <2>3
  <2>5. Good(k - 1)
    BY <2>1, <2>4
  <2> QED
    BY <1>6, <2>2, <2>3, <2>5
<1>8. n \in 0 .. n
  BY <1>1
<1>9. Good(n)
  <2> HIDE DEF Good
  <2> QED
    BY <1>7, <1>8
<1>10. after[n] \in Sockets(S) /\ Framed(after[n], stream)
  BY <1>9
<1>11. ~HasEnd(after[n].Buffer)
  <2> SUFFICES ASSUME HasEnd(after[n].Buffer) PROVE FALSE
    OBVIOUS
  <2>1. Len(after[n].Buffer) \in Nat /\ Len(after[n].Buffer) + n <= n
    BY <1>2, <1>9
  <2>2. Len(after[n].Buffer) = 0
    <3> HIDE DEF n
    <3> QED
      BY <1>1, <2>1
  <2> QED
    BY <2>2 DEF HasEnd
<1> QED
  BY <1>3, <1>10, <1>11

\* A chunk without NUL is appended whole.
LEMMA WholeChunk ==
    ASSUME NEW S, NEW buf, NEW chunk \in Seq(S), \A i \in 1 .. Len(chunk) : chunk[i] # Nul
    PROVE  ReadChunk(buf, chunk) = buf \o chunk
<1> DEFINE p == Position(chunk, Nul)
<1>1. Len(chunk) \in Nat
  OBVIOUS
<1>2. p \in 1 .. Len(chunk) + 1 /\ (p = Len(chunk) + 1 \/ chunk[p] = Nul)
  BY PositionIsFirst
<1>3. p - 1 = Len(chunk)
  <2> HIDE DEF p
  <2> QED
    BY <1>1, <1>2
<1>4. SubSeq(chunk, 1, p - 1) = chunk
  <2> HIDE DEF p
  <2> QED
    BY <1>3, SubSeqFull
<1> QED
  BY <1>4 DEF ReadChunk

\* What the stream was is the beginning of what it becomes.
LEMMA PartOfBeginning ==
    ASSUME NEW S, NEW stream \in Seq(S), NEW chunk \in Seq(S),
           NEW a \in 1 .. Len(stream), NEW b \in 1 .. Len(stream)
    PROVE  SubSeq(stream \o chunk, a, b) = SubSeq(stream, a, b)
<1> DEFINE all == stream \o chunk
           left == SubSeq(all, a, b)
           right == SubSeq(stream, a, b)
<1>1. /\ Len(stream) \in Nat
      /\ \A k \in 1 .. Len(stream) : stream[k] \in S /\ all[k] = stream[k]
  BY ConcatProperties
<1> HIDE DEF all
<1>2. \A k \in a .. b : k \in 1 .. Len(stream)
  BY <1>1
<1>3. /\ left \in Seq(S) /\ Len(left) = IF a <= b THEN b - a + 1 ELSE 0
      /\ \A k \in 1 .. b - a + 1 : left[k] = all[a + k - 1]
  BY <1>1, <1>2, SubSeqProperties
<1>4. /\ right \in Seq(S) /\ Len(right) = IF a <= b THEN b - a + 1 ELSE 0
      /\ \A k \in 1 .. b - a + 1 : right[k] = stream[a + k - 1]
  BY <1>1, <1>2, SubSeqProperties
<1> HIDE DEF left, right
<1>5. \A k \in 1 .. Len(left) : left[k] = right[k]
  <2> SUFFICES ASSUME NEW k \in 1 .. Len(left) PROVE left[k] = right[k]
    OBVIOUS
  <2>1. k \in 1 .. b - a + 1 /\ a + k - 1 \in 1 .. Len(stream)
    BY <1>1, <1>3
  <2> QED
    BY <1>1, <1>3, <1>4, <2>1
<1>6. left = right
  BY <1>3, <1>4, <1>5, SeqEqual
<1> QED
  BY <1>6 DEF left, right, all

\* A chunk more in the stream and in Buffer: what has been cut stays so.
LEMMA ChunkKeepsFramed ==
    ASSUME NEW S, NEW stream \in Seq(S), NEW s \in Sockets(S), Framed(s, stream),
           NEW chunk \in Seq(S), \A i \in 1 .. Len(chunk) : chunk[i] # Nul,
           NEW r, r = [s EXCEPT !.Buffer = ReadChunk(@, chunk)]
    PROVE  r \in Sockets(S) /\ Framed(r, stream \o chunk)
<1>1. PICK n \in 0 .. Len(stream) : CutAt(s, stream, n)
  BY DEF Framed
<1>2. PICK all : all = stream \o chunk
  OBVIOUS
<1>3. /\ Len(stream) \in Nat /\ Len(chunk) \in Nat
      /\ all \in Seq(S) /\ Len(all) = Len(stream) + Len(chunk)
      /\ \A i \in 1 .. Len(stream) : all[i] = stream[i]
      /\ \A i \in 1 .. Len(chunk) : all[Len(stream) + i] = chunk[i]
  BY <1>2, ListConcat, ConcatProperties DEF IsList
<1>4. ReadChunk(s.Buffer, chunk) = s.Buffer \o chunk
  BY WholeChunk
<1>5. r = [lines |-> s.lines, Buffer |-> s.Buffer \o chunk]
  BY <1>4 DEF Sockets
<1>6. s.Buffer \in Seq(S) /\ s.lines \in Seq(Seq(S))
  BY DEF Sockets
<1>7. r \in Sockets(S)
  <2>1. PICK buf : buf = s.Buffer \o chunk
    OBVIOUS
  <2>2. buf \in Seq(S)
    BY <1>6, <2>1, ConcatProperties
  <2>3. PICK lines \in Seq(Seq(S)) : lines = s.lines
    BY <1>6
  <2>4. [lines |-> lines, Buffer |-> buf] \in Sockets(S)
    BY <2>2 DEF Sockets
  <2> QED
    BY <1>5, <2>1, <2>3, <2>4
<1>8. r.Buffer = SubSeq(all, n + 1, Len(all))
  <2> DEFINE rest == SubSeq(all, n + 1, Len(all))
  <2>1. /\ Len(s.Buffer) = Len(stream) - n
        /\ \A i \in 1 .. Len(s.Buffer) : s.Buffer[i] = stream[n + i]
    BY <1>1, RestOfStream DEF CutAt
  <2>2. n \in 0 .. Len(all)
    BY <1>3
  <2>3. /\ rest \in Seq(S) /\ Len(rest) = Len(all) - n
        /\ \A i \in 1 .. Len(all) - n : rest[i] = all[n + i]
    BY <1>3, <2>2, RestOfStream
  <2>4. /\ r.Buffer \in Seq(S) /\ Len(r.Buffer) = Len(s.Buffer) + Len(chunk)
        /\ \A i \in 1 .. Len(s.Buffer) : r.Buffer[i] = s.Buffer[i]
        /\ \A i \in 1 .. Len(chunk) : r.Buffer[Len(s.Buffer) + i] = chunk[i]
    BY <1>5, <1>6, <1>7, ListConcat DEF IsList, Sockets
  <2> HIDE DEF rest
  <2>5. \A i \in 1 .. Len(r.Buffer) : r.Buffer[i] = rest[i]
    <3> SUFFICES ASSUME NEW i \in 1 .. Len(r.Buffer) PROVE r.Buffer[i] = rest[i]
      OBVIOUS
    <3>1. rest[i] = all[n + i]
      BY <1>3, <2>1, <2>3, <2>4
    <3>2. CASE i \in 1 .. Len(s.Buffer)
      <4>1. n + i \in 1 .. Len(stream)
        BY <1>3, <2>1, <3>2
      <4> QED
        BY <1>3, <2>1, <2>4, <3>1, <3>2, <4>1
    <3>3. CASE i \notin 1 .. Len(s.Buffer)
      <4>1. PICK j : j = i - Len(s.Buffer)
        OBVIOUS
      <4>2. PICK l : l = Len(s.Buffer)
        OBVIOUS
      <4>3. l \in Nat /\ l = Len(stream) - n /\ i \in 1 .. l + Len(chunk) /\ i \notin 1 .. l
        BY <1>3, <2>1, <2>4, <3>3, <4>2
      <4>4. j \in 1 .. Len(chunk) /\ i = l + j /\ n + i = Len(stream) + j
        BY <1>3, <4>1, <4>2, <4>3
      <4>5. r.Buffer[l + j] = chunk[j]
        BY <2>4, <4>2, <4>4
      <4>6. all[Len(stream) + j] = chunk[j]
        BY <1>3, <4>4
      <4> QED
        BY <3>1, <4>4, <4>5, <4>6
    <3> QED
      BY <3>2, <3>3
  <2>6. Len(r.Buffer) = Len(rest)
    BY <1>3, <2>1, <2>3, <2>4
  <2>7. r.Buffer = rest
    BY <2>3, <2>4, <2>5, <2>6, SeqEqual
  <2> QED
    BY <2>7 DEF rest
<1>9. n = 0 \/ all[n] = End
  BY <1>1, <1>3 DEF CutAt
<1>10. Upto(all, n) = Upto(stream, n)
  <2>1. ASSUME NEW t \in Upto(all, n) PROVE t \in Upto(stream, n)
    <3>1. PICK a \in 1 .. Len(all), b \in 1 .. Len(all) : t = <<a, b>>
      BY DEF Upto, Stretches
    <3>2. /\ a <= b /\ b < n /\ all[b + 1] = End /\ (a = 1 \/ all[a - 1] = End)
          /\ \A i \in a .. b : all[i] # End
      BY <2>1, <3>1, StretchIff
    <3>3. /\ a \in 1 .. Len(stream) /\ b \in 1 .. Len(stream) /\ b < Len(stream)
          /\ b + 1 \in 1 .. Len(stream) /\ (a # 1 => a - 1 \in 1 .. Len(stream))
          /\ \A i \in a .. b : i \in 1 .. Len(stream)
      BY <1>3, <3>2
    <3>4. /\ stream[b + 1] = End /\ (a = 1 \/ stream[a - 1] = End)
          /\ \A i \in a .. b : stream[i] # End
      BY <1>3, <3>2, <3>3
    <3> QED
      BY <3>1, <3>2, <3>3, <3>4, StretchIff
  <2>2. ASSUME NEW t \in Upto(stream, n) PROVE t \in Upto(all, n)
    <3>1. PICK a \in 1 .. Len(stream), b \in 1 .. Len(stream) : t = <<a, b>>
      BY DEF Upto, Stretches
    <3>2. /\ a <= b /\ b < n /\ b < Len(stream)
          /\ stream[b + 1] = End /\ (a = 1 \/ stream[a - 1] = End)
          /\ \A i \in a .. b : stream[i] # End
      BY <2>2, <3>1, StretchIff
    <3>3. /\ a \in 1 .. Len(all) /\ b \in 1 .. Len(all) /\ b < Len(all)
          /\ b + 1 \in 1 .. Len(stream) /\ (a # 1 => a - 1 \in 1 .. Len(stream))
          /\ \A i \in a .. b : i \in 1 .. Len(stream)
      BY <1>3, <3>2
    <3>4. /\ all[b + 1] = End /\ (a = 1 \/ all[a - 1] = End)
          /\ \A i \in a .. b : all[i] # End
      BY <1>3, <3>2, <3>3
    <3> QED
      BY <3>1, <3>2, <3>3, <3>4, StretchIff
  <2> QED
    BY <2>1, <2>2
<1>11. AreLinesUpto(r.lines, all, n)
  <2>1. r.lines = s.lines /\ AreLinesUpto(s.lines, stream, n)
    BY <1>1, <1>5 DEF CutAt
  <2>2. PICK nth \in [1 .. Len(s.lines) -> Upto(stream, n)] :
          /\ \A t \in Upto(stream, n) : \E k \in 1 .. Len(s.lines) : nth[k] = t
          /\ \A j, k \in 1 .. Len(s.lines) : j < k => nth[j][2] < nth[k][1]
          /\ \A k \in 1 .. Len(s.lines) : s.lines[k] = SubSeq(stream, nth[k][1], nth[k][2])
    BY <2>1 DEF AreLinesUpto
  <2>3. \A k \in 1 .. Len(s.lines) : s.lines[k] = SubSeq(all, nth[k][1], nth[k][2])
    <3> SUFFICES ASSUME NEW k \in 1 .. Len(s.lines)
                 PROVE  s.lines[k] = SubSeq(all, nth[k][1], nth[k][2])
      OBVIOUS
    <3>1. nth[k] \in Upto(stream, n)
      BY <2>2
    <3>2. nth[k][1] \in 1 .. Len(stream) /\ nth[k][2] \in 1 .. Len(stream)
      BY <3>1 DEF Upto, Stretches
    <3>3. SubSeq(all, nth[k][1], nth[k][2]) = SubSeq(stream, nth[k][1], nth[k][2])
      BY <1>2, <3>2, PartOfBeginning
    <3> QED
      BY <2>2, <3>3
  <2>4. AreLinesUpto(s.lines, all, n)
    BY <1>10, <2>2, <2>3 DEF AreLinesUpto
  <2> QED
    BY <2>1, <2>4
<1>12. n \in 0 .. Len(all)
  BY <1>3
<1> QED
  BY <1>2, <1>7, <1>8, <1>9, <1>11, <1>12 DEF CutAt, Framed

\* Once no line end is left in Buffer, all lines of the stream have been cut.
LEMMA AllLinesCut ==
    ASSUME NEW S, NEW stream \in Seq(S), NEW n \in 0 .. Len(stream),
           \A i \in n + 1 .. Len(stream) : stream[i] # End
    PROVE  Upto(stream, n) = Stretches(stream)
<1>1. ASSUME NEW t \in Stretches(stream) PROVE t[2] < n
  <2>1. t[2] \in 1 .. Len(stream) /\ t[2] < Len(stream) /\ stream[t[2] + 1] = End
    BY DEF Stretches
  <2>2. t[2] + 1 \notin n + 1 .. Len(stream)
    BY <2>1
  <2> QED
    BY <2>1, <2>2
<1> QED
  BY <1>1 DEF Upto

\* The commands of a user are the lines it sent, wherever the network cuts the
\* stream, for every stream and every cut (ClientSocket.cpp:55-81): as long as
\* the bytes hold no NUL.
THEOREM LinesAsSent ==
    ASSUME NEW chunks \in Seq(Seq(Bytes)),
           \A k \in 1 .. Len(chunks) : \A i \in 1 .. Len(chunks[k]) : chunks[k][i] # Nul
    PROVE  CutAnywhere(chunks)
<1> DEFINE S == Bytes
           n == Len(chunks)
           Fed(s, k) == [s EXCEPT !.Buffer = ReadChunk(@, chunks[k])]
           V == {v \in Sockets(S) : /\ ~HasEnd(v.Buffer)
                                    /\ \E stream \in Seq(S) : Framed(v, stream)}
           step == [k \in 1 .. n |-> [v \in V |-> ReadLines(Fed(v, k))]]
           after[k \in 0 .. n] ==
               IF k = 0 THEN NothingRead
               ELSE ReadLines([after[k - 1] EXCEPT !.Buffer = ReadChunk(@, chunks[k])])
<1>1. n \in Nat /\ \A k \in 1 .. n : chunks[k] \in Seq(S)
  OBVIOUS
<1>2. Received(chunks) = after[n]
  BY DEF Received
\* A chunk more, and all lines read, with whatever stream is behind it.
<1>3. ASSUME NEW k \in 1 .. n, NEW v \in Sockets(S), NEW stream \in Seq(S), Framed(v, stream)
      PROVE  /\ ReadLines(Fed(v, k)) \in Sockets(S)
             /\ ~HasEnd(ReadLines(Fed(v, k)).Buffer)
             /\ stream \o chunks[k] \in Seq(S)
             /\ Framed(ReadLines(Fed(v, k)), stream \o chunks[k])
  <2>1. PICK r : r = Fed(v, k)
    OBVIOUS
  <2>2. PICK chunk \in Seq(S) : chunk = chunks[k]
    BY <1>1
  <2>3. \A i \in 1 .. Len(chunk) : chunk[i] # Nul
    BY <2>2
  <2>4. r = [v EXCEPT !.Buffer = ReadChunk(@, chunk)]
    BY <2>1, <2>2
  <2> HIDE DEF S, Fed
  <2>5. r \in Sockets(S) /\ Framed(r, stream \o chunk)
    BY <1>3, <2>3, <2>4, ChunkKeepsFramed
  <2>6. stream \o chunk \in Seq(S)
    BY ConcatProperties
  <2>7. /\ ReadLines(r) \in Sockets(S) /\ Framed(ReadLines(r), stream \o chunk)
        /\ ~HasEnd(ReadLines(r).Buffer)
    BY <2>5, <2>6, ReadLinesFramed
  <2> QED
    BY <2>1, <2>2, <2>6, <2>7
<1>4. /\ NothingRead \in Sockets(S) /\ Framed(NothingRead, << >>)
      /\ ~HasEnd(NothingRead.Buffer) /\ << >> \in Seq(S)
  <2>1. << >> \in Seq(S) /\ << >> \in Seq(Seq(S)) /\ Len(<< >>) = 0
    OBVIOUS
  <2>2. SubSeq(<< >>, 1, 0) = << >>
    BY SubSeqEmpty
  <2>3. AreLinesUpto(<< >>, << >>, 0)
    <3>1. Upto(<< >>, 0) = {}
      BY <2>1 DEF Upto, Stretches
    <3>2. [k \in 1 .. 0 |-> 0] \in [1 .. Len(<< >>) -> Upto(<< >>, 0)]
      BY <2>1
    <3> QED
      BY <2>1, <3>1, <3>2 DEF AreLinesUpto
  <2>4. CutAt(NothingRead, << >>, 0)
    BY <2>1, <2>2, <2>3 DEF CutAt, NothingRead
  <2> HIDE DEF S
  <2> QED
    BY <2>1, <2>4 DEF Framed, NothingRead, HasEnd, Sockets
<1> HIDE DEF S
<1>5. \A k \in 0 .. n : after[k] = IF k = 0 THEN NothingRead ELSE ReadLines(Fed(after[k - 1], k))
  <2> DEFINE Run(f) == f = [k \in 0 .. n |-> IF k = 0 THEN NothingRead ELSE ReadLines(Fed(f[k - 1], k))]
  <2>1. NothingRead \in V
    BY <1>4
  <2>2. step \in [1 .. n -> [V -> V]]
    <3>1. ASSUME NEW k \in 1 .. n, NEW v \in V PROVE ReadLines(Fed(v, k)) \in V
      <4> HIDE DEF Fed, n
      <4> QED
        BY <1>3
    <3> HIDE DEF V, Fed, n
    <3> QED
      BY <3>1
  <2>3. PICK f \in [0 .. n -> V] : IsLoop(n, NothingRead, step, f)
    <3> HIDE DEF step, V, n
    <3> QED
      BY <1>1, <2>1, <2>2, LoopRuns
  <2>4. \A k \in 0 .. n : f[k] = IF k = 0 THEN NothingRead ELSE ReadLines(Fed(f[k - 1], k))
    <3> SUFFICES ASSUME NEW k \in 0 .. n, k # 0 PROVE f[k] = ReadLines(Fed(f[k - 1], k))
      BY <2>3 DEF IsLoop
    <3>1. k \in 1 .. n /\ k - 1 \in 0 .. n
      BY <1>1
    <3>2. f[k] = step[k][f[k - 1]] /\ f[k - 1] \in V
      BY <2>3, <3>1 DEF IsLoop
    <3> HIDE DEF V, n, Fed
    <3> QED
      BY <3>1, <3>2
  <2>5. Run(f)
    <3> HIDE DEF V, n, Fed
    <3> QED
      BY <2>3, <2>4 DEF IsLoop
  <2>6. Run(after)
    <3> HIDE DEF n
    <3> QED
      BY <2>5
  <2> HIDE DEF after, n, Fed
  <2> QED
    BY <2>6
<1> HIDE DEF after, Fed
\* The stream behind the first k chunks.
<1>6. \E prefix : /\ prefix[0] = << >> /\ prefix[n] = FlattenSeq(chunks)
                  /\ \A k \in 1 .. n : prefix[k] = prefix[k - 1] \o chunks[k]
  <2>1. CASE n = 0
    <3>1. FlattenSeq(chunks) = << >>
      BY <2>1, EmptySeq DEF FlattenSeq
    <3> DEFINE prefix == [k \in {0} |-> << >>]
    <3>2. prefix[0] = << >> /\ prefix[n] = FlattenSeq(chunks)
      BY <2>1, <3>1
    <3>3. 1 .. n = {}
      BY <2>1
    <3> HIDE DEF prefix
    <3> QED
      BY <3>2, <3>3
  <2>2. CASE n # 0
    <3>1. PICK f : FlattensInto(chunks, f)
      BY <1>1, <2>2, FlattenRounds
    <3> DEFINE prefix == [k \in 0 .. n |-> IF k = 0 THEN << >> ELSE f[k]]
    <3>2. prefix[0] = << >> /\ prefix[n] = FlattenSeq(chunks)
      BY <1>1, <2>2, <3>1 DEF FlattensInto
    <3>3. ASSUME NEW k \in 1 .. n PROVE prefix[k] = prefix[k - 1] \o chunks[k]
      <4>1. f[k] = IF k = 1 THEN chunks[k] ELSE f[k - 1] \o chunks[k]
        BY <3>1 DEF FlattensInto
      <4>2. << >> \o chunks[k] = chunks[k]
        BY <1>1, ConcatEmptySeq
      <4>3. k \in 0 .. n /\ k - 1 \in 0 .. n /\ k # 0
        BY <1>1
      <4>4. CASE k = 1
        BY <4>1, <4>2, <4>3, <4>4
      <4>5. CASE k # 1
        <5>1. k - 1 # 0 /\ prefix[k] = f[k] /\ prefix[k - 1] = f[k - 1]
          BY <1>1, <4>3, <4>5
        <5> HIDE DEF prefix
        <5> QED
          BY <4>1, <4>5, <5>1
      <4> QED
        BY <4>4, <4>5
    <3> HIDE DEF prefix
    <3> QED
      BY <3>2, <3>3
  <2> QED
    BY <2>1, <2>2
<1>7. PICK prefix : /\ prefix[0] = << >> /\ prefix[n] = FlattenSeq(chunks)
                    /\ \A k \in 1 .. n : prefix[k] = prefix[k - 1] \o chunks[k]
  BY <1>6
<1> DEFINE Good(k) == /\ after[k] \in Sockets(S) /\ ~HasEnd(after[k].Buffer)
                      /\ prefix[k] \in Seq(S) /\ Framed(after[k], prefix[k])
           wrong == {k \in 0 .. n : ~Good(k)}
<1>8. Good(0)
  <2>1. after[0] = NothingRead
    BY <1>1, <1>5
  <2> QED
    BY <1>4, <1>7, <2>1
<1>9. ASSUME NEW k \in 0 .. n, k # 0, Good(k - 1) PROVE Good(k)
  <2>1. k \in 1 .. n
    BY <1>1, <1>9
  <2>2. PICK v : v = after[k - 1]
    OBVIOUS
  <2>3. PICK stream : stream = prefix[k - 1]
    OBVIOUS
  <2>4. after[k] = ReadLines(Fed(v, k)) /\ prefix[k] = stream \o chunks[k]
    BY <1>5, <1>7, <1>9, <2>1, <2>2, <2>3
  <2>5. v \in Sockets(S) /\ stream \in Seq(S) /\ Framed(v, stream)
    BY <1>9, <2>2, <2>3
  <2> QED
    BY <1>3, <2>1, <2>4, <2>5
<1>10. wrong = {}
  <2> HIDE DEF Good
  <2> SUFFICES ASSUME wrong # {} PROVE FALSE
    OBVIOUS
  <2>1. PICK k \in wrong : \A j \in wrong : k <= j
    <3>1. wrong \in SUBSET Nat
      BY <1>1
    <3> HIDE DEF wrong
    <3> QED
      BY <3>1, HasMin
  <2>2. k \in 0 .. n /\ ~Good(k)
    BY <2>1
  <2>3. k # 0
    BY <1>8, <2>2
  <2>4. k - 1 \in 0 .. n /\ ~(k <= k - 1)
    BY <1>1, <2>2, <2>3
  <2>5. Good(k - 1)
    BY <2>1, <2>4
  <2> QED
    BY <1>9, <2>2, <2>3, <2>5
<1>11. n \in 0 .. n
  BY <1>1
<1>12. Good(n)
  <2> HIDE DEF Good
  <2> QED
    BY <1>10, <1>11
<1>13. PICK stream \in Seq(S) : stream = FlattenSeq(chunks)
  BY <1>7, <1>12
<1>14. PICK r \in Sockets(S) : r = Received(chunks)
  BY <1>2, <1>12
<1>15. ~HasEnd(r.Buffer) /\ Framed(r, stream)
  BY <1>2, <1>7, <1>12, <1>13, <1>14
<1>16. PICK m \in 0 .. Len(stream) : CutAt(r, stream, m)
  BY <1>15 DEF Framed
<1>17. \A i \in m + 1 .. Len(stream) : stream[i] # End
  <2> SUFFICES ASSUME NEW i \in m + 1 .. Len(stream), stream[i] = End PROVE FALSE
    OBVIOUS
  <2>1. /\ Len(r.Buffer) = Len(stream) - m
        /\ \A j \in 1 .. Len(stream) - m : r.Buffer[j] = stream[m + j]
    BY <1>16, RestOfStream DEF CutAt
  <2>2. Len(stream) \in Nat
    OBVIOUS
  <2>3. i - m \in 1 .. Len(stream) - m /\ m + (i - m) = i
    BY <2>2
  <2>4. r.Buffer[i - m] = End
    BY <2>1, <2>3
  <2> QED
    BY <1>15, <2>1, <2>3, <2>4 DEF HasEnd
<1>18. Upto(stream, m) = Stretches(stream)
  BY <1>17, AllLinesCut
<1>19. AreLinesOf(r.lines, stream)
  BY <1>16, <1>18 DEF CutAt, AreLinesUpto, AreLinesOf
<1>20. /\ r.Buffer = SubSeq(stream, m + 1, Len(stream))
       /\ m = 0 \/ stream[m] = End
  BY <1>16 DEF CutAt
<1> QED
  BY <1>13, <1>14, <1>17, <1>19, <1>20 DEF CutAnywhere
-----------------------------------------------------------------------------
(* The lines that users send.                                              *)

LEMMA LengthenedTyped ==
    ASSUME NEW S, NEW cuts \in SUBSET Seq(Seq(S)), NEW byte \in S
    PROVE  Lengthened(cuts, byte) \in SUBSET Seq(Seq(S))
<1>1. ASSUME NEW chunks \in cuts PROVE Append(chunks, << byte >>) \in Seq(Seq(S))
  <2>1. PICK chunk \in Seq(S) : chunk = << byte >>
    <3>1. << byte >> \in Seq(S)
      OBVIOUS
    <3> QED
      BY <3>1
  <2>2. chunks \in Seq(Seq(S))
    OBVIOUS
  <2> QED
    BY <2>1, <2>2, AppendProperties
<1>2. ASSUME NEW chunks \in cuts, chunks # << >>
      PROVE  [chunks EXCEPT ![Len(chunks)] = Append(@, byte)] \in Seq(Seq(S))
  <2>1. chunks \in Seq(Seq(S)) /\ Len(chunks) \in 1 .. Len(chunks)
    BY <1>2
  <2>2. PICK chunk \in Seq(S) : chunk = chunks[Len(chunks)]
    BY <2>1
  <2>3. Append(chunk, byte) \in Seq(S)
    BY AppendProperties
  <2> QED
    BY <2>1, <2>2, <2>3
<1> QED
  BY <1>1, <1>2 DEF Lengthened

\* However a stream is cut, the chunks are made of its bytes.
LEMMA ChunkingsTyped ==
    ASSUME NEW S, NEW stream \in Seq(S)
    PROVE  Chunkings(stream) \subseteq Seq(Seq(S))
<1> DEFINE n == Len(stream)
           V == SUBSET Seq(Seq(S))
           step == [k \in 1 .. n |-> [cuts \in V |-> Lengthened(cuts, stream[k])]]
           cut[k \in 0 .. n] == IF k = 0 THEN {<< >>} ELSE Lengthened(cut[k - 1], stream[k])
           Run(f) == f = [k \in 0 .. n |->
                            IF k = 0 THEN {<< >>} ELSE Lengthened(f[k - 1], stream[k])]
<1>1. n \in Nat /\ {<< >>} \in V /\ \A k \in 1 .. n : stream[k] \in S
  OBVIOUS
<1>2. step \in [1 .. n -> [V -> V]]
  <2>1. ASSUME NEW k \in 1 .. n, NEW cuts \in V PROVE Lengthened(cuts, stream[k]) \in V
    BY <1>1, LengthenedTyped
  <2> HIDE DEF V, n
  <2> QED
    BY <2>1
<1>3. PICK f \in [0 .. n -> V] : IsLoop(n, {<< >>}, step, f)
  <2> HIDE DEF V, n, step
  <2> QED
    BY <1>1, <1>2, LoopRuns
<1> HIDE DEF V, n
\* What is a loop for the functions of V is one for the operator.
<1>4. ASSUME NEW k \in 1 .. n, NEW cuts \in V PROVE step[k][cuts] = Lengthened(cuts, stream[k])
  BY <1>4
<1> HIDE DEF step
<1>5. Run(f)
  <2>1. ASSUME NEW k \in 0 .. n, k # 0 PROVE f[k] = Lengthened(f[k - 1], stream[k])
    <3>1. k \in 1 .. n /\ k - 1 \in 0 .. n
      BY <1>1, <2>1
    <3>2. f[k] = step[k][f[k - 1]] /\ f[k - 1] \in V
      BY <1>3, <2>1, <3>1 DEF IsLoop
    <3> QED
      BY <1>4, <3>1, <3>2
  <2>2. f[0] = {<< >>}
    BY <1>1, <1>3 DEF IsLoop
  <2> QED
    BY <1>3, <2>1, <2>2
<1>6. Run(cut)
  BY <1>5
<1>7. \A k \in 0 .. n : cut[k] = IF k = 0 THEN {<< >>} ELSE Lengthened(cut[k - 1], stream[k])
  <2> HIDE DEF cut
  <2> QED
    BY <1>6
<1>8. Chunkings(stream) = UNION {cut[k] : k \in 0 .. n}
  BY DEF Chunkings, n
<1> HIDE DEF cut
<1>9. \A k \in 0 .. n : cut[k] \in V
  <2> DEFINE wrong == {k \in 0 .. n : cut[k] \notin V}
  <2> SUFFICES ASSUME wrong # {} PROVE FALSE
    OBVIOUS
  <2>1. PICK k \in wrong : \A j \in wrong : k <= j
    <3>1. wrong \in SUBSET Nat
      BY <1>1
    <3> HIDE DEF wrong
    <3> QED
      BY <3>1, HasMin
  <2>2. k \in 0 .. n /\ cut[k] \notin V
    BY <2>1
  <2>3. k # 0
    BY <1>1, <1>7, <2>2
  <2>4. k \in 1 .. n /\ k - 1 \in 0 .. n /\ ~(k <= k - 1)
    BY <1>1, <2>2, <2>3
  <2>5. cut[k - 1] \in V
    BY <2>1, <2>4
  <2>6. cut[k] = Lengthened(cut[k - 1], stream[k])
    BY <1>7, <2>2, <2>3
  <2>7. stream[k] \in S
    BY <1>1, <2>4
  <2> QED
    BY <2>2, <2>5, <2>6, <2>7, LengthenedTyped DEF V
<1> QED
  BY <1>8, <1>9 DEF V

\* The bytes of whatever lines are cut as they should be.
LEMMA LinesRight ==
    ASSUME NEW lines \in Seq(Lines), NEW chunks \in Chunkings(Stream(lines))
    PROVE  CutAnywhere(chunks)
<1> DEFINE S == {Text, End}
<1>1. Stream(lines) \in Seq(S)
  <2> DEFINE bytes == [i \in 1 .. Len(lines) |-> Written[lines[i]]]
  <2>1. \A i \in 1 .. Len(lines) : Written[lines[i]] \in Seq(S)
    BY WireAssumption
  <2>2. bytes \in Seq(Seq(S))
    <3> HIDE DEF S
    <3> QED
      BY <2>1
  <2> HIDE DEF bytes, S
  <2>3. FlattenSeq(bytes) \in Seq(S)
    BY <2>2, FlattenTyped
  <2> QED
    BY <2>3 DEF Stream, bytes
<1>2. chunks \in Seq(Seq(S))
  <2> HIDE DEF S
  <2> QED
    BY <1>1, ChunkingsTyped
<1>3. \A k \in 1 .. Len(chunks) : \A i \in 1 .. Len(chunks[k]) : chunks[k][i] # Nul
  <2> SUFFICES ASSUME NEW k \in 1 .. Len(chunks), NEW i \in 1 .. Len(chunks[k])
               PROVE  chunks[k][i] # Nul
    OBVIOUS
  <2>1. chunks[k] \in Seq(S)
    <3> HIDE DEF S
    <3> QED
      BY <1>2, ElementOfSeq
  <2>2. chunks[k][i] \in S
    <3> HIDE DEF S
    <3> QED
      BY <2>1, ElementOfSeq
  <2> QED
    BY <2>2, WireAssumption
<1>4. chunks \in Seq(Seq(Bytes))
  <2>1. S \subseteq Bytes
    BY DEF Bytes
  <2> HIDE DEF S
  <2>2. Seq(S) \subseteq Seq(Bytes)
    BY <2>1, SeqMonotonic
  <2> QED
    BY <1>2, <2>2, SeqMonotonic
<1> QED
  BY <1>3, <1>4, LinesAsSent

\* The bound on what a user sends.
SentBounded == \A c \in Conns : Len(sent[c]) <= MaxLines[c]

LEMMA SentStep == TcpInv /\ SentBounded /\ [TcpNext]_tcpVars => SentBounded'
<1> SUFFICES ASSUME TcpInv, SentBounded, [TcpNext]_tcpVars PROVE SentBounded'
  OBVIOUS
<1>1. sent \in [Conns -> Seq(Lines)] /\ MaxLines \in [Conns -> Nat]
  BY TcpAssumption DEF TcpInv, TcpTypeOK
<1>2. CASE sent' = sent
  BY <1>2 DEF SentBounded
<1>3. ASSUME NEW c \in Conns, NEW line \in Lines, PeerSend(c, line) PROVE SentBounded'
  <2>1. /\ Len(sent[c]) < MaxLines[c] /\ sent' = [sent EXCEPT ![c] = Append(@, line)]
        /\ sent[c] \in Seq(Lines)
    BY <1>1, <1>3 DEF PeerSend
  <2>2. Len(sent'[c]) <= MaxLines[c]
    BY <1>1, <2>1
  <2>3. \A d \in Conns \ {c} : sent'[d] = sent[d]
    BY <1>1, <2>1
  <2> QED
    BY <2>2, <2>3 DEF SentBounded
<1>4. CASE TcpNext
  <2>1. ASSUME NEW c \in Conns, Peer(c) PROVE SentBounded'
    BY <1>2, <1>3, <2>1 DEF Peer, Connect, PeerClose, PeerAbort
  <2>2. ASSUME NEW c \in Conns, TakeLine(c) PROVE sent' = sent
    BY <2>2 DEF TakeLine, peerVars
  <2>3. ASSUME NEW to \in SUBSET Conns, NEW k \in 0 .. 2, SendAll(to, k) PROVE sent' = sent
    BY <2>3 DEF SendAll
  <2>4. ASSUME Listen \/ Visit \/ Listened PROVE sent' = sent
    BY <2>4 DEF Listen, Accept, Visit, Listened, peerVars
  <2> QED
    BY <1>2, <1>4, <2>1, <2>2, <2>3, <2>4 DEF TcpNext
<1> QED
  BY <1>2, <1>4 DEF tcpVars, peerVars

\* Whatever lines there are and however they are written, wherever the network
\* cuts the bytes of what any user has sent, ClientSocket cuts them back into
\* lines.
THEOREM TcpLinesCutAnywhere == TcpSpec => []LinesCutAnywhere
<1>1. TcpInit => SentBounded
  BY TcpAssumption DEF TcpInit, SentBounded
<1>2. TcpInv /\ SentBounded /\ [TcpNext]_tcpVars => SentBounded'
  BY SentStep
<1>3. TcpInv /\ SentBounded => LinesCutAnywhere
  <2> SUFFICES ASSUME TcpInv, SentBounded, NEW c \in Conns
               PROVE  << sent[c], TRUE >> \in FramedRight
    BY DEF LinesCutAnywhere
  <2>1. sent[c] \in Seq(Lines) /\ Len(sent[c]) \in 0 .. MaxLines[c]
    BY TcpAssumption DEF TcpInv, TcpTypeOK, SentBounded
  <2>2. sent[c] \in BoundedSeq(Lines, MaxLines[c])
    <3>1. sent[c] \in [1 .. Len(sent[c]) -> Lines]
      BY <2>1
    <3> QED
      BY <2>1, <3>1 DEF BoundedSeq, SeqOf
  <2>3. \A chunks \in Chunkings(Stream(sent[c])) : CutAnywhere(chunks)
    BY <2>1, LinesRight
  <2>4. (\A chunks \in Chunkings(Stream(sent[c])) : CutAnywhere(chunks)) = TRUE
    BY <2>3
  <2>5. sent[c] \in UNION {BoundedSeq(Lines, MaxLines[d]) : d \in Conns}
    BY <2>2
  <2> QED
    BY <2>4, <2>5 DEF FramedRight
<1> QED
  BY <1>1, <1>2, <1>3, TcpInvariant, PTL DEF TcpSpec
=============================================================================
