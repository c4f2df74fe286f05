------------------------- MODULE SubProtocolProofs -------------------------
(***************************************************************************)
(* Proofs about SubProtocol, for any users, descriptors, modules, reports  *)
(* and lines: it uses the server as TcpServer allows, its types, the       *)
(* agreement of the two client lists, and that no line is lost, doubled or *)
(* stranded in the Buffer of a closed socket.                              *)
(*                                                                         *)
(* The last one rests on where lines can be at all: outside the read loop  *)
(* of Listen() and the loop over the clients that follows it every Buffer  *)
(* is empty, and in these two no socket with a filled Buffer closes        *)
(* (Buffered).  This in turn needs that the loop visits each client once   *)
(* (TcpInv) and only clients of the server's list (Ahead), and that the    *)
(* two lists agree, so that every filled Buffer is read.                   *)
(*                                                                         *)
(* The second half maps the sockets, lists and cycles to the mail service  *)
(* of module Mail, seen by one user, and shows step by step that they      *)
(* implement it (PostInv, SubIsMail); and it shows that no list of clients *)
(* a user holds lacks one who is connected (SubEveryoneKnown).             *)
(***************************************************************************)
EXTENDS SubProtocol, TcpServerProofs, CommonLemmas

\* The lists, whether or not the process is alive.
Agreement ==
    /\ listening => pc = "listen"
    /\ pc # "listen" => srvClients = Clients
    /\ pc = "listen" /\ ~listening => Clients = Prune(srvClients)
    /\ listening => srvClients = Clients \o accepted

\* The read loop has only clients of the server before it.
Ahead == \A c \in Conns : Holds(unvisited, c) => Holds(srvClients, c)

\* Where a Buffer can hold lines, and of whom.
Buffered ==
    \A c \in Conns : buffer[c] # << >> =>
        /\ isConnected(c)
        /\ \/ listening /\ Holds(srvClients, c) /\ ~Holds(unvisited, c)
           \/ pc = "lines" /\ Holds(Clients, c)

\* The types, but for those of the messages, so that what is proved of the
\* protocol holds whatever the tasks of the modules report.
CoreTypeOK ==
    /\ Clients \in Seq(Conns)
    /\ DOMAIN que = Modules
    /\ \A m \in Modules : IsQueue(que[m], m, Lines)
    /\ perm \in BOOLEAN
    /\ pc \in {"main", "listen", "lines", "finish"}
    /\ heard \in [Conns -> Seq(Lines)]

CoreInv ==
    /\ TcpInv
    /\ CoreTypeOK
    /\ Agreement
    /\ Ahead
    /\ Buffered
    /\ LinesConserved

MessagesTyped ==
    /\ \A m \in Modules : que[m].TxMsgs \in Seq(Messages)
    /\ view \in [Conns -> SUBSET Messages]

SubInv == CoreInv /\ MessagesTyped

-----------------------------------------------------------------------------
(* Sequences and queues.                                                   *)

LEMMA AppendHeadTail ==
    ASSUME NEW S, NEW s \in Seq(S), NEW t \in Seq(S), t # << >>
    PROVE  /\ Append(s, Head(t)) \in Seq(S)
           /\ Tail(t) \in Seq(S)
           /\ Append(s, Head(t)) \o Tail(t) = s \o t
<1>1. Head(t) \in S /\ Tail(t) \in Seq(S) /\ << Head(t) >> \in Seq(S)
  BY HeadTailProperties
<1>2. Append(s, Head(t)) = s \o << Head(t) >>
  BY <1>1, AppendIsConcat
<1>3. << Head(t) >> \o Tail(t) = t
  <2>1. /\ << Head(t) >> \o Tail(t) \in Seq(S)
        /\ Len(<< Head(t) >> \o Tail(t)) = 1 + Len(Tail(t))
        /\ \A i \in 1 .. 1 + Len(Tail(t)) : (<< Head(t) >> \o Tail(t))[i] =
             IF i <= 1 THEN << Head(t) >>[i] ELSE Tail(t)[i - 1]
    BY <1>1, ConcatProperties
  <2>2. /\ Len(t) \in Nat /\ Len(Tail(t)) = Len(t) - 1
        /\ \A i \in 1 .. Len(Tail(t)) : Tail(t)[i] = t[i + 1]
        /\ Head(t) = t[1]
    BY HeadTailProperties
  <2>3. \A i \in 1 .. Len(t) : (<< Head(t) >> \o Tail(t))[i] = t[i]
    <3> SUFFICES ASSUME NEW i \in 1 .. Len(t)
                 PROVE  (<< Head(t) >> \o Tail(t))[i] = t[i]
      OBVIOUS
    <3>1. CASE i = 1
      BY <2>1, <2>2, <3>1
    <3>2. CASE i # 1
      <4>1. i - 1 \in 1 .. Len(Tail(t)) /\ i \in 1 .. 1 + Len(Tail(t)) /\ ~(i <= 1)
        BY <2>2, <3>2
      <4>2. Tail(t)[i - 1] = t[(i - 1) + 1] /\ (i - 1) + 1 = i
        BY <2>2, <4>1
      <4>3. QED
        BY <2>1, <4>1, <4>2
    <3>3. QED
      BY <3>1, <3>2
  <2>4. Len(<< Head(t) >> \o Tail(t)) = Len(t)
    BY <2>1, <2>2
  <2>5. QED
    BY <2>1, <2>3, <2>4, SeqEqual
<1>4. Append(s, Head(t)) \in Seq(S)
  BY <1>1, AppendProperties
<1>5. (s \o << Head(t) >>) \o Tail(t) = s \o (<< Head(t) >> \o Tail(t))
  BY <1>1, ConcatAssociative
<1>6. QED
  BY <1>1, <1>2, <1>3, <1>4, <1>5

-----------------------------------------------------------------------------
(* Types of the queues and of the messages.                                *)

LEMMA QueuesTyped ==
    ASSUME NEW m, NEW q, IsQueue(q, m, Lines)
    PROVE  /\ IsQueue(SetBroadcast(q), m, Lines)
           /\ IsQueue(IsBroadcastDone(q), m, Lines)
           /\ IsQueue(ReceiveAll(q), m, Lines)
           /\ IsQueue(GetAllMsgs(q), m, Lines)
           /\ \A line \in Lines : IsQueue(Store(q, line), m, Lines)
           /\ \A r, d : IsQueue(Send(q, r, d), m, Lines)
BY DEF IsQueue, QueueFields, SetBroadcast, IsBroadcastDone, ReceiveAll, GetAllMsgs,
   Store, Send

\* The reports that wait, of whatever set S they are.
LEMMA WaitingKept ==
    ASSUME NEW m, NEW q, IsQueue(q, m, Lines), NEW S, q.TxMsgs \in Seq(S)
    PROVE  /\ SetBroadcast(q).TxMsgs \in Seq(S)
           /\ IsBroadcastDone(q).TxMsgs \in Seq(S)
           /\ GetAllMsgs(q).TxMsgs \in Seq(S)
           /\ \A line \in Lines : Store(q, line).TxMsgs \in Seq(S)
           /\ \A r, d : Report(m, r, d) \in S => Send(q, r, d).TxMsgs \in Seq(S)
BY DEF IsQueue, QueueFields, SetBroadcast, IsBroadcastDone, GetAllMsgs, Store, Send

\* What the server reports of itself.
LEMMA ServerReportsTyped ==
    ASSUME Clients \in Seq(Conns)
    PROVE  Report("Server", "Version", "id") \in Messages
           /\ Report("Server", "Clients", Clients) \in Messages
BY DEF Report, Messages, ServerReports

\* The messages of all queues in one list.
LEMMA WaitingTyped ==
    ASSUME \A m \in Modules : que[m].TxMsgs \in Seq(Messages)
    PROVE  Waiting \in Seq(Messages)
<1> DEFINE lists == [i \in 1 .. Len(ModList) |-> que[ModList[i]].TxMsgs]
<1>1. Len(ModList) \in Nat /\ \A i \in 1 .. Len(ModList) : ModList[i] \in Modules
  BY SubAssumption
<1>2. lists \in Seq(Seq(Messages))
  <2>1. \A i \in 1 .. Len(ModList) : lists[i] \in Seq(Messages)
    BY <1>1
  <2>2. lists \in [1 .. Len(ModList) -> Seq(Messages)]
    BY <2>1
  <2> HIDE DEF lists
  <2>3. QED
    BY <1>1, <2>2
<1> HIDE DEF lists
<1>3. FlattenSeq(lists) \in Seq(Messages)
  BY <1>2, FlattenTyped
<1>4. QED
  BY <1>3 DEF Waiting, lists

LEMMA HeardTyped ==
    ASSUME NEW known \in SUBSET Messages, NEW msgs \in Seq(Messages)
    PROVE  Heard(known, msgs) \subseteq Messages
<1>1. \A i \in 1 .. Len(msgs) : msgs[i] \in Messages
  OBVIOUS
<1>2. QED
  BY <1>1 DEF Heard

-----------------------------------------------------------------------------
(* The server is used as its module allows.                                *)

\* Sending more than two messages closes the same sockets as sending two.
LEMMA SendAllAtMostTwo ==
    ASSUME NEW to, NEW k, SendAll(to, k)
    PROVE  \E j \in 0 .. 2 : SendAll(to, j)
<1>1. CASE ~(k > 0)
  <2>1. SendAll(to, 0)
    BY <1>1 DEF SendAll
  <2>2. QED
    BY <2>1
<1>2. CASE k > 0 /\ ~(k > 1)
  <2>1. SendAll(to, 1)
    BY <1>2 DEF SendAll
  <2>2. QED
    BY <2>1
<1>3. CASE k > 0 /\ k > 1
  <2>1. SendAll(to, 2)
    BY <1>3 DEF SendAll
  <2>2. QED
    BY <2>1
<1>4. QED
  BY <1>1, <1>2, <1>3

\* Every step of the protocol is one of the server, or leaves it alone.
LEMMA StepOfServer ==
    ASSUME Clients \in Seq(Conns), [Next]_vars
    PROVE  [TcpNext]_tcpVars
<1>1. CASE RunBegin
  BY <1>1 DEF RunBegin
<1>2. CASE CallListen
  BY <1>2 DEF CallListen, TcpNext
<1>3. CASE Returned
  BY <1>3 DEF Returned, TcpNext
<1>4. CASE ReadLine
  <2>1. PICK i \in 1 .. Len(Clients) : TakeLine(Clients[i])
    BY <1>4 DEF ReadLine
  <2>2. Clients[i] \in Conns
    BY <2>1
  <2>3. QED
    BY <2>1, <2>2 DEF TcpNext
<1>5. CASE SendUpdatedData
  <2>1. SendAll(Range(Clients), Len(Waiting))
    BY <1>5 DEF SendUpdatedData
  <2>2. PICK j \in 0 .. 2 : SendAll(Range(Clients), j)
    BY <2>1, SendAllAtMostTwo
  <2>3. Range(Clients) \in SUBSET Conns
    BY DEF Range
  <2>4. QED
    BY <2>2, <2>3 DEF TcpNext
<1>6. CASE RunEnd
  BY <1>6 DEF RunEnd
<1>7. ASSUME NEW m \in Modules, Task(m) PROVE UNCHANGED tcpVars
  BY <1>7 DEF Task
<1>8. CASE World
  BY <1>8 DEF World, TcpNext
<1>9. CASE UNCHANGED vars
  BY <1>9 DEF vars
<1>10. QED
  BY <1>1, <1>2, <1>3, <1>4, <1>5, <1>6, <1>7, <1>8, <1>9 DEF Next, Run
-----------------------------------------------------------------------------
(* Steps.  TcpInv' follows from StepOfServer for all of them; what is left *)
(* is the protocol's own part.                                             *)

OwnInv == CoreTypeOK /\ Agreement /\ Ahead /\ Buffered /\ LinesConserved

\* Outside the two loops that fill and empty the Buffers they are empty.
LEMMA BuffersEmpty ==
    ASSUME Buffered, ~listening, pc # "lines"
    PROVE  \A c \in Conns : buffer[c] = << >>
BY DEF Buffered

LEMMA RunBeginStep ==
    ASSUME CoreInv, RunBegin
    PROVE  OwnInv'
<1>1. /\ pc = "main" /\ pc' = "listen" /\ Clients' = Prune(Clients)
      /\ UNCHANGED << tcpVars, que, perm, heard, view >>
  BY DEF RunBegin
<1>2. UNCHANGED << file, srvClients, listening, unvisited, accepted, buffer, inbox, sent >>
  BY <1>1 DEF tcpVars, peerVars, sockVars, srvVars
<1>3. srvClients = Clients /\ ~listening /\ srvClients \in Seq(Conns)
  BY <1>1 DEF CoreInv, Agreement, TcpInv, TcpTypeOK
<1>4. Prune(srvClients) \in Seq(Conns)
  BY <1>3, PruneElements DEF CoreInv, TcpInv
<1>5. CoreTypeOK'
  BY <1>1, <1>3, <1>4 DEF CoreInv, CoreTypeOK
<1>6. Prune(srvClients)' = Prune(srvClients)
  BY <1>2 DEF Prune, FirstDead, isConnected
<1>7. Agreement'
  BY <1>1, <1>2, <1>3, <1>6 DEF Agreement
<1>8. Ahead'
  BY <1>2 DEF CoreInv, Ahead, Holds
<1>9. \A c \in Conns : buffer'[c] = << >>
  BY <1>1, <1>2, <1>3, BuffersEmpty DEF CoreInv
<1>10. Buffered'
  BY <1>9 DEF Buffered
<1>11. LinesConserved'
  BY <1>1, <1>2 DEF CoreInv, LinesConserved, isConnected
<1>12. QED
  BY <1>5, <1>7, <1>8, <1>10, <1>11 DEF OwnInv

LEMMA ListenStep ==
    ASSUME CoreInv, CallListen, Listen
    PROVE  OwnInv'
<1> DEFINE kept == Prune(srvClients)
<1>1. /\ pc = "listen" /\ UNCHANGED subVars /\ ~listening /\ listening' = TRUE
      /\ unvisited' = srvClients' /\ Accept(kept)
      /\ UNCHANGED << peer, inbox, sent, buffer, alive >>
  BY DEF CallListen, Listen
<1>2. UNCHANGED << Clients, que, perm, pc, heard, view >>
  BY <1>1 DEF subVars
<1>3. CoreTypeOK'
  BY <1>2 DEF CoreInv, CoreTypeOK
<1>4. kept = Clients /\ Clients \in Seq(Conns) /\ srvClients \in Seq(Conns)
  BY <1>1 DEF CoreInv, Agreement, CoreTypeOK, TcpInv, TcpTypeOK
<1> HIDE DEF kept
<1>5. srvClients' = Clients \o accepted'
  <2>1. CASE CanAccept(kept)
    <3>1. srvClients' = Append(kept, Head(backlog)) /\ accepted' = << Head(backlog) >>
      BY <1>1, <2>1 DEF Accept
    <3>2. Head(backlog) \in Conns
      BY <2>1, HeadTailProperties DEF CoreInv, TcpInv, TcpTypeOK, CanAccept
    <3>3. QED
      BY <1>4, <3>1, <3>2, AppendIsConcat
  <2>2. CASE ~CanAccept(kept)
    <3>1. srvClients' = kept /\ accepted' = << >>
      BY <1>1, <2>2 DEF Accept
    <3>2. QED
      BY <1>4, <3>1, ConcatEmptySeq
  <2>3. QED
    BY <2>1, <2>2
<1>6. Agreement'
  BY <1>1, <1>2, <1>5 DEF Agreement
<1>7. Ahead'
  BY <1>1 DEF Ahead, Holds
<1>8. \A c \in Conns : buffer'[c] = << >>
  BY <1>1, BuffersEmpty DEF CoreInv
<1>9. Buffered'
  BY <1>8 DEF Buffered
<1>10. LinesConserved'
  BY <1>1, <1>2, <1>8 DEF CoreInv, LinesConserved
<1>11. QED
  BY <1>3, <1>6, <1>7, <1>9, <1>10 DEF OwnInv

LEMMA LinesAssociative ==
    \A s, t, u \in Seq(Lines) : (s \o t) \o u = s \o (t \o u)
BY ConcatAssociative

LEMMA LinesAppend ==
    \A s, t \in Seq(Lines), line \in Lines : Append(s \o t, line) = s \o Append(t, line)
<1> SUFFICES ASSUME NEW s \in Seq(Lines), NEW t \in Seq(Lines), NEW line \in Lines
             PROVE  Append(s \o t, line) = s \o Append(t, line)
  OBVIOUS
<1>1. << line >> \in Seq(Lines) /\ s \o t \in Seq(Lines)
  BY ConcatProperties
<1>2. Append(s \o t, line) = (s \o t) \o << line >> /\ Append(t, line) = t \o << line >>
  BY <1>1, AppendIsConcat
<1>3. QED
  BY <1>1, <1>2, LinesAssociative

\* What a read moves from the kernel to the Buffer of c, and when c closes.
LEMMA ReadDataConserves ==
    ASSUME TcpTypeOK, NEW c \in Conns, ReadData(c)
    PROVE  /\ \A d \in Conns \ {c} : buffer'[d] = buffer[d] /\ inbox'[d] = inbox[d]
           /\ buffer'[c] \o inbox'[c] = buffer[c] \o inbox[c]
           /\ \A d \in Conns \ {c} : file'[d] = file[d]
           /\ \/ file'[c] = file[c]
              \/ buffer'[c] = buffer[c]
<1>1. CASE inbox[c] # << >>
  <2>1. inbox[c] \in Seq(Lines) /\ buffer[c] \in Seq(Lines) /\ Len(inbox[c]) \in Nat
    BY DEF TcpTypeOK
  <2>2. PICK n \in 1 .. Len(inbox[c]) :
          /\ buffer' = [buffer EXCEPT ![c] = @ \o SubSeq(inbox[c], 1, n)]
          /\ inbox' = [inbox EXCEPT ![c] = SubSeq(@, n + 1, Len(@))]
    BY <1>1 DEF ReadData
  <2>3. file' = file
    BY <1>1 DEF ReadData
  <2> DEFINE front == SubSeq(inbox[c], 1, n)
             back == SubSeq(inbox[c], n + 1, Len(inbox[c]))
  <2>4. \A i \in 1 .. Len(inbox[c]) : inbox[c][i] \in Lines
    BY <2>1, ElementOfSeq
  <2>5. front \in Seq(Lines) /\ back \in Seq(Lines)
    BY <2>1, <2>4, SubSeqProperties
  <2>6. front \o back = inbox[c]
    <3>1. 1 \in 1 .. Len(inbox[c]) + 1 /\ n \in 1 - 1 .. Len(inbox[c])
          /\ Len(inbox[c]) \in n .. Len(inbox[c])
      BY <2>1
    <3>2. front \o back = SubSeq(inbox[c], 1, Len(inbox[c]))
      BY <2>1, <3>1, ConcatAdjacentSubSeq
    <3>3. QED
      BY <2>1, <3>2, SubSeqFull
  <2>7. buffer'[c] = buffer[c] \o front /\ inbox'[c] = back
    BY <2>2 DEF TcpTypeOK
  <2> HIDE DEF front, back
  <2>8. (buffer[c] \o front) \o back = buffer[c] \o (front \o back)
    BY <2>1, <2>5, LinesAssociative
  <2>9. \A d \in Conns \ {c} : buffer'[d] = buffer[d] /\ inbox'[d] = inbox[d]
    BY <2>2 DEF TcpTypeOK
  <2>10. QED
    BY <2>3, <2>6, <2>7, <2>8, <2>9
<1>2. CASE inbox[c] = << >>
  BY <1>2 DEF ReadData, CloseSocket, TcpTypeOK
<1>3. QED
  BY <1>1, <1>2

LEMMA VisitStep ==
    ASSUME CoreInv, CallListen, Visit
    PROVE  OwnInv'
<1>1. /\ pc = "listen" /\ UNCHANGED subVars /\ alive /\ listening
      /\ unvisited # << >> /\ unvisited' = Tail(unvisited)
      /\ UNCHANGED << peer, backlog, sent, srvClients, listening, readfs, accepted, alive >>
  BY DEF CallListen, Visit
<1>2. UNCHANGED << Clients, que, perm, pc, heard, view >>
  BY <1>1 DEF subVars
<1>3. CoreTypeOK' /\ Agreement'
  BY <1>1, <1>2 DEF CoreInv, CoreTypeOK, Agreement
<1>0. PICK c \in Conns : c = Head(unvisited)
  BY <1>1, TailElements DEF CoreInv, TcpInv, TcpTypeOK
<1>4. /\ c \in Conns
      /\ Holds(unvisited, c)
      /\ ~Holds(unvisited', c)
      /\ \A d \in Conns : Holds(unvisited', d) => Holds(unvisited, d)
  BY <1>0, <1>1, TailElements DEF CoreInv, TcpInv, TcpTypeOK
<1>5. Ahead'
  BY <1>1, <1>4 DEF CoreInv, Ahead, Holds
<1>6. buffer[c] = << >> /\ TcpTypeOK
  BY <1>1, <1>4 DEF CoreInv, Buffered, TcpInv
<1>7. \/ isConnected(c) /\ ReadData(c)
      \/ UNCHANGED << file, buffer, inbox >>
  BY <1>0 DEF Visit
<1>8. CASE isConnected(c) /\ ReadData(c)
  <2>1. /\ \A d \in Conns \ {c} : buffer'[d] = buffer[d] /\ inbox'[d] = inbox[d]
        /\ buffer'[c] \o inbox'[c] = buffer[c] \o inbox[c]
        /\ \A d \in Conns \ {c} : file'[d] = file[d]
        /\ file'[c] = file[c] \/ buffer'[c] = << >>
    BY <1>4, <1>6, <1>8, ReadDataConserves
  <2>2. ASSUME NEW d \in Conns
        PROVE  /\ buffer'[d] # << >> => /\ isConnected(d)'
                                        /\ Holds(srvClients, d)
                                        /\ ~Holds(unvisited', d)
               /\ sent'[d] = heard'[d] \o buffer'[d] \o inbox'[d]
               /\ ~isConnected(d)' => buffer'[d] = << >>
    <3>1. CASE d = c
      <4>1. Holds(srvClients, c) /\ ~Holds(unvisited', c)
        BY <1>4 DEF CoreInv, Ahead
      <4>2. sent'[c] = heard'[c] \o buffer'[c] \o inbox'[c]
        <5>1. /\ heard[c] \in Seq(Lines) /\ buffer[c] \in Seq(Lines)
              /\ inbox[c] \in Seq(Lines)
          BY <1>4, <1>6 DEF CoreInv, CoreTypeOK, TcpTypeOK
        <5>2. buffer'[c] \in Seq(Lines) /\ inbox'[c] \in Seq(Lines)
          BY <1>4, <1>6, <1>8, ReadDataEffect
        <5>3. sent[c] = heard[c] \o buffer[c] \o inbox[c]
          BY <1>4 DEF CoreInv, LinesConserved
        <5>4. (heard[c] \o buffer[c]) \o inbox[c] = heard[c] \o (buffer[c] \o inbox[c])
          BY <5>1, LinesAssociative
        <5>5. (heard[c] \o buffer'[c]) \o inbox'[c] = heard[c] \o (buffer'[c] \o inbox'[c])
          BY <5>1, <5>2, LinesAssociative
        <5>6. QED
          BY <1>1, <1>2, <2>1, <5>3, <5>4, <5>5
      <4>3. file'[c] = file[c] => isConnected(c)'
        BY <1>4, <1>8 DEF isConnected
      <4>4. QED
        BY <2>1, <3>1, <4>1, <4>2, <4>3
    <3>2. CASE d # c
      <4>1. /\ buffer'[d] = buffer[d] /\ inbox'[d] = inbox[d]
            /\ sent'[d] = sent[d] /\ heard'[d] = heard[d]
            /\ isConnected(d)' <=> isConnected(d)
        BY <1>1, <1>2, <2>1, <3>2 DEF isConnected
      <4>2. buffer[d] # << >> => Holds(srvClients, d) /\ ~Holds(unvisited, d)
        BY <1>1 DEF CoreInv, Buffered
      <4>3. QED
        BY <1>4, <4>1, <4>2 DEF CoreInv, LinesConserved, Buffered
    <3>3. QED
      BY <3>1, <3>2
  <2>3. Buffered'
    BY <1>1, <2>2 DEF Buffered, Holds
  <2>4. LinesConserved'
    BY <2>2 DEF LinesConserved
  <2>5. QED
    BY <1>3, <1>5, <2>3, <2>4 DEF OwnInv
<1>9. CASE UNCHANGED << file, buffer, inbox >>
  <2>1. LinesConserved'
    BY <1>1, <1>2, <1>9 DEF CoreInv, LinesConserved, isConnected
  <2>2. ASSUME NEW d \in Conns, buffer'[d] # << >>
        PROVE  isConnected(d)' /\ Holds(srvClients, d) /\ ~Holds(unvisited', d)
    BY <1>1, <1>4, <1>9, <2>2 DEF CoreInv, Buffered, isConnected
  <2>3. Buffered'
    BY <1>1, <2>2 DEF Buffered, Holds
  <2>4. QED
    BY <1>3, <1>5, <2>1, <2>3 DEF OwnInv
<1>10. QED
  BY <1>7, <1>8, <1>9

LEMMA ReturnedStep ==
    ASSUME CoreInv, Returned
    PROVE  OwnInv'
<1>1. /\ pc = "listen" /\ pc' = "lines" /\ listening /\ listening' = FALSE
      /\ Clients' = Clients \o accepted
      /\ que' = IF accepted # << >> THEN SetBroadcastAll ELSE que
      /\ UNCHANGED << perm, heard, view, file, buffer, inbox, sent, srvClients, unvisited >>
  BY DEF Returned, Listened, peerVars, sockVars
<1>2. Clients' = srvClients /\ srvClients \in Seq(Conns)
  BY <1>1 DEF CoreInv, Agreement, TcpInv, TcpTypeOK
<1>3. CoreTypeOK'
  <2>1. ASSUME NEW m \in Modules
        PROVE  IsQueue(que'[m], m, Lines)
    <3>1. IsQueue(que[m], m, Lines)
      BY DEF CoreInv, CoreTypeOK
    <3>2. que'[m] = SetBroadcast(que[m]) \/ que'[m] = que[m]
      BY <1>1 DEF SetBroadcastAll
    <3>3. QED
      BY <3>1, <3>2, QueuesTyped
  <2>2. DOMAIN que' = Modules
    BY <1>1 DEF CoreInv, CoreTypeOK, SetBroadcastAll
  <2>3. QED
    BY <1>1, <1>2, <2>1, <2>2 DEF CoreInv, CoreTypeOK
<1>4. Agreement' /\ Ahead'
  BY <1>1, <1>2 DEF CoreInv, Agreement, Ahead, Holds
<1>5. Buffered'
  <2>1. ASSUME NEW c \in Conns, buffer[c] # << >>
        PROVE  isConnected(c) /\ Holds(srvClients, c)
    BY <1>1, <2>1 DEF CoreInv, Buffered
  <2>2. \A c \in Conns : Holds(srvClients, c) => Holds(Clients', c)
    BY <1>2
  <2>3. QED
    BY <1>1, <2>1, <2>2 DEF Buffered, isConnected, Holds
<1>6. LinesConserved'
  BY <1>1 DEF CoreInv, LinesConserved, isConnected
<1>7. QED
  BY <1>3, <1>4, <1>5, <1>6 DEF OwnInv

LEMMA ReadLineStep ==
    ASSUME CoreInv, ReadLine
    PROVE  OwnInv'
<1>1. PICK i \in 1 .. Len(Clients) :
        /\ TakeLine(Clients[i])
        /\ ProcessLine(Head(buffer[Clients[i]]))
        /\ heard' = [heard EXCEPT ![Clients[i]] = Append(@, Head(buffer[Clients[i]]))]
  BY DEF ReadLine
<1>2. PICK c \in Conns : c = Clients[i]
  BY DEF CoreInv, CoreTypeOK
<1>3. PICK line : line = Head(buffer[c])
  OBVIOUS
<1>4. /\ pc = "lines" /\ isConnected(c) /\ buffer[c] # << >> /\ ~listening
      /\ buffer' = [buffer EXCEPT ![c] = Tail(@)]
      /\ heard' = [heard EXCEPT ![c] = Append(@, line)]
      /\ que' = [m \in Modules |-> Store(que[m], line)]
      /\ UNCHANGED << Clients, perm, pc, view, sent, inbox, file, srvClients,
                      listening, unvisited, accepted >>
  BY <1>1, <1>2, <1>3 DEF ReadLine, TakeLine, HasLine, ProcessLine, peerVars, srvVars
<1>5. /\ buffer \in [Conns -> Seq(Lines)] /\ heard \in [Conns -> Seq(Lines)]
      /\ inbox[c] \in Seq(Lines)
  BY DEF CoreInv, TcpInv, TcpTypeOK, CoreTypeOK
<1>6. line \in Lines
  BY <1>3, <1>4, <1>5, HeadTailProperties
<1>7. /\ Append(heard[c], line) \in Seq(Lines)
      /\ Tail(buffer[c]) \in Seq(Lines)
      /\ Append(heard[c], line) \o Tail(buffer[c]) = heard[c] \o buffer[c]
  BY <1>3, <1>4, <1>5, AppendHeadTail
<1>8. CoreTypeOK'
  <2>1. ASSUME NEW m \in Modules
        PROVE  IsQueue(que'[m], m, Lines)
    <3>1. IsQueue(que[m], m, Lines)
      BY DEF CoreInv, CoreTypeOK
    <3>2. que'[m] = Store(que[m], line)
      BY <1>4
    <3>3. QED
      BY <1>6, <3>1, <3>2, QueuesTyped
  <2>2. DOMAIN que' = Modules
    BY <1>4
  <2>3. heard' \in [Conns -> Seq(Lines)]
    BY <1>4, <1>5, <1>7
  <2>4. QED
    BY <1>4, <2>1, <2>2, <2>3 DEF CoreInv, CoreTypeOK
<1>9. Agreement' /\ Ahead'
  BY <1>4 DEF CoreInv, Agreement, Ahead, Holds
<1>10. Holds(Clients, c)
  BY <1>2 DEF Holds
<1>11. \A d \in Conns \ {c} : buffer'[d] = buffer[d] /\ heard'[d] = heard[d]
  BY <1>4, <1>5
<1>12. buffer'[c] = Tail(buffer[c]) /\ heard'[c] = Append(heard[c], line)
  BY <1>4, <1>5
<1>13. Buffered'
  <2>1. ASSUME NEW d \in Conns, buffer'[d] # << >>
        PROVE  isConnected(d) /\ Holds(Clients, d)
    BY <1>4, <1>10, <1>11, <2>1 DEF CoreInv, Buffered
  <2>2. QED
    BY <1>4, <2>1 DEF Buffered, isConnected, Holds
<1>14. LinesConserved'
  <2>1. ASSUME NEW d \in Conns
        PROVE  /\ sent'[d] = heard'[d] \o buffer'[d] \o inbox'[d]
               /\ ~isConnected(d)' => buffer'[d] = << >>
    <3>1. CASE d = c
      BY <1>4, <1>7, <1>12, <3>1 DEF CoreInv, LinesConserved, isConnected
    <3>2. CASE d # c
      BY <1>4, <1>11, <3>2 DEF CoreInv, LinesConserved, isConnected
    <3>3. QED
      BY <3>1, <3>2
  <2>2. QED
    BY <2>1 DEF LinesConserved
<1>15. QED
  BY <1>8, <1>9, <1>13, <1>14 DEF OwnInv

LEMMA SendUpdatedDataStep ==
    ASSUME CoreInv, SendUpdatedData
    PROVE  OwnInv'
<1>1. /\ pc = "lines" /\ pc' = "finish" /\ LinesRead
      /\ que' = [m \in Modules |-> GetAllMsgs(que[m])]
      /\ UNCHANGED << Clients, perm, heard, sent, inbox, buffer, srvClients,
                      listening, unvisited, accepted >>
  BY DEF SendUpdatedData, SendAll, srvVars
<1>2. ~listening /\ Agreement' /\ Ahead'
  BY <1>1 DEF CoreInv, Agreement, Ahead, Holds
\* All lines are read, and only clients in the list had any: a socket closed
\* by the sending leaves none behind.
<1>3. ASSUME NEW c \in Conns PROVE buffer[c] = << >>
  <2>1. buffer[c] # << >> => isConnected(c) /\ Holds(Clients, c)
    BY <1>1, <1>2 DEF CoreInv, Buffered
  <2>2. Holds(Clients, c) /\ isConnected(c) => buffer[c] = << >>
    BY <1>1 DEF LinesRead, Holds, HasLine
  <2>3. QED
    BY <2>1, <2>2
<1>4. Buffered' /\ LinesConserved'
  BY <1>1, <1>3 DEF CoreInv, Buffered, LinesConserved
<1>5. CoreTypeOK'
  <2>1. ASSUME NEW m \in Modules PROVE IsQueue(que'[m], m, Lines)
    BY <1>1, QueuesTyped DEF CoreInv, CoreTypeOK
  <2>2. DOMAIN que' = Modules
    BY <1>1
  <2>3. QED
    BY <1>1, <2>1, <2>2 DEF CoreInv, CoreTypeOK
<1>6. QED
  BY <1>2, <1>4, <1>5 DEF OwnInv

LEMMA RunEndStep ==
    ASSUME CoreInv, RunEnd
    PROVE  OwnInv'
<1>1. /\ pc = "finish" /\ pc' = "main" /\ perm' = Permitted
      /\ que' = IF que["Server"].Broadcast
                THEN [que EXCEPT !["Server"] =
                          SendClientData(SendServerId(IsBroadcastDone(@)))]
                ELSE que
      /\ UNCHANGED << Clients, heard, view, sent, inbox, buffer, file, srvClients,
                      listening, unvisited, accepted >>
  BY DEF RunEnd, tcpVars, peerVars, sockVars, srvVars
<1>2. ~listening /\ Agreement' /\ Ahead'
  BY <1>1 DEF CoreInv, Agreement, Ahead, Holds
<1>3. \A c \in Conns : buffer[c] = << >>
  BY <1>1, <1>2, BuffersEmpty DEF CoreInv
<1>4. Buffered' /\ LinesConserved'
  BY <1>1, <1>3 DEF CoreInv, Buffered, LinesConserved
<1>5. CoreTypeOK'
  <2>1. ASSUME NEW m \in Modules PROVE IsQueue(que'[m], m, Lines)
    <3>1. IsQueue(que[m], m, Lines)
      BY DEF CoreInv, CoreTypeOK
    <3>2. CASE que'[m] = que[m]
      BY <3>1, <3>2
    <3>3. CASE que'[m] # que[m]
      <4>1. que'[m] = SendClientData(SendServerId(IsBroadcastDone(que[m])))
        BY <1>1, <3>3 DEF CoreInv, CoreTypeOK
      <4>2. QED
        BY <3>1, <4>1, QueuesTyped DEF SendServerId, SendClientData
    <3>4. QED
      BY <3>2, <3>3
  <2>2. DOMAIN que' = Modules
    BY <1>1 DEF CoreInv, CoreTypeOK
  <2>3. perm' \in BOOLEAN
    BY <1>1 DEF Permitted
  <2>4. QED
    BY <1>1, <2>1, <2>2, <2>3 DEF CoreInv, CoreTypeOK
<1>6. QED
  BY <1>2, <1>4, <1>5 DEF OwnInv

\* Whatever runs between two calls of Run(), as long as it leaves queues behind.
LEMMA BetweenRuns ==
    ASSUME CoreInv, pc = "main", UNCHANGED << tcpVars, Clients, perm, pc, heard >>,
           DOMAIN que' = Modules, \A m \in Modules : IsQueue(que'[m], m, Lines)
    PROVE  CoreInv'
<1>1. UNCHANGED << sent, inbox, buffer, file, srvClients, listening, unvisited, accepted >>
  BY DEF tcpVars, peerVars, sockVars, srvVars
<1>2. Agreement' /\ Ahead' /\ Buffered' /\ LinesConserved'
  BY <1>1 DEF CoreInv, Agreement, Ahead, Buffered, LinesConserved, Holds, isConnected
<1>3. CoreTypeOK'
  BY DEF CoreInv, CoreTypeOK
<1>4. TcpInv'
  BY TcpStepInv DEF CoreInv
<1>5. QED
  BY <1>2, <1>3, <1>4 DEF CoreInv

LEMMA WorldStep ==
    ASSUME CoreInv, World
    PROVE  OwnInv'
<1>1. PICK c \in Conns : Peer(c)
  BY DEF World
<1>2. UNCHANGED << Clients, que, perm, pc, heard, view, buffer, file,
                   srvClients, listening, unvisited, accepted >>
  BY <1>1 DEF World, subVars, Peer, Connect, PeerSend, PeerClose, PeerAbort,
     sockVars, srvVars
<1>3. CoreTypeOK' /\ Agreement' /\ Ahead' /\ Buffered'
  <2>1. Prune(srvClients)' = Prune(srvClients)
    BY <1>2 DEF Prune, FirstDead, isConnected
  <2>2. Agreement'
    BY <1>2, <2>1 DEF CoreInv, Agreement
  <2>3. QED
    BY <1>2, <2>2 DEF CoreInv, CoreTypeOK, Ahead, Buffered, Holds, isConnected
<1>4. LinesConserved'
  <2>1. CASE UNCHANGED << sent, inbox >>
    BY <1>2, <2>1 DEF CoreInv, LinesConserved, isConnected
  <2>2. ASSUME NEW line \in Lines, PeerSend(c, line)
        PROVE  LinesConserved'
    <3>1. /\ sent' = [sent EXCEPT ![c] = Append(@, line)]
          /\ inbox' = [inbox EXCEPT ![c] = Append(@, line)]
      BY <2>2 DEF PeerSend
    <3>2. /\ sent \in [Conns -> Seq(Lines)] /\ inbox \in [Conns -> Seq(Lines)]
          /\ heard[c] \o buffer[c] \in Seq(Lines)
      BY ConcatProperties DEF CoreInv, CoreTypeOK, TcpInv, TcpTypeOK
    <3>3. sent[c] = heard[c] \o buffer[c] \o inbox[c]
      BY DEF CoreInv, LinesConserved
    <3>4. PICK done \in Seq(Lines) : done = heard[c] \o buffer[c]
      BY <3>2
    <3>5. Append(done \o inbox[c], line) = done \o Append(inbox[c], line)
      BY <2>2, <3>2, <3>4, LinesAppend
    <3>6. sent'[c] = heard'[c] \o buffer'[c] \o inbox'[c]
      BY <1>2, <3>1, <3>2, <3>3, <3>4, <3>5
    <3>7. \A d \in Conns \ {c} : sent'[d] = sent[d] /\ inbox'[d] = inbox[d]
      BY <3>1, <3>2
    <3>8. ASSUME NEW d \in Conns
          PROVE  sent'[d] = heard'[d] \o buffer'[d] \o inbox'[d]
      BY <1>2, <3>6, <3>7 DEF CoreInv, LinesConserved
    <3>9. QED
      BY <1>2, <3>8 DEF CoreInv, LinesConserved, isConnected
  <2>3. QED
    BY <1>1, <2>1, <2>2 DEF Peer, Connect, PeerClose, PeerAbort
<1>5. QED
  BY <1>3, <1>4 DEF OwnInv

LEMMA CoreInitInv == Init => CoreInv
<1> SUFFICES ASSUME Init PROVE CoreInv
  OBVIOUS
<1>1. TcpInv
  BY TcpInitInv DEF Init
<1>2. << >> \in Seq(Conns) /\ << >> \in Seq(Lines)
  OBVIOUS
<1>3. CoreTypeOK
  <2>1. \A m \in Modules : IsQueue(que[m], m, Lines)
    BY <1>2 DEF Init, SubInit, NewQueue, IsQueue, QueueFields
  <2>2. QED
    BY <1>2, <2>1 DEF Init, SubInit, CoreTypeOK
<1>4. Agreement /\ Ahead /\ Buffered
  BY DEF Init, TcpInit, SubInit, Agreement, Ahead, Buffered, Holds
<1>5. LinesConserved
  <2>1. << >> \o << >> \o << >> = << >>
    BY <1>2, ConcatEmptySeq
  <2>2. QED
    BY <2>1 DEF Init, TcpInit, SubInit, LinesConserved
<1>6. QED
  BY <1>1, <1>3, <1>4, <1>5 DEF CoreInv

\* Every step of Run() and of the world, whatever the tasks of the modules do
\* between two calls of Run().
LEMMA CoreStepInv ==
    ASSUME CoreInv, Run \/ World
    PROVE  CoreInv'
<1>1. TcpInv'
  BY StepOfServer, TcpStepInv DEF CoreInv, CoreTypeOK, Next
<1>2. ASSUME Run PROVE OwnInv'
  BY <1>2, RunBeginStep, ListenStep, VisitStep, ReturnedStep, ReadLineStep,
     SendUpdatedDataStep, RunEndStep DEF Run, CallListen
<1>3. ASSUME World PROVE OwnInv'
  BY <1>3, WorldStep
<1>4. QED
  BY <1>1, <1>2, <1>3 DEF CoreInv, OwnInv

LEMMA CoreStutters ==
    ASSUME CoreInv, UNCHANGED << tcpVars, Clients, que, perm, pc, heard >>
    PROVE  CoreInv'
<1>1. UNCHANGED << sent, inbox, buffer, file, srvClients, listening, unvisited, accepted >>
  BY DEF tcpVars, peerVars, sockVars, srvVars
<1>2. Prune(srvClients)' = Prune(srvClients)
  BY <1>1 DEF Prune, FirstDead, isConnected
<1>3. TcpInv'
  BY TcpStepInv DEF CoreInv
<1>4. QED
  BY <1>1, <1>2, <1>3 DEF CoreInv, CoreTypeOK, Agreement, Ahead, Buffered,
     LinesConserved, Holds, isConnected

-----------------------------------------------------------------------------
(* The tasks of the modules as SubProtocol knows them, and the messages.   *)

\* What the task of m leaves in its queue.
LEMMA TaskQueues ==
    ASSUME CoreTypeOK, NEW m \in Modules, Task(m)
    PROVE  /\ DOMAIN que' = Modules
           /\ \A n \in Modules : IsQueue(que'[n], n, Lines)
           /\ \A n \in Modules \ {m} : que'[n] = que[n]
           /\ \E r \in {<< >>} \cup {<< s >> : s \in {s \in Reports : s.Module = m}} :
                 que'[m].TxMsgs = que[m].TxMsgs \o r
<1>1. PICK q \in {que[m], ReceiveAll(que[m])}, flag \in BOOLEAN,
           r \in {<< >>} \cup {<< s >> : s \in {s \in Reports : s.Module = m}} :
         que' = [que EXCEPT ![m] = [q EXCEPT !.Broadcast = flag, !.TxMsgs = @ \o r]]
  BY DEF Task
<1>2. IsQueue(q, m, Lines) /\ q.TxMsgs = que[m].TxMsgs
  <2>1. IsQueue(que[m], m, Lines)
    BY DEF CoreTypeOK
  <2>2. IsQueue(ReceiveAll(que[m]), m, Lines)
    BY <2>1, QueuesTyped
  <2>3. ReceiveAll(que[m]).TxMsgs = que[m].TxMsgs
    BY <2>1 DEF ReceiveAll, IsQueue, QueueFields
  <2>4. QED
    BY <2>1, <2>2, <2>3
<1>3. PICK new : new = [q EXCEPT !.Broadcast = flag, !.TxMsgs = @ \o r]
  OBVIOUS
<1>4. IsQueue(new, m, Lines) /\ new.TxMsgs = q.TxMsgs \o r
  BY <1>2, <1>3 DEF IsQueue, QueueFields
<1>5. que' = [que EXCEPT ![m] = new]
  BY <1>1, <1>3
<1>6. QED
  BY <1>2, <1>4, <1>5 DEF CoreTypeOK

LEMMA MessagesStep ==
    ASSUME SubInv, [Next]_vars
    PROVE  MessagesTyped'
<1>1. /\ DOMAIN que = Modules /\ Clients \in Seq(Conns)
      /\ \A m \in Modules : IsQueue(que[m], m, Lines) /\ que[m].TxMsgs \in Seq(Messages)
      /\ view \in [Conns -> SUBSET Messages]
  BY DEF SubInv, CoreInv, CoreTypeOK, MessagesTyped
<1>2. CASE UNCHANGED << que, view >>
  BY <1>1, <1>2 DEF MessagesTyped
<1>3. CASE Returned
  <2>1. \A m \in Modules : que'[m] = SetBroadcast(que[m]) \/ que'[m] = que[m]
    BY <1>3 DEF Returned, SetBroadcastAll
  <2>2. view' = view
    BY <1>3 DEF Returned
  <2>3. QED
    BY <1>1, <2>1, <2>2, WaitingKept DEF MessagesTyped
<1>4. CASE ReadLine
  <2>1. PICK i \in 1 .. Len(Clients) : /\ HasLine(Clients[i])
                                       /\ ProcessLine(Head(buffer[Clients[i]]))
    BY <1>4 DEF ReadLine
  <2>2. PICK c \in Conns : c = Clients[i]
    BY <1>1
  <2>3. Head(buffer[c]) \in Lines
    BY <2>1, <2>2, HeadTailProperties DEF HasLine, SubInv, CoreInv, TcpInv, TcpTypeOK
  <2>4. view' = view
    BY <1>4 DEF ReadLine
  <2>5. QED
    BY <1>1, <2>1, <2>2, <2>3, <2>4, WaitingKept DEF MessagesTyped, ProcessLine
<1>5. CASE SendUpdatedData
  <2>1. Waiting \in Seq(Messages)
    BY <1>1, WaitingTyped
  <2>2. \A c \in Conns : Heard(view[c], Waiting) \subseteq Messages
    BY <1>1, <2>1, HeardTyped
  <2>3. view' \in [Conns -> SUBSET Messages]
    <3>1. view' = [c \in Conns |->
                  IF /\ c \in Watched \cap Range(Clients)
                     /\ isConnected(c) /\ peer[c] = "open"
                  THEN Heard(view[c], Waiting)
                  ELSE view[c]]
      BY <1>5 DEF SendUpdatedData
    <3>2. QED
      BY <1>1, <2>2, <3>1
  <2>4. que' = [m \in Modules |-> GetAllMsgs(que[m])]
    BY <1>5 DEF SendUpdatedData
  <2>5. QED
    BY <1>1, <2>3, <2>4, WaitingKept DEF MessagesTyped
<1>6. CASE RunEnd
  <2>1. ASSUME NEW m \in Modules, que'[m] # que[m] PROVE que'[m].TxMsgs \in Seq(Messages)
    <3>1. /\ m = "Server"
          /\ que'[m] = SendClientData(SendServerId(IsBroadcastDone(que[m])))
      BY <1>1, <1>6, <2>1 DEF RunEnd
    <3>2. PICK q : q = IsBroadcastDone(que[m])
      OBVIOUS
    <3>3. IsQueue(q, m, Lines) /\ q.TxMsgs \in Seq(Messages)
      BY <1>1, <3>2, QueuesTyped, WaitingKept
    <3>4. Report(m, "Version", "id") \in Messages /\ Report(m, "Clients", Clients) \in Messages
      BY <1>1, <3>1, ServerReportsTyped
    <3>5. PICK p : p = SendServerId(q)
      OBVIOUS
    <3>6. IsQueue(p, m, Lines) /\ p.TxMsgs \in Seq(Messages)
      BY <3>3, <3>4, <3>5, QueuesTyped, WaitingKept DEF SendServerId
    <3>7. QED
      BY <3>1, <3>2, <3>4, <3>5, <3>6, WaitingKept DEF SendClientData
  <2>2. view' = view
    BY <1>6 DEF RunEnd
  <2>3. QED
    BY <1>1, <2>1, <2>2 DEF MessagesTyped
<1>7. ASSUME NEW m \in Modules, Task(m) PROVE MessagesTyped'
  <2>1. PICK r \in {<< >>} \cup {<< s >> : s \in {s \in Reports : s.Module = m}} :
           que'[m].TxMsgs = que[m].TxMsgs \o r
    BY <1>7, TaskQueues DEF SubInv, CoreInv
  <2>2. r \in Seq(Messages)
    <3>1. << >> \in Seq(Messages) /\ \A s \in Reports : << s >> \in Seq(Messages)
      BY DEF Messages
    <3>2. QED
      BY <3>1
  <2>3. que'[m].TxMsgs \in Seq(Messages)
    BY <1>1, <2>1, <2>2, ConcatProperties
  <2>4. \A n \in Modules \ {m} : que'[n] = que[n]
    BY <1>7, TaskQueues DEF SubInv, CoreInv
  <2>5. view' = view
    BY <1>7 DEF Task
  <2>6. QED
    BY <1>1, <2>3, <2>4, <2>5 DEF MessagesTyped
<1>8. QED
  BY <1>2, <1>3, <1>4, <1>5, <1>6, <1>7
  DEF Next, Run, RunBegin, CallListen, World, subVars, vars

LEMMA SubInitInv == Init => SubInv
<1> SUFFICES ASSUME Init PROVE MessagesTyped
  BY CoreInitInv DEF SubInv
<1>1. << >> \in Seq(Messages)
  OBVIOUS
<1> QED
  BY <1>1 DEF Init, SubInit, NewQueue, MessagesTyped

LEMMA SubStepInv == SubInv /\ [Next]_vars => SubInv'
<1> SUFFICES ASSUME SubInv, [Next]_vars PROVE SubInv'
  OBVIOUS
<1>1. MessagesTyped'
  BY MessagesStep
<1>2. CASE Run \/ World
  BY <1>1, <1>2, CoreStepInv DEF SubInv
<1>3. ASSUME NEW m \in Modules, Task(m) PROVE CoreInv'
  <2>1. DOMAIN que' = Modules /\ \A n \in Modules : IsQueue(que'[n], n, Lines)
    BY <1>3, TaskQueues DEF SubInv, CoreInv
  <2>2. pc = "main" /\ UNCHANGED << tcpVars, Clients, perm, pc, heard >>
    BY <1>3 DEF Task
  <2>3. QED
    BY <2>1, <2>2, BetweenRuns DEF SubInv
<1>4. CASE UNCHANGED vars
  BY <1>1, <1>4, CoreStutters DEF SubInv, vars, subVars
<1>5. QED
  BY <1>1, <1>2, <1>3, <1>4 DEF SubInv, Next

-----------------------------------------------------------------------------
(* What the queues hold, and what the users hear of it: the queues of all  *)
(* modules are sent one after the other, so that what one of them tells    *)
(* must survive those behind it.                                           *)

\* The queue holds reports of its own module only.
Signed(q) == \E S : q.TxMsgs \in Seq(S) /\ \A s \in S : s.Module = q.Module

LEMMA SignedList ==
    ASSUME NEW q, Signed(q)
    PROVE  /\ IsList(q.TxMsgs)
           /\ \A j \in 1 .. Len(q.TxMsgs) : q.TxMsgs[j].Module = q.Module
<1>1. PICK S : q.TxMsgs \in Seq(S) /\ \A s \in S : s.Module = q.Module
  BY DEF Signed
<1>2. \A j \in 1 .. Len(q.TxMsgs) : q.TxMsgs[j] \in S
  BY <1>1, ElementOfSeq
<1> QED
  BY <1>1, <1>2 DEF IsList

\* A report that is queued is signed by the queue.
LEMMA SignedSendIf ==
    ASSUME NEW m, NEW q, IsQueue(q, m, Lines), Signed(q), NEW needed, NEW record, NEW data,
           NEW p, p = SendIf(q, needed, record, data)
    PROVE  IsQueue(p, m, Lines) /\ Signed(p)
<1>1. CASE ~needed
  BY <1>1 DEF SendIf
<1>2. CASE needed
  <2>1. PICK S : q.TxMsgs \in Seq(S) /\ \A s \in S : s.Module = q.Module
    BY DEF Signed
  <2>2. PICK x : x = Report(q.Module, record, data)
    OBVIOUS
  <2>3. x.Module = q.Module
    BY <2>2 DEF Report
  <2>4. p = [q EXCEPT !.TxMsgs = Append(@, x)]
    BY <1>2, <2>2 DEF SendIf, Send
  <2>5. p.TxMsgs = Append(q.TxMsgs, x) /\ p.Module = q.Module /\ IsQueue(p, m, Lines)
    BY <2>4 DEF IsQueue, QueueFields
  <2>6. q.TxMsgs \in Seq(S \cup {x})
    BY <2>1, SeqMonotonic
  <2>7. Append(q.TxMsgs, x) \in Seq(S \cup {x})
    BY <2>6, AppendProperties
  <2>8. \A s \in S \cup {x} : s.Module = q.Module
    BY <2>1, <2>3
  <2> QED
    BY <2>5, <2>7, <2>8 DEF Signed
<1> QED
  BY <1>1, <1>2

\* The operations that queue no report.
LEMMA SignedKept ==
    ASSUME NEW m, NEW q, IsQueue(q, m, Lines), Signed(q)
    PROVE  /\ Signed(SetBroadcast(q))
           /\ Signed(IsBroadcastDone(q))
           /\ Signed(ReceiveAll(q))
           /\ Signed(GetAllMsgs(q))
           /\ \A line : Signed(Store(q, line))
<1>1. PICK S : q.TxMsgs \in Seq(S) /\ \A s \in S : s.Module = q.Module
  BY DEF Signed
<1>2. ASSUME NEW p, p.Module = q.Module, p.TxMsgs = q.TxMsgs \/ p.TxMsgs = << >>
      PROVE  Signed(p)
  <2>1. << >> \in Seq(S)
    OBVIOUS
  <2> QED
    BY <1>1, <1>2, <2>1 DEF Signed
<1>3. /\ SetBroadcast(q).Module = q.Module /\ SetBroadcast(q).TxMsgs = q.TxMsgs
      /\ IsBroadcastDone(q).Module = q.Module /\ IsBroadcastDone(q).TxMsgs = q.TxMsgs
      /\ ReceiveAll(q).Module = q.Module /\ ReceiveAll(q).TxMsgs = q.TxMsgs
      /\ GetAllMsgs(q).Module = q.Module /\ GetAllMsgs(q).TxMsgs = << >>
  BY DEF IsQueue, QueueFields, SetBroadcast, IsBroadcastDone, ReceiveAll, GetAllMsgs
<1>4. ASSUME NEW line PROVE Store(q, line).Module = q.Module /\ Store(q, line).TxMsgs = q.TxMsgs
  BY DEF IsQueue, QueueFields, Store
<1> QED
  BY <1>2, <1>3, <1>4

\* What a user knows of a module after all queues have been sent is what the
\* queue of that module makes of what it knew.
LEMMA WaitingHeard ==
    ASSUME CoreInv, \A m \in Modules : Signed(que[m]),
           NEW known, NEW r, r.Module \in Modules
    PROVE  r \in Heard(known, Waiting) <=> r \in Heard(known, que[r.Module].TxMsgs)
<1> DEFINE lists == [i \in 1 .. Len(ModList) |-> que[ModList[i]].TxMsgs]
<1>1. Len(ModList) \in Nat /\ \A i \in 1 .. Len(ModList) : ModList[i] \in Modules
  BY SubAssumption
<1>2. Len(lists) = Len(ModList)
  <2>1. DOMAIN lists = 1 .. Len(ModList)
    OBVIOUS
  <2>2. lists \in Seq({lists[i] : i \in 1 .. Len(ModList)})
    BY <1>1
  <2> QED
    BY <1>1, <2>1, <2>2
<1>3. \A i \in 1 .. Len(ModList) : lists[i] = que[ModList[i]].TxMsgs
  OBVIOUS
<1> HIDE DEF lists
<1>4. \A m \in Modules : que[m].Module = m
  BY DEF CoreInv, CoreTypeOK, IsQueue
<1>5. \A i \in 1 .. Len(ModList) :
         /\ IsList(lists[i])
         /\ \A j \in 1 .. Len(lists[i]) : lists[i][j].Module = ModList[i]
  BY <1>1, <1>3, <1>4, SignedList
<1>6. \E i \in 1 .. Len(ModList) : ModList[i] = r.Module
  BY SubAssumption DEF Range
<1>7. PICK q : q = que[r.Module].TxMsgs
  OBVIOUS
<1>8. \A i \in 1 .. Len(ModList) : ModList[i] = r.Module => lists[i] = q
  BY <1>3, <1>7
<1>9. r \in Heard(known, FlattenSeq(lists)) <=> r \in Heard(known, q)
  <2>1. PICK n \in Nat : n = Len(ModList)
    BY <1>1
  <2>2. Len(lists) = n /\ \A i \in 1 .. n : IsList(lists[i])
    BY <1>2, <1>5, <2>1
  <2>3. \A i \in 1 .. n : \A j \in 1 .. Len(lists[i]) : lists[i][j].Module = ModList[i]
    BY <1>5, <2>1
  <2>4. \E i \in 1 .. n : ModList[i] = r.Module
    BY <1>6, <2>1
  <2>5. \A i \in 1 .. n : ModList[i] = r.Module => lists[i] = q
    BY <1>8, <2>1
  <2>6. AreQueues(n, ModList, lists, r.Module, q)
    BY <2>2, <2>3, <2>4, <2>5 DEF AreQueues
  <2> QED
    BY <2>1, <2>6, HeardFlatten
<1> QED
  BY <1>7, <1>9 DEF Waiting, lists

LEMMA NoneSigned ==
    ASSUME NEW m
    PROVE  Signed(NewQueue(m))
<1>1. << >> \in Seq({})
  OBVIOUS
<1>2. NewQueue(m).TxMsgs = << >>
  BY DEF NewQueue
<1> QED
  BY <1>1, <1>2 DEF Signed

LEMMA RunKeepsSigned ==
    ASSUME CoreInv, \A m \in Modules : Signed(que[m]), Run \/ World
    PROVE  \A m \in Modules : Signed(que'[m])
<1> SUFFICES ASSUME NEW m \in Modules PROVE Signed(que'[m])
  OBVIOUS
<1>1. IsQueue(que[m], m, Lines) /\ Signed(que[m]) /\ DOMAIN que = Modules
  BY DEF CoreInv, CoreTypeOK
<1>3. CASE RunBegin \/ CallListen \/ World
  BY <1>1, <1>3 DEF RunBegin, CallListen, World, subVars
<1>4. CASE Returned \/ SendUpdatedData
  BY <1>1, <1>4, SignedKept DEF Returned, SetBroadcastAll, SendUpdatedData
<1>5. CASE ReadLine
  <2>1. PICK line : que'[m] = Store(que[m], line)
    BY <1>5 DEF ReadLine, ProcessLine
  <2> QED
    BY <1>1, <2>1, SignedKept
<1>6. CASE RunEnd
  <2>1. CASE que'[m] = que[m]
    BY <1>1, <2>1
  <2>2. CASE que'[m] # que[m]
    <3>1. PICK q : q = IsBroadcastDone(que[m])
      OBVIOUS
    <3>2. PICK p : p = SendIf(q, TRUE, "Version", "id")
      OBVIOUS
    <3>3. IsQueue(q, m, Lines) /\ Signed(q)
      BY <1>1, <3>1, QueuesTyped, SignedKept
    <3>4. IsQueue(p, m, Lines) /\ Signed(p)
      BY <3>2, <3>3, SignedSendIf
    <3>5. que'[m] = SendIf(p, TRUE, "Clients", Clients)
      BY <1>1, <1>6, <2>2, <3>1, <3>2 DEF RunEnd, SendClientData, SendServerId, SendIf
    <3> QED
      BY <3>4, <3>5, SignedSendIf
  <2> QED
    BY <2>1, <2>2
<1> QED
  BY <1>3, <1>4, <1>5, <1>6 DEF Run

-----------------------------------------------------------------------------
(* Who joins.                                                              *)

LEMMA ClientsHeld ==
    ASSUME CoreInv, NEW c \in Conns
    PROVE  c \in Range(Clients) => Holds(Clients, c) /\ Holds(srvClients, c)
<1> SUFFICES ASSUME c \in Range(Clients) PROVE Holds(Clients, c) /\ Holds(srvClients, c)
  OBVIOUS
<1>1. /\ Clients \in Seq(Conns) /\ srvClients \in Seq(Conns)
      /\ accepted \in {<< >>} \cup {<< d >> : d \in Conns}
  BY DEF CoreInv, CoreTypeOK, TcpInv, TcpTypeOK
<1>2. Holds(Clients, c)
  BY <1>1 DEF Range, Holds
<1>3. CASE pc # "listen"
  BY <1>2, <1>3 DEF CoreInv, Agreement
<1>4. CASE pc = "listen" /\ ~listening
  BY <1>1, <1>2, <1>4, PruneElements DEF CoreInv, TcpInv, Agreement
<1>5. CASE pc = "listen" /\ listening
  <2>1. PICK i \in 1 .. Len(Clients) : Clients[i] = c
    BY <1>2 DEF Holds
  <2>2. accepted \in Seq(Conns)
    <3>1. << >> \in Seq(Conns) /\ \A d \in Conns : << d >> \in Seq(Conns)
      OBVIOUS
    <3> QED
      BY <1>1, <3>1
  <2>3. i \in 1 .. Len(Clients \o accepted) /\ (Clients \o accepted)[i] = c
    BY <1>1, <2>1, <2>2, ConcatProperties
  <2> QED
    BY <1>2, <1>5, <2>3 DEF CoreInv, Agreement, Holds
<1> QED
  BY <1>2, <1>3, <1>4, <1>5

\* But for the return of Listen() nobody joins.
LEMMA NobodyNew ==
    ASSUME CoreInv, Run \/ World, ~Returned, NEW c \in Conns, HasJoined(c)'
    PROVE  HasJoined(c)
<1> USE DEF HasJoined
<1>1. /\ peer \in [Conns -> PeerStates] /\ file \in [Conns -> Fds \cup {NoFile}]
      /\ backlog \in Seq(Conns) /\ srvClients \in Seq(Conns) /\ Clients \in Seq(Conns)
  BY DEF CoreInv, CoreTypeOK, TcpInv, TcpTypeOK
<1>2. CASE RunBegin
  <2>1. Clients' = Prune(Clients) /\ UNCHANGED << file, peer >>
    BY <1>2 DEF RunBegin, tcpVars, peerVars, sockVars
  <2>2. pc = "main" /\ Clients = srvClients /\ NoRepeat(srvClients)
    BY <1>2 DEF RunBegin, CoreInv, Agreement, TcpInv
  <2>3. Prune(Clients) \in Seq(Conns)
    BY <1>1, <2>2, PruneElements
  <2>4. Holds(Prune(Clients), c)
    BY <2>1, <2>3 DEF Range, Holds
  <2>5. Holds(Clients, c)
    BY <1>1, <2>2, <2>4, PruneElements
  <2>6. c \in Range(Clients)
    BY <1>1, <2>5 DEF Range, Holds
  <2> QED
    BY <2>1, <2>6 DEF isConnected
<1>3. CASE CallListen /\ Listen
  <2>1. /\ Clients' = Clients /\ peer' = peer /\ pc = "listen"
        /\ Accept(Prune(srvClients))
    BY <1>3 DEF CallListen, Listen, subVars
  <2>2. CASE file' = file
    BY <2>1, <2>2 DEF isConnected
  <2>3. CASE backlog # << >> /\ \E fd \in FreeFds : file' = [file EXCEPT ![Head(backlog)] = fd]
    <3>1. Head(backlog) = backlog[1] /\ Len(backlog) \in Nat /\ 1 \in 1 .. Len(backlog)
      BY <1>1, <2>3
    <3>2. Holds(backlog, Head(backlog))
      BY <3>1 DEF Holds
    <3>3. Holds(srvClients, c)
      BY <2>1, ClientsHeld
    <3>4. c # Head(backlog)
      BY <3>2, <3>3 DEF CoreInv, TcpInv, WaitingIsNew
    <3>5. file'[c] = file[c]
      BY <1>1, <2>3, <3>4
    <3> QED
      BY <2>1, <3>5 DEF isConnected
  <2> QED
    BY <2>1, <2>2, <2>3 DEF Accept, CanAccept
<1>4. CASE CallListen /\ Visit
  <2>1. /\ Clients' = Clients /\ peer' = peer
        /\ file' = file \/ ReadData(Head(unvisited))
    BY <1>4 DEF CallListen, Visit, subVars
  <2>2. file'[c] = file[c] \/ file'[c] = NoFile
    BY <1>1, <2>1 DEF ReadData, CloseSocket
  <2> QED
    BY <2>1, <2>2 DEF isConnected
<1>5. CASE ReadLine
  BY <1>5 DEF ReadLine, TakeLine, peerVars, srvVars, isConnected
<1>6. CASE SendUpdatedData
  <2>1. Clients' = Clients
    BY <1>6 DEF SendUpdatedData
  <2>2. peer'[c] \in {"pipe", peer[c]} /\ file'[c] \in {NoFile, file[c]}
    BY <1>6 DEF SendUpdatedData, SendAll
  <2> QED
    BY <2>1, <2>2 DEF isConnected
<1>7. CASE RunEnd
  BY <1>7 DEF RunEnd, tcpVars, peerVars, sockVars, isConnected
<1>8. CASE World
  <2>1. Clients' = Clients /\ file' = file
    BY <1>8 DEF World, subVars, Peer, Connect, PeerSend, PeerClose, PeerAbort, sockVars
  <2>2. PICK d \in Conns : Peer(d)
    BY <1>8 DEF World
  <2>3. peer[c] # "none"
    BY <2>1, ClientsHeld DEF CoreInv, TcpInv, WaitingIsNew
  <2>4. peer'[c] = "open" => peer[c] = "open"
    BY <1>1, <2>2, <2>3 DEF Peer, Connect, PeerSend, PeerClose, PeerAbort
  <2> QED
    BY <2>1, <2>4 DEF isConnected
<1> QED
  BY <1>2, <1>3, <1>4, <1>5, <1>6, <1>7, <1>8 DEF Run, CallListen

\* A process that has ended does nothing more.
LEMMA StaysDead ==
    ASSUME Run \/ World, alive'
    PROVE  alive
<1>1. CASE RunBegin \/ RunEnd
  BY <1>1 DEF RunBegin, RunEnd, tcpVars
<1>2. CASE CallListen \/ Returned \/ ReadLine \/ SendUpdatedData
  BY <1>2 DEF CallListen, Listen, Visit, Returned, Listened, ReadLine, TakeLine,
     SendUpdatedData, SendAll
<1>3. CASE World
  BY <1>3 DEF World, Peer, Connect, PeerSend, PeerClose, PeerAbort
<1> QED
  BY <1>1, <1>2, <1>3 DEF Run

-----------------------------------------------------------------------------
(* The network side implements Mail, whoever of Watched the user is.       *)

\* Nobody was told anything before it is entered, so that who joins starts
\* with nothing.
NewIsUntold ==
    /\ listening \/ accepted = << >>
    /\ \A c \in Conns :
         peer[c] = "none" \/ Holds(backlog, c) \/ Holds(accepted, c) => view[c] = {}

PostInv ==
    /\ SubInv
    /\ \A m \in Modules : Signed(que[m])
    /\ NewIsUntold

LEMMA UntoldStays ==
    ASSUME NewIsUntold, UNCHANGED << peer, backlog, accepted, listening, view >>
    PROVE  NewIsUntold'
  BY DEF NewIsUntold, Holds

LEMMA UntoldStep ==
    ASSUME SubInv, NewIsUntold, [Next]_vars
    PROVE  NewIsUntold'
<1>1. /\ peer \in [Conns -> PeerStates] /\ backlog \in Seq(Conns)
      /\ Clients \in Seq(Conns) /\ CoreInv
  BY DEF SubInv, CoreInv, CoreTypeOK, TcpInv, TcpTypeOK
<1>2. CASE RunBegin \/ RunEnd \/ ReadLine \/ UNCHANGED vars
  BY <1>2, UntoldStays
  DEF RunBegin, RunEnd, ReadLine, TakeLine, vars, subVars, tcpVars, peerVars, srvVars
<1>3. CASE CallListen /\ Listen
  <2>1. /\ UNCHANGED << peer, view >> /\ listening' = TRUE /\ Accept(Prune(srvClients))
    BY <1>3 DEF CallListen, Listen, subVars
  <2>2. CASE accepted' = << >> /\ backlog' = backlog
    BY <2>1, <2>2 DEF NewIsUntold, Holds
  <2>3. CASE /\ backlog # << >>
             /\ accepted' = << Head(backlog) >> /\ backlog' = Tail(backlog)
    <3>1. /\ Head(backlog) = backlog[1] /\ 1 \in 1 .. Len(backlog)
          /\ \A i \in 1 .. Len(Tail(backlog)) :
                i + 1 \in 1 .. Len(backlog) /\ Tail(backlog)[i] = backlog[i + 1]
      BY <1>1, <2>3, HeadTailProperties
    <3>2. \A c \in Conns : Holds(backlog', c) \/ Holds(accepted', c) => Holds(backlog, c)
      BY <2>3, <3>1 DEF Holds
    <3> QED
      BY <2>1, <3>2 DEF NewIsUntold, Holds
  <2> QED
    BY <2>1, <2>2, <2>3 DEF Accept, CanAccept
<1>4. CASE CallListen /\ Visit
  BY <1>4, UntoldStays DEF CallListen, Visit, subVars
<1>5. CASE Returned
  BY <1>5 DEF Returned, Listened, peerVars, NewIsUntold, Holds
<1>6. CASE SendUpdatedData
  <2>1. /\ UNCHANGED << backlog, accepted, listening >> /\ ~listening /\ pc # "listen"
        /\ \A c \in Conns : peer'[c] = "none" => peer[c] = "none"
        /\ \A c \in Conns : c \notin Range(Clients) => view'[c] = view[c]
    BY <1>6 DEF SendUpdatedData, SendAll, srvVars
  <2>2. ASSUME NEW c \in Conns, c \in Range(Clients)
        PROVE  ~(peer[c] = "none" \/ Holds(backlog, c))
    BY <1>1, <2>2, ClientsHeld DEF CoreInv, TcpInv, WaitingIsNew
  <2>3. accepted = << >>
    BY <2>1 DEF NewIsUntold
  <2> QED
    BY <2>1, <2>2, <2>3 DEF NewIsUntold, Holds
<1>7. ASSUME NEW m \in Modules, Task(m) PROVE NewIsUntold'
  BY <1>7, UntoldStays DEF Task, tcpVars, peerVars, srvVars
<1>8. CASE World
  <2>1. PICK d \in Conns : Peer(d)
    BY <1>8 DEF World
  <2>2. UNCHANGED << accepted, listening, view >>
    BY <1>8 DEF World, Peer, Connect, PeerSend, PeerClose, PeerAbort, srvVars, subVars
  <2>3. CASE Connect(d)
    <3>1. /\ backlog' = Append(backlog, d) /\ peer[d] = "none"
          /\ \A c \in Conns : peer'[c] = "none" => peer[c] = "none"
      BY <1>1, <2>3 DEF Connect
    <3>2. \A c \in Conns : Holds(backlog', c) => Holds(backlog, c) \/ c = d
      BY <1>1, <3>1, AppendElements DEF Holds
    <3> QED
      BY <2>2, <3>1, <3>2 DEF NewIsUntold, Holds
  <2>4. CASE ~Connect(d)
    <3>1. /\ backlog' = backlog
          /\ \A c \in Conns : peer'[c] = "none" => peer[c] = "none"
      BY <1>1, <2>1, <2>4 DEF Peer, PeerSend, PeerClose, PeerAbort
    <3> QED
      BY <2>2, <3>1 DEF NewIsUntold, Holds
  <2> QED
    BY <2>3, <2>4
<1> QED
  BY <1>2, <1>3, <1>4, <1>5, <1>6, <1>7, <1>8 DEF Next, Run, CallListen

LEMMA TaskKeepsSigned ==
    ASSUME SubInv, \A n \in Modules : Signed(que[n]), NEW m \in Modules, Task(m)
    PROVE  \A n \in Modules : Signed(que'[n])
<1>1. /\ \A n \in Modules : IsQueue(que'[n], n, Lines)
      /\ \A n \in Modules \ {m} : que'[n] = que[n]
  BY TaskQueues DEF SubInv, CoreInv
<1>2. PICK r \in {<< >>} \cup {<< s >> : s \in {s \in Reports : s.Module = m}} :
         que'[m].TxMsgs = que[m].TxMsgs \o r
  BY TaskQueues DEF SubInv, CoreInv
<1>3. que[m].Module = m /\ que'[m].Module = m
  BY <1>1 DEF SubInv, CoreInv, CoreTypeOK, IsQueue
<1>4. PICK S : que[m].TxMsgs \in Seq(S) /\ \A s \in S : s.Module = m
  BY <1>3 DEF Signed
<1>5. PICK both : both = S \cup {s \in Reports : s.Module = m}
  OBVIOUS
<1>6. que[m].TxMsgs \in Seq(both) /\ r \in Seq(both)
  <2>1. S \subseteq both /\ \A s \in {s \in Reports : s.Module = m} : s \in both
    BY <1>5
  <2>2. << >> \in Seq(both) /\ \A s \in both : << s >> \in Seq(both)
    OBVIOUS
  <2> QED
    BY <1>4, <2>1, <2>2, SeqMonotonic
<1>7. que'[m].TxMsgs \in Seq(both)
  BY <1>2, <1>6, ConcatProperties
<1>8. \A s \in both : s.Module = m
  BY <1>4, <1>5
<1>9. Signed(que'[m])
  BY <1>3, <1>7, <1>8 DEF Signed
<1> QED
  BY <1>1, <1>9

LEMMA PostInitInv == Init => PostInv
<1> SUFFICES ASSUME Init PROVE PostInv
  OBVIOUS
<1>1. \A m \in Modules : Signed(que[m])
  BY NoneSigned DEF Init, SubInit
<1>2. NewIsUntold
  BY DEF Init, TcpInit, SubInit, NewIsUntold
<1> QED
  BY <1>1, <1>2, SubInitInv DEF PostInv

LEMMA PostStepInv == PostInv /\ [Next]_vars => PostInv'
<1> SUFFICES ASSUME PostInv, [Next]_vars PROVE PostInv'
  OBVIOUS
<1>1. SubInv' /\ NewIsUntold'
  BY SubStepInv, UntoldStep DEF PostInv
<1>2. \A m \in Modules : Signed(que'[m])
  <2>1. CASE Run \/ World
    BY <2>1, RunKeepsSigned DEF PostInv, SubInv
  <2>2. ASSUME NEW m \in Modules, Task(m) PROVE \A n \in Modules : Signed(que'[n])
    BY <2>2, TaskKeepsSigned DEF PostInv
  <2>3. CASE UNCHANGED vars
    BY <2>3 DEF PostInv, vars, subVars
  <2> QED
    BY <2>1, <2>2, <2>3 DEF Next
<1> QED
  BY <1>1, <1>2 DEF PostInv, Signed

\* The user and what Mail sees of it, its queues and its view.
LEMMA TheUserIsOne ==
    ASSUME Watched # {}
    PROVE  TheUser \in Watched /\ TheUser \in Conns
  BY SubAssumption DEF TheUser

HasBeenTold(c) ==
    [m \in Others |-> IF HasJoined(c) THEN {r \in view[c] : r.Module = m} ELSE {}]

OthersQueues == [m \in Others |-> que[m]]

MailStep == TheMail!MailNext \/ UNCHANGED TheMail!mailVars

LEMMA JoinedAlike ==
    ASSUME NEW c, HasJoined(c)' <=> HasJoined(c)
    PROVE  HasJoined(c)' = HasJoined(c)
<1>1. HasJoined(c) \in BOOLEAN /\ HasJoined(c)' \in BOOLEAN
  BY DEF HasJoined
<1> QED
  BY <1>1

LEMMA ToldAlike ==
    ASSUME NEW c, HasJoined(c)' <=> HasJoined(c), view'[c] = view[c]
    PROVE  HasBeenTold(c)' = HasBeenTold(c)
<1>1. \A m \in Others :
        (IF HasJoined(c)' THEN {r \in view'[c] : r.Module = m} ELSE {})
          = (IF HasJoined(c) THEN {r \in view[c] : r.Module = m} ELSE {})
  OBVIOUS
<1> QED
  BY <1>1 DEF HasBeenTold, Others

\* Nothing that concerns the user.
LEMMA MailStutters ==
    ASSUME HasJoined(TheUser)' <=> HasJoined(TheUser), view'[TheUser] = view[TheUser],
           OthersQueues' = OthersQueues, UNCHANGED << perm, alive >>
    PROVE  UNCHANGED TheMail!mailVars
<1>1. /\ HasJoined(TheUser)' = HasJoined(TheUser)
      /\ HasBeenTold(TheUser)' = HasBeenTold(TheUser)
  BY JoinedAlike, ToldAlike
<1> QED
  BY <1>1 DEF TheMail!mailVars, HasBeenTold, OthersQueues, Others

LEMMA MailLeaves ==
    ASSUME HasJoined(TheUser), ~HasJoined(TheUser)',
           OthersQueues' = OthersQueues, UNCHANGED << perm, alive >>
    PROVE  TheMail!Leave
<1>1. HasJoined(TheUser)' = FALSE
  OBVIOUS
<1>2. HasBeenTold(TheUser)' = TheMail!Nothing
  BY DEF HasBeenTold, TheMail!Nothing, Others
<1> QED
  BY <1>1, <1>2 DEF TheMail!Leave, HasBeenTold, OthersQueues, Others

\* The steps that touch no queue: at most the user is lost.
LEMMA QuietStep ==
    ASSUME PostInv, Watched # {}, Run \/ World, ~Returned,
           UNCHANGED << que, perm, alive, view >>
    PROVE  MailStep
<1>1. HasJoined(TheUser)' => HasJoined(TheUser)
  BY TheUserIsOne, NobodyNew DEF PostInv, SubInv
<1>2. OthersQueues' = OthersQueues
  BY DEF OthersQueues, Others
<1>3. CASE HasJoined(TheUser)' <=> HasJoined(TheUser)
  BY <1>2, <1>3, MailStutters DEF MailStep
<1>4. CASE ~(HasJoined(TheUser)' <=> HasJoined(TheUser))
  BY <1>1, <1>2, <1>4, MailLeaves DEF MailStep, TheMail!MailNext, TheMail!NetworkNext
<1> QED
  BY <1>3, <1>4

LEMMA RangeConcat ==
    ASSUME NEW S, NEW s \in Seq(S), NEW t \in Seq(S)
    PROVE  Range(s \o t) = Range(s) \cup Range(t)
<1>1. /\ Len(s) \in Nat /\ Len(t) \in Nat
      /\ DOMAIN s = 1 .. Len(s) /\ DOMAIN t = 1 .. Len(t)
      /\ DOMAIN (s \o t) = 1 .. Len(s) + Len(t)
      /\ \A i \in 1 .. Len(s) : (s \o t)[i] = s[i]
      /\ \A i \in 1 .. Len(t) : (s \o t)[Len(s) + i] = t[i]
  BY LenProperties, ConcatProperties
<1>2. PICK u : u = s \o t
  OBVIOUS
<1>3. ASSUME NEW x \in Range(u) PROVE x \in Range(s) \cup Range(t)
  <2>1. PICK i \in 1 .. Len(s) + Len(t) : x = u[i]
    BY <1>1, <1>2, <1>3 DEF Range
  <2>2. i \in 1 .. Len(s) \/ (i - Len(s) \in 1 .. Len(t) /\ Len(s) + (i - Len(s)) = i)
    BY <1>1
  <2> QED
    BY <1>1, <1>2, <2>1, <2>2 DEF Range
<1>4. ASSUME NEW x \in Range(s) PROVE x \in Range(u)
  <2>1. PICK i \in 1 .. Len(s) : x = s[i]
    BY <1>1 DEF Range
  <2>2. i \in 1 .. Len(s) + Len(t) /\ u[i] = x
    BY <1>1, <1>2, <2>1
  <2> QED
    BY <1>1, <1>2, <2>2 DEF Range
<1>5. ASSUME NEW x \in Range(t) PROVE x \in Range(u)
  <2>1. PICK i \in 1 .. Len(t) : x = t[i]
    BY <1>1 DEF Range
  <2>2. Len(s) + i \in 1 .. Len(s) + Len(t) /\ u[Len(s) + i] = x
    BY <1>1, <1>2, <2>1
  <2> QED
    BY <1>1, <1>2, <2>2 DEF Range
<1> QED
  BY <1>2, <1>3, <1>4, <1>5

LEMMA ReturnedIsMail ==
    ASSUME PostInv, Watched # {}, Returned
    PROVE  MailStep
<1>1. /\ Clients \in Seq(Conns) /\ accepted \in Seq(Conns) /\ DOMAIN que = Modules
  <2>1. << >> \in Seq(Conns) /\ \A c \in Conns : << c >> \in Seq(Conns)
    OBVIOUS
  <2> QED
    BY <2>1 DEF PostInv, SubInv, CoreInv, CoreTypeOK, TcpInv, TcpTypeOK
<1>2. /\ Clients' = Clients \o accepted /\ alive /\ alive' = alive
      /\ UNCHANGED << peer, file, perm, view >>
  BY DEF Returned, Listened, peerVars, sockVars
<1>3. Range(Clients') = Range(Clients) \cup Range(accepted)
  BY <1>1, <1>2, RangeConcat
<1>4. HasJoined(TheUser) => HasJoined(TheUser)'
  BY <1>2, <1>3 DEF HasJoined, isConnected
<1>5. CASE accepted = << >>
  <2>1. Clients' = Clients /\ que' = que
    BY <1>1, <1>2, <1>5, ConcatEmptySeq DEF Returned
  <2>2. HasJoined(TheUser)' => HasJoined(TheUser)
    BY <1>2, <2>1 DEF HasJoined, isConnected
  <2> QED
    BY <1>2, <1>4, <2>1, <2>2, MailStutters DEF MailStep, OthersQueues, Others
<1>6. CASE accepted # << >>
  <2>1. OthersQueues' = TheMail!Flagged
    <3>1. \A m \in Others : que'[m] = TheMail!SetBroadcast(que[m])
      BY <1>6 DEF Returned, SetBroadcastAll, SetBroadcast, TheMail!SetBroadcast, Others
    <3> QED
      BY <3>1 DEF OthersQueues, TheMail!Flagged, Others
  <2>2. CASE HasJoined(TheUser)' <=> HasJoined(TheUser)
    <3>1. /\ HasJoined(TheUser)' = HasJoined(TheUser)
          /\ HasBeenTold(TheUser)' = HasBeenTold(TheUser)
      BY <1>2, <2>2, JoinedAlike, ToldAlike
    <3>2. TheMail!Announce
      BY <1>2, <2>1, <3>1 DEF TheMail!Announce, HasBeenTold, OthersQueues, Others
    <3> QED
      BY <3>2 DEF MailStep, TheMail!MailNext, TheMail!NetworkNext
  <2>3. CASE ~HasJoined(TheUser) /\ HasJoined(TheUser)'
    <3>1. TheUser \in Range(accepted)
      BY <1>2, <1>3, <2>3 DEF HasJoined, isConnected
    <3>2. Holds(accepted, TheUser)
      BY <1>1, <3>1 DEF Range, Holds
    <3>3. view[TheUser] = {}
      BY <3>2, TheUserIsOne DEF PostInv, NewIsUntold
    <3>4. HasBeenTold(TheUser)' = HasBeenTold(TheUser)
      BY <1>2, <2>3, <3>3 DEF HasBeenTold, Others
    <3>5. HasJoined(TheUser)' = TRUE
      BY <2>3 DEF HasJoined
    <3>6. TheMail!Join
      BY <1>2, <2>1, <2>3, <3>4, <3>5 DEF TheMail!Join, HasBeenTold, OthersQueues, Others
    <3> QED
      BY <3>6 DEF MailStep, TheMail!MailNext, TheMail!NetworkNext
  <2> QED
    BY <1>4, <2>2, <2>3
<1> QED
  BY <1>5, <1>6

LEMMA ReadLineIsMail ==
    ASSUME PostInv, Watched # {}, ReadLine
    PROVE  MailStep
<1>1. /\ Clients \in Seq(Conns) /\ buffer \in [Conns -> Seq(Lines)] /\ DOMAIN que = Modules
  BY DEF PostInv, SubInv, CoreInv, CoreTypeOK, TcpInv, TcpTypeOK
<1>2. PICK i \in 1 .. Len(Clients) : /\ HasLine(Clients[i])
                                     /\ TakeLine(Clients[i])
                                     /\ ProcessLine(Head(buffer[Clients[i]]))
  BY DEF ReadLine
<1>3. PICK c \in Conns : c = Clients[i]
  BY <1>1
<1>4. PICK line : line = Head(buffer[c])
  OBVIOUS
<1>5. line \in Lines
  BY <1>1, <1>2, <1>3, <1>4, HeadTailProperties DEF HasLine
<1>6. /\ alive /\ UNCHANGED << Clients, peer, file, alive, perm, view >>
  BY <1>2 DEF ReadLine, TakeLine, peerVars
<1>7. HasJoined(TheUser)' <=> HasJoined(TheUser)
  BY <1>6 DEF HasJoined, isConnected
<1>8. /\ HasJoined(TheUser)' = HasJoined(TheUser)
      /\ HasBeenTold(TheUser)' = HasBeenTold(TheUser)
  BY <1>6, <1>7, JoinedAlike, ToldAlike
<1>9. OthersQueues' = [m \in Others |-> TheMail!Store(OthersQueues[m], line)]
  <2>1. \A m \in Others : que'[m] = TheMail!Store(que[m], line)
    BY <1>2, <1>3, <1>4 DEF ProcessLine, Store, TheMail!Store, Others
  <2> QED
    BY <2>1 DEF OthersQueues, Others
<1>10. TheMail!Deliver(line)
  BY <1>6, <1>8, <1>9 DEF TheMail!Deliver, HasBeenTold, OthersQueues, Others
<1> QED
  BY <1>5, <1>10 DEF MailStep, TheMail!MailNext, TheMail!NetworkNext

LEMMA RunEndIsMail ==
    ASSUME PostInv, Watched # {}, RunEnd
    PROVE  MailStep
<1>1. /\ alive /\ UNCHANGED << Clients, peer, file, alive, view >>
      /\ perm' = (Clients # << >>)
  BY DEF RunEnd, Permitted, tcpVars, peerVars, sockVars
<1>2. HasJoined(TheUser)' <=> HasJoined(TheUser)
  BY <1>1 DEF HasJoined, isConnected
<1>3. /\ HasJoined(TheUser)' = HasJoined(TheUser)
      /\ HasBeenTold(TheUser)' = HasBeenTold(TheUser)
  BY <1>1, <1>2, JoinedAlike, ToldAlike
<1>4. OthersQueues' = OthersQueues
  <2>1. \A m \in Others : que'[m] = que[m]
    BY DEF RunEnd, Others, PostInv, SubInv, CoreInv, CoreTypeOK
  <2> QED
    BY <2>1 DEF OthersQueues, Others
<1>5. HasJoined(TheUser) => perm'
  <2>1. SUFFICES ASSUME HasJoined(TheUser) PROVE Clients # << >>
    BY <1>1
  <2>2. PICK i \in DOMAIN Clients : Clients[i] = TheUser
    BY <2>1 DEF HasJoined, Range
  <2>3. DOMAIN << >> = {}
    OBVIOUS
  <2> QED
    BY <2>2, <2>3
<1>6. perm' \in BOOLEAN
  BY <1>1
<1>7. TheMail!Permit
  BY <1>1, <1>3, <1>4, <1>5, <1>6 DEF TheMail!Permit, HasBeenTold, OthersQueues, Others
<1> QED
  BY <1>7 DEF MailStep, TheMail!MailNext, TheMail!NetworkNext

\* Of the module m the user knows what the queue of m makes of what it knew of
\* m before, although the queues of all modules are sent in one go.
LEMMA HeardOfModule ==
    ASSUME PostInv, NEW m \in Modules, NEW known
    PROVE  {r \in Heard(known, Waiting) : r.Module = m}
             = Heard({r \in known : r.Module = m}, que[m].TxMsgs)
<1>1. /\ IsQueue(que[m], m, Lines) /\ Signed(que[m])
      /\ CoreInv /\ \A n \in Modules : Signed(que[n])
  BY DEF PostInv, SubInv, CoreInv, CoreTypeOK
<1>2. PICK msgs : msgs = que[m].TxMsgs
  OBVIOUS
<1>3. \A i \in 1 .. Len(msgs) : msgs[i].Module = m
  BY <1>1, <1>2, SignedList DEF IsQueue
<1>4. PICK own : own = {r \in known : r.Module = m}
  OBVIOUS
<1>5. ASSUME NEW r, r.Module = m
      PROVE  r \in Heard(known, Waiting) <=> r \in Heard(own, msgs)
  <2>1. r \in Heard(known, Waiting) <=> r \in Heard(known, msgs)
    BY <1>1, <1>2, <1>5, WaitingHeard
  <2>2. r \in own <=> r \in known
    BY <1>4, <1>5
  <2> QED
    BY <2>1, <2>2, HeardAlike
<1>6. ASSUME NEW r \in Heard(own, msgs) PROVE r.Module = m
  BY <1>3, <1>4, <1>6, HeardIff
<1>7. {r \in Heard(known, Waiting) : r.Module = m} = Heard(own, msgs)
  BY <1>5, <1>6
<1> QED
  BY <1>2, <1>4, <1>7

LEMMA SendingIsMail ==
    ASSUME PostInv, Watched # {}, SendUpdatedData
    PROVE  MailStep
<1>1. /\ alive /\ alive' \in BOOLEAN /\ UNCHANGED << Clients, perm >>
      /\ que' = [m \in Modules |-> GetAllMsgs(que[m])]
      /\ peer \in [Conns -> PeerStates] /\ DOMAIN que = Modules
  BY DEF SendUpdatedData, SendAll, PostInv, SubInv, CoreInv, CoreTypeOK, TcpInv, TcpTypeOK
<1>2. TheUser \in Watched /\ TheUser \in Conns
  BY TheUserIsOne
<1>3. /\ peer[TheUser] = "open" => /\ peer'[TheUser] = "open"
                                   /\ file'[TheUser] = file[TheUser]
      /\ peer'[TheUser] = "open" => peer[TheUser] = "open"
  BY <1>2 DEF SendUpdatedData, SendAll
<1>4. HasJoined(TheUser)' <=> HasJoined(TheUser)
  BY <1>1, <1>3 DEF HasJoined, isConnected
<1>5. view'[TheUser] = IF HasJoined(TheUser) THEN Heard(view[TheUser], Waiting)
                                             ELSE view[TheUser]
  BY <1>2 DEF SendUpdatedData, HasJoined
<1>6. OthersQueues' = [m \in Others |-> TheMail!GetAllMsgs(OthersQueues[m])]
  <2>1. \A m \in Others : que'[m] = TheMail!GetAllMsgs(que[m])
    BY <1>1 DEF GetAllMsgs, TheMail!GetAllMsgs, Others
  <2> QED
    BY <2>1 DEF OthersQueues, Others
<1>7. \A known, msgs : TheMail!Heard(known, msgs) = Heard(known, msgs)
  BY DEF TheMail!Heard, Heard, TheMail!SameKind, SameKind
<1>8. HasBeenTold(TheUser)' =
        IF HasJoined(TheUser)
        THEN [m \in Others |-> TheMail!Heard(HasBeenTold(TheUser)[m], OthersQueues[m].TxMsgs)]
        ELSE HasBeenTold(TheUser)
  <2>1. CASE ~HasJoined(TheUser)
    BY <1>4, <1>5, <2>1, ToldAlike
  <2>2. CASE HasJoined(TheUser)
    <3>1. ASSUME NEW m \in Others
          PROVE  {r \in view'[TheUser] : r.Module = m}
                   = TheMail!Heard({r \in view[TheUser] : r.Module = m}, que[m].TxMsgs)
      BY <1>5, <1>7, <2>2, HeardOfModule DEF Others
    <3>2. HasBeenTold(TheUser)' = [m \in Others |-> {r \in view'[TheUser] : r.Module = m}]
      BY <1>4, <2>2 DEF HasBeenTold, Others
    <3>3. HasBeenTold(TheUser) = [m \in Others |-> {r \in view[TheUser] : r.Module = m}]
      BY <2>2 DEF HasBeenTold
    <3> QED
      BY <2>2, <3>1, <3>2, <3>3 DEF OthersQueues
  <2> QED
    BY <2>1, <2>2
<1>9. HasJoined(TheUser)' = HasJoined(TheUser)
  BY <1>4, JoinedAlike
<1>10. TheMail!HandOver
  BY <1>1, <1>6, <1>8, <1>9 DEF TheMail!HandOver, HasBeenTold, OthersQueues, Others
<1>11. TheMail!Collect \/ TheMail!Die
  BY <1>1, <1>10 DEF TheMail!Collect, TheMail!Die
<1> QED
  BY <1>11 DEF MailStep, TheMail!MailNext, TheMail!NetworkNext

LEMMA TaskIsMail ==
    ASSUME PostInv, NEW m \in Modules, Task(m)
    PROVE  MailStep
<1>1. /\ m \in Others /\ alive /\ DOMAIN que = Modules
      /\ UNCHANGED << Clients, peer, file, alive, perm, view >>
      /\ Len(que[m].TxMsgs) < MaxTx
  BY DEF Task, Others, tcpVars, peerVars, sockVars, PostInv, SubInv, CoreInv, CoreTypeOK
<1>2. PICK q \in {que[m], ReceiveAll(que[m])}, flag \in BOOLEAN,
           r \in {<< >>} \cup {<< s >> : s \in {s \in Reports : s.Module = m}} :
         que' = [que EXCEPT ![m] = [q EXCEPT !.Broadcast = flag, !.TxMsgs = @ \o r]]
  BY DEF Task
<1>3. HasJoined(TheUser)' <=> HasJoined(TheUser)
  BY <1>1 DEF HasJoined, isConnected
<1>4. /\ HasJoined(TheUser)' = HasJoined(TheUser)
      /\ HasBeenTold(TheUser)' = HasBeenTold(TheUser)
  BY <1>1, <1>3, JoinedAlike, ToldAlike
<1>5. q \in {OthersQueues[m], TheMail!ReceiveAll(OthersQueues[m])}
  BY <1>1, <1>2 DEF OthersQueues, ReceiveAll, TheMail!ReceiveAll
<1>6. PICK new : new = [q EXCEPT !.Broadcast = flag, !.TxMsgs = @ \o r]
  OBVIOUS
<1>7. OthersQueues' = [OthersQueues EXCEPT ![m] = new]
  BY <1>1, <1>2, <1>6 DEF OthersQueues, Others
<1>8. TheMail!Task(m)
  BY <1>1, <1>4, <1>5, <1>6, <1>7 DEF TheMail!Task, HasBeenTold, OthersQueues, Others
<1> QED
  BY <1>1, <1>8 DEF MailStep, TheMail!MailNext, Others

LEMMA StartsAsMail == Init => TheMail!MailInit
<1> SUFFICES ASSUME Init PROVE TheMail!MailInit
  OBVIOUS
<1>1. /\ que = [m \in Modules |-> NewQueue(m)] /\ perm = FALSE /\ Clients = << >>
      /\ alive = TRUE
  BY DEF Init, SubInit, TcpInit
<1>2. ~HasJoined(TheUser)
  BY <1>1 DEF HasJoined, Range
<1>3. HasJoined(TheUser) = FALSE /\ HasBeenTold(TheUser) = TheMail!Nothing
  BY <1>2 DEF HasBeenTold, TheMail!Nothing, Others
<1>4. OthersQueues = [m \in Others |-> TheMail!NewQueue(m)]
  <2>1. \A m \in Others : NewQueue(m) = TheMail!NewQueue(m)
    BY DEF NewQueue, TheMail!NewQueue
  <2> QED
    BY <1>1, <2>1 DEF OthersQueues, Others
<1> QED
  BY <1>1, <1>3, <1>4 DEF TheMail!MailInit, HasBeenTold, OthersQueues, Others

LEMMA StepIsMail ==
    ASSUME PostInv, Watched # {}, [Next]_vars
    PROVE  MailStep
<1>1. CASE RunBegin \/ CallListen \/ World
  <2>1. UNCHANGED << que, perm, view, alive >>
    BY <1>1 DEF RunBegin, CallListen, Listen, Visit, World, Peer, Connect, PeerSend,
       PeerClose, PeerAbort, subVars, tcpVars
  <2> QED
    BY <1>1, <2>1, QuietStep, ReturnedIsMail DEF Run
<1>2. CASE UNCHANGED vars
  <2>1. UNCHANGED << Clients, peer, file, alive, que, perm, view >>
    BY <1>2 DEF vars, subVars, tcpVars, peerVars, sockVars
  <2>2. HasJoined(TheUser)' <=> HasJoined(TheUser)
    BY <2>1 DEF HasJoined, isConnected
  <2> QED
    BY <2>1, <2>2, MailStutters DEF MailStep, OthersQueues, Others
<1> QED
  BY <1>1, <1>2, ReturnedIsMail, ReadLineIsMail, RunEndIsMail, SendingIsMail, TaskIsMail
  DEF Next, Run

-----------------------------------------------------------------------------
(* Everyone is known: nobody joins without a new list being due, and a     *)
(* list that is on its way or with the user stays good while others leave. *)

\* c knows of all who are connected, once the server's queue has been sent.
Knows(c) ==
    \/ que["Server"].Broadcast
    \/ \E r \in Heard(view[c], que["Server"].TxMsgs) :
          /\ r.Module = "Server" /\ r.RecordType = "Clients"
          /\ Range(Clients) \subseteq Range(r.Data)

LEMMA KnownStays ==
    ASSUME NEW c, Knows(c), view'[c] = view[c],
           que'["Server"].TxMsgs = que["Server"].TxMsgs,
           que["Server"].Broadcast => que'["Server"].Broadcast,
           Range(Clients') \subseteq Range(Clients)
    PROVE  Knows(c)'
  BY DEF Knows

\* The list is made of the clients there are when it is sent for.
LEMMA ListIsQueued ==
    ASSUME CoreInv, \A m \in Modules : Signed(que[m]), RunEnd, que["Server"].Broadcast, NEW c
    PROVE  Knows(c)'
<1> DEFINE r == Report("Server", "Clients", Clients)
<1>1. /\ "Server" \in Modules /\ IsQueue(que["Server"], "Server", Lines)
      /\ Signed(que["Server"]) /\ DOMAIN que = Modules
  BY SubAssumption DEF CoreInv, CoreTypeOK
<1>2. PICK q : q = IsBroadcastDone(que["Server"])
  OBVIOUS
<1>3. PICK p : p = SendIf(q, TRUE, "Version", "id")
  OBVIOUS
<1>4. IsQueue(q, "Server", Lines) /\ Signed(q)
  BY <1>1, <1>2, QueuesTyped, SignedKept
<1>5. IsQueue(p, "Server", Lines) /\ Signed(p)
  BY <1>3, <1>4, SignedSendIf
<1>6. IsMailbox(p) /\ p.Module = "Server"
  BY <1>5, SignedList DEF IsMailbox, IsQueue
<1>7. PICK s : s = SendIf(p, TRUE, "Clients", Clients)
  OBVIOUS
<1>8. que'["Server"] = s
  BY <1>1, <1>2, <1>3, <1>7 DEF RunEnd, SendClientData, SendServerId, SendIf
<1>9. Adds(s, p, TRUE, r)
  BY <1>6, <1>7, SendHeard
<1>10. r \in Heard(view'[c], s.TxMsgs)
  BY <1>9 DEF Adds
<1>11. /\ r.Module = "Server" /\ r.RecordType = "Clients" /\ r.Data = Clients
       /\ Clients' = Clients
  BY DEF Report, RunEnd
<1> HIDE DEF r
<1> QED
  BY <1>8, <1>10, <1>11 DEF Knows

LEMMA NetworkKeepsKnown ==
    ASSUME CoreInv, \A m \in Modules : Signed(que[m]), EveryoneKnown, Run \/ World
    PROVE  EveryoneKnown'
<1> SUFFICES ASSUME NEW c \in Watched, alive', HasJoined(c)' PROVE Knows(c)'
  BY DEF EveryoneKnown, Knows
<1>1. c \in Conns /\ alive
  BY SubAssumption, StaysDead
<1>2. HasJoined(c) => Knows(c)
  BY <1>1 DEF EveryoneKnown, Knows
<1>3. /\ "Server" \in Modules /\ IsQueue(que["Server"], "Server", Lines)
      /\ DOMAIN que = Modules /\ Clients \in Seq(Conns)
  BY SubAssumption DEF CoreInv, CoreTypeOK
<1>4. CASE Returned
  <2>1. CASE accepted = << >>
    <3>1. Clients' = Clients /\ que' = que /\ view' = view
      BY <1>3, <1>4, <2>1, ConcatEmptySeq DEF Returned
    <3>2. UNCHANGED << file, peer >>
      BY <1>4 DEF Returned, Listened, peerVars, sockVars
    <3>3. HasJoined(c)
      BY <3>1, <3>2 DEF HasJoined, isConnected
    <3> QED
      BY <1>2, <3>1, <3>3, KnownStays
  <2>2. CASE accepted # << >>
    <3>1. que'["Server"] = SetBroadcast(que["Server"])
      BY <1>3, <1>4, <2>2 DEF Returned, SetBroadcastAll
    <3>2. que'["Server"].Broadcast
      BY <1>3, <3>1 DEF SetBroadcast, IsQueue, QueueFields
    <3> QED
      BY <3>2 DEF Knows
  <2> QED
    BY <2>1, <2>2
<1>5. CASE ~Returned
  <2>1. HasJoined(c) /\ Knows(c)
    BY <1>1, <1>2, <1>5, NobodyNew
  <2>2. CASE RunBegin
    <3>1. Clients' = Prune(Clients) /\ que' = que /\ view' = view
      BY <2>2 DEF RunBegin
    <3>2. NoRepeat(Clients)
      BY <2>2 DEF RunBegin, CoreInv, TcpInv, Agreement
    <3>3. /\ Prune(Clients) \in Seq(Conns)
          /\ \A d \in Conns : Holds(Prune(Clients), d) => Holds(Clients, d)
      BY <1>3, <3>2, PruneElements
    <3>4. Range(Prune(Clients)) \subseteq Range(Clients)
      BY <1>3, <3>3 DEF Range, Holds
    <3> QED
      BY <2>1, <3>1, <3>4, KnownStays
  <2>3. CASE CallListen \/ World
    <3>1. Clients' = Clients /\ que' = que /\ view' = view
      BY <2>3 DEF CallListen, World, subVars
    <3> QED
      BY <2>1, <3>1, KnownStays
  <2>4. CASE ReadLine
    <3>1. PICK line : que'["Server"] = Store(que["Server"], line)
      BY <1>3, <2>4 DEF ReadLine, ProcessLine
    <3>2. /\ que'["Server"].TxMsgs = que["Server"].TxMsgs
          /\ que'["Server"].Broadcast = que["Server"].Broadcast
      BY <1>3, <3>1 DEF Store, IsQueue, QueueFields
    <3>3. Clients' = Clients /\ view' = view
      BY <2>4 DEF ReadLine
    <3> QED
      BY <2>1, <3>2, <3>3, KnownStays
  <2>5. CASE SendUpdatedData
    <3>1. /\ que'["Server"] = GetAllMsgs(que["Server"]) /\ Clients' = Clients
          /\ view'[c] = Heard(view[c], Waiting)
      BY <1>1, <1>3, <2>1, <2>5 DEF SendUpdatedData, HasJoined
    <3>2. que'["Server"].TxMsgs = << >> /\ que'["Server"].Broadcast = que["Server"].Broadcast
      BY <1>3, <3>1 DEF GetAllMsgs, IsQueue, QueueFields
    <3>3. ASSUME NEW r \in Heard(view[c], que["Server"].TxMsgs), r.Module = "Server"
          PROVE  r \in Heard(view'[c], que'["Server"].TxMsgs)
      <4>1. r \in Heard(view[c], Waiting)
        BY <1>3, <3>3, WaitingHeard
      <4> QED
        BY <3>1, <3>2, <4>1, HeardNothing
    <3> QED
      BY <2>1, <3>1, <3>2, <3>3 DEF Knows
  <2>6. CASE RunEnd /\ que["Server"].Broadcast
    BY <2>6, ListIsQueued
  <2>7. CASE RunEnd /\ ~que["Server"].Broadcast
    <3>1. que' = que /\ Clients' = Clients /\ view' = view
      BY <2>7 DEF RunEnd
    <3> QED
      BY <2>1, <3>1, KnownStays
  <2> QED
    BY <1>5, <2>2, <2>3, <2>4, <2>5, <2>6, <2>7 DEF Run
<1> QED
  BY <1>4, <1>5

\* What leaves the server's queue, the clients and the users alone.
LEMMA KnownStutters ==
    ASSUME EveryoneKnown, UNCHANGED << tcpVars, Clients, view >>,
           que'["Server"] = que["Server"]
    PROVE  EveryoneKnown'
<1>1. \A c \in Watched : HasJoined(c)' <=> HasJoined(c)
  BY DEF HasJoined, isConnected, tcpVars, peerVars, sockVars
<1>2. alive' = alive
  BY DEF tcpVars
<1> QED
  BY <1>1, <1>2 DEF EveryoneKnown

LEMMA KnownStep == PostInv /\ EveryoneKnown /\ [Next]_vars => EveryoneKnown'
<1> SUFFICES ASSUME PostInv, EveryoneKnown, [Next]_vars PROVE EveryoneKnown'
  OBVIOUS
<1>1. CASE Run \/ World
  BY <1>1, NetworkKeepsKnown DEF PostInv, SubInv
<1>2. ASSUME NEW m \in Modules, Task(m) PROVE EveryoneKnown'
  <2>1. m # "Server" /\ UNCHANGED << tcpVars, Clients, view >>
    BY <1>2 DEF Task
  <2>2. que'["Server"] = que["Server"]
    BY <1>2, <2>1, TaskQueues, SubAssumption DEF PostInv, SubInv, CoreInv
  <2> QED
    BY <2>1, <2>2, KnownStutters
<1>3. CASE UNCHANGED vars
  BY <1>3, KnownStutters DEF vars, subVars
<1> QED
  BY <1>1, <1>2, <1>3 DEF Next

-----------------------------------------------------------------------------
(* Theorems.                                                               *)

THEOREM SubInvariant == Spec => []SubInv
<1>1. Init => SubInv
  BY SubInitInv
<1>2. SubInv /\ [Next]_vars => SubInv'
  BY SubStepInv
<1>3. QED
  BY <1>1, <1>2, PTL DEF Spec

\* The protocol uses the server only as TcpServer lets its owner: between two
\* calls of Listen() it reads lines and sends.  What is proved of the server
\* holds of the server inside the program.
THEOREM SubImplementsTcp == Spec => TcpSpec
<1>1. Init => TcpInit
  BY DEF Init
<1>2. SubInv /\ [Next]_vars => [TcpNext]_tcpVars
  BY StepOfServer DEF SubInv, CoreInv, CoreTypeOK
<1>3. QED
  BY <1>1, <1>2, SubInvariant, PTL DEF Spec, TcpSpec

\* Every queue and every message has its type.
THEOREM SubTypeCorrect == Spec => []TypeOK
<1>1. SubInv => TypeOK
  BY DEF SubInv, CoreInv, CoreTypeOK, MessagesTyped, TcpInv, TypeOK, SubTypeOK
<1>2. QED
  BY <1>1, SubInvariant, PTL

\* The two lists of clients, pruned one dead client per call each on its own,
\* hold the same clients, however many die at once and whenever they do.
THEOREM SubListsAgree == Spec => []ListsAgree
<1>1. SubInv => ListsAgree
  BY DEF SubInv, CoreInv, Agreement, ListsAgree
<1>2. QED
  BY <1>1, SubInvariant, PTL

\* What a user wrote is handled in order, nothing lost or doubled, and no line
\* is left in the Buffer of a closed socket.
THEOREM SubLinesConserved == Spec => []LinesConserved
<1>1. SubInv => LinesConserved
  BY DEF SubInv, CoreInv
<1>2. QED
  BY <1>1, SubInvariant, PTL

THEOREM PostInvariant == Spec => []PostInv
<1>1. Init => PostInv
  BY PostInitInv
<1>2. PostInv /\ [Next]_vars => PostInv'
  BY PostStepInv
<1>3. QED
  BY <1>1, <1>2, PTL DEF Spec

\* No list that a user holds or is about to be sent lacks anyone who is
\* connected, unless a new one is due: although the list goes out only when
\* somebody joins, behind the sending of the cycle that accepts him.
THEOREM SubEveryoneKnown == Spec => []EveryoneKnown
<1>1. Init => EveryoneKnown
  BY DEF Init, SubInit, EveryoneKnown, HasJoined, Range
<1>2. PostInv /\ EveryoneKnown /\ [Next]_vars => EveryoneKnown'
  BY KnownStep
<1>3. QED
  BY <1>1, <1>2, PostInvariant, PTL DEF Spec

\* The cycle of Run() with its sockets and lists is the mail service that the
\* other modules rely on, for any user that is looked at: who joins is asked
\* for, no report is lost, doubled or reordered between two modules, and who
\* is there is permitted.  This is the safety of ImplementsMail.
THEOREM SubIsMail ==
    Watched # {} /\ Spec => TheMail!MailInit /\ [][TheMail!MailNext]_(TheMail!mailVars)
<1> SUFFICES ASSUME Watched # {}
             PROVE  Spec => TheMail!MailInit /\ [][TheMail!MailNext]_(TheMail!mailVars)
  OBVIOUS
<1>1. Init => TheMail!MailInit
  BY StartsAsMail
<1>2. PostInv /\ [Next]_vars => [TheMail!MailNext]_(TheMail!mailVars)
  BY StepIsMail DEF MailStep
<1>3. QED
  BY <1>1, <1>2, PostInvariant, PTL DEF Spec
=============================================================================
