----------------------------- MODULE TcpServer -----------------------------
(***************************************************************************)
(* The control port: TcpServer::Listen() with the ClientSocket objects it  *)
(* creates, the peers at the other end and the kernel between them.        *)
(*                                                                         *)
(* A member of Conns is one connection attempt of a user; a user who comes *)
(* back is another member.  Data is modelled as whole lines.  inbox[c] is  *)
(* what the kernel holds for the server to read, buffer[c] the Buffer of   *)
(* the ClientSocket, sent[c] the history of what the peer wrote.           *)
(*                                                                         *)
(* peer[c] is the connection as the kernel of the server sees it:          *)
(*    none   no connection yet                                             *)
(*    open   both ends up                                                  *)
(*    fin    the peer has closed (or shut down its sending side)           *)
(*    pipe   the peer had closed, something was written to it all the same *)
(*           and its reset has come back: the next write is EPIPE          *)
(*    reset  the peer went away with a reset: the next call is ECONNRESET  *)
(*                                                                         *)
(* Listen() is split where another process can act in between: select()    *)
(* with accept(), then one step per client of the read loop.  What the     *)
(* owner of the client objects does between two calls of Listen() is       *)
(* TakeLine and SendAll.                                                   *)
(***************************************************************************)
EXTENDS Sequences, Integers, FiniteSets, Functions, SequencesExt

CONSTANTS
    Conns,          \* connection attempts
    Fds,            \* descriptors accept() may return
    NoFile,         \* File of a ClientSocket that is closed (-1)
    Lines,          \* lines a peer may send
    MaxLines,       \* bound: lines each peer sends
    Backlog,        \* connections the kernel holds for accept()
    SigPipeFatal    \* does SIGPIPE have its default action, ending the process?

ASSUME TcpAssumption ==
    /\ NoFile \notin Fds
    /\ MaxLines \in [Conns -> Nat]
    /\ Backlog \in Nat
    /\ SigPipeFatal \in BOOLEAN

VARIABLES
    peer,           \* state of each connection
    backlog,        \* connections waiting for accept(), oldest first
    inbox,          \* lines the kernel holds for the server
    sent,           \* history: every line the peer wrote
    file,           \* ClientSocket::File
    buffer,         \* ClientSocket::Buffer
    srvClients,     \* TcpServer::Clients
    listening,      \* inside Listen(), after select()
    readfs,         \* descriptors select() found readable
    unvisited,      \* clients the read loop has still to look at
    accepted,       \* what Listen() will return: << >> or << c >>
    alive           \* the process runs

peerVars == << peer, backlog, inbox, sent >>
sockVars == << file, buffer >>
srvVars  == << srvClients, listening, readfs, unvisited, accepted >>
tcpVars  == << peerVars, sockVars, srvVars, alive >>

PeerStates == {"none", "open", "fin", "pipe", "reset"}

TcpTypeOK ==
    /\ peer \in [Conns -> PeerStates]
    /\ backlog \in Seq(Conns)
    /\ inbox \in [Conns -> Seq(Lines)]
    /\ sent \in [Conns -> Seq(Lines)]
    /\ file \in [Conns -> Fds \cup {NoFile}]
    /\ buffer \in [Conns -> Seq(Lines)]
    /\ srvClients \in Seq(Conns)
    /\ listening \in BOOLEAN
    /\ readfs \subseteq Fds
    /\ unvisited \in Seq(Conns)
    /\ accepted \in {<< >>} \cup {<< c >> : c \in Conns}
    /\ alive \in BOOLEAN

TcpInit ==
    /\ peer = [c \in Conns |-> "none"]
    /\ backlog = << >>
    /\ inbox = [c \in Conns |-> << >>]
    /\ sent = [c \in Conns |-> << >>]
    /\ file = [c \in Conns |-> NoFile]
    /\ buffer = [c \in Conns |-> << >>]
    /\ srvClients = << >>
    /\ listening = FALSE
    /\ readfs = {}
    /\ unvisited = << >>
    /\ accepted = << >>
    /\ alive = TRUE

-----------------------------------------------------------------------------
(* The peers.                                                              *)

Connect(c) ==
    /\ peer[c] = "none"
    /\ Len(backlog) < Backlog
    /\ peer' = [peer EXCEPT ![c] = "open"]
    /\ backlog' = Append(backlog, c)
    /\ UNCHANGED << inbox, sent, sockVars, srvVars, alive >>

PeerSend(c, line) ==
    /\ peer[c] = "open"
    /\ Len(sent[c]) < MaxLines[c]
    /\ sent' = [sent EXCEPT ![c] = Append(@, line)]
    /\ inbox' = [inbox EXCEPT ![c] = Append(@, line)]
    /\ UNCHANGED << peer, backlog, sockVars, srvVars, alive >>

PeerClose(c) ==
    /\ peer[c] = "open"
    /\ peer' = [peer EXCEPT ![c] = "fin"]
    /\ UNCHANGED << backlog, inbox, sent, sockVars, srvVars, alive >>

\* A reset leaves what the server has not read yet readable.
PeerAbort(c) ==
    /\ peer[c] = "open"
    /\ peer' = [peer EXCEPT ![c] = "reset"]
    /\ UNCHANGED << backlog, inbox, sent, sockVars, srvVars, alive >>

Peer(c) ==
    \/ Connect(c)
    \/ \E line \in Lines : PeerSend(c, line)
    \/ PeerClose(c)
    \/ PeerAbort(c)

-----------------------------------------------------------------------------
(* ClientSocket.                                                           *)

isConnected(c) == file[c] # NoFile

CloseSocket(c) == file' = [file EXCEPT ![c] = NoFile]

\* read() on the socket would return at once.
Readable(c) == inbox[c] # << >> \/ peer[c] \in {"fin", "pipe", "reset"}

\* One read(): some of the lines that are there, else end of file or an error.
\* With nothing there and the peer up the call does not return: no step.
ReadData(c) ==
    \/ /\ inbox[c] # << >>
       /\ \E n \in 1 .. Len(inbox[c]) :
            /\ buffer' = [buffer EXCEPT ![c] = @ \o SubSeq(inbox[c], 1, n)]
            /\ inbox' = [inbox EXCEPT ![c] = SubSeq(@, n + 1, Len(@))]
       /\ UNCHANGED file
    \/ /\ inbox[c] = << >>
       /\ Readable(c)
       /\ CloseSocket(c)
       /\ UNCHANGED << buffer, inbox >>

HasLine(c) == isConnected(c) /\ buffer[c] # << >>

\* Read(line) of the first line in the Buffer of c.
TakeLine(c) ==
    /\ alive /\ ~listening
    /\ HasLine(c)
    /\ buffer' = [buffer EXCEPT ![c] = Tail(@)]
    /\ UNCHANGED << peerVars, file, srvVars, alive >>

\* Send() of k messages to each client of the set "to".  The first write to a
\* peer that has closed succeeds; its reset (answered) comes back at any later
\* moment, perhaps before the next of the k writes (late).  A write after it
\* is EPIPE and raises SIGPIPE; after a reset by the peer it is ECONNRESET.
SendAll(to, k) ==
    /\ alive /\ ~listening
    /\ LET live == {c \in to : isConnected(c) /\ k > 0}
       IN  \E answered \in SUBSET {c \in live : peer[c] = "fin"} :
           \E late \in SUBSET (IF k > 1 THEN answered ELSE {}) :
              LET broken == late \cup {c \in live : peer[c] = "pipe"}
                  failed == broken \cup {c \in live : peer[c] = "reset"}
              IN  /\ peer' = [c \in Conns |-> IF c \in answered THEN "pipe"
                                                               ELSE peer[c]]
                  /\ alive' = ~(SigPipeFatal /\ broken # {})
                  /\ file' = [c \in Conns |-> IF c \in failed THEN NoFile
                                                             ELSE file[c]]
    /\ UNCHANGED << backlog, inbox, sent, buffer, srvVars >>

-----------------------------------------------------------------------------
(* TcpServer::Listen().                                                    *)

\* Position of the first client of a list that is closed, if there is one.
FirstDead(clients) ==
    {i \in 1 .. Len(clients) : /\ ~isConnected(clients[i])
                               /\ \A j \in 1 .. i - 1 : isConnected(clients[j])}

\* Mutant of Prune: the break has slipped out of the if.
PruneHeadOnly(clients) ==
    IF clients # << >> /\ ~isConnected(clients[1]) THEN Tail(clients) ELSE clients

\* "erase the first dead client and break"
Prune(clients) ==
    IF FirstDead(clients) = {}
    THEN clients
    ELSE RemoveAt(clients, CHOOSE i \in FirstDead(clients) : TRUE)

FreeFds == {fd \in Fds : \A c \in Conns : file[c] # fd}

CanAccept(kept) == backlog # << >> /\ FreeFds # {}

\* Mutant of Accept: a connection for which there is no descriptor is lost.
AcceptOrLose(kept) ==
    /\ backlog' = IF backlog = << >> THEN backlog ELSE Tail(backlog)
    /\ IF CanAccept(kept)
       THEN /\ \E fd \in FreeFds : file' = [file EXCEPT ![Head(backlog)] = fd]
            /\ srvClients' = Append(kept, Head(backlog))
            /\ accepted' = << Head(backlog) >>
       ELSE /\ srvClients' = kept
            /\ accepted' = << >>
            /\ UNCHANGED file

\* accept() of the oldest waiting connection; it fails, and the connection
\* goes on waiting, when the process has no descriptor left.
Accept(kept) ==
    IF CanAccept(kept)
    THEN /\ \E fd \in FreeFds : file' = [file EXCEPT ![Head(backlog)] = fd]
         /\ backlog' = Tail(backlog)
         /\ srvClients' = Append(kept, Head(backlog))
         /\ accepted' = << Head(backlog) >>
    ELSE /\ srvClients' = kept
         /\ accepted' = << >>
         /\ UNCHANGED << file, backlog >>

\* Mutants of ReadyFds: every open socket counts as ready; or the set is made
\* of closed sockets too.
ReadyFdsAll(clients) == {file[c] : c \in {d \in Range(clients) : isConnected(d)}}
ReadyFdsClosed(clients) == {file[c] : c \in {d \in Range(clients) : Readable(d)}}

ReadyFds(clients) ==
    {file[c] : c \in {d \in Range(clients) : isConnected(d) /\ Readable(d)}}

\* Listen() up to the read loop: prune, select(), accept().
Listen ==
    /\ alive /\ ~listening
    /\ listening' = TRUE
    /\ readfs' = ReadyFds(Prune(srvClients))
    /\ Accept(Prune(srvClients))
    /\ unvisited' = srvClients'
    /\ UNCHANGED << peer, inbox, sent, buffer, alive >>

\* One round of the read loop.
Visit ==
    /\ alive /\ listening
    /\ unvisited # << >>
    /\ unvisited' = Tail(unvisited)
    /\ LET c == Head(unvisited)
       IN  IF isConnected(c) /\ file[c] \in readfs
           THEN ReadData(c)
           ELSE UNCHANGED << file, buffer, inbox >>
    /\ UNCHANGED << peer, backlog, sent, srvClients, listening, readfs,
                    accepted, alive >>

\* Listen() returns accepted.
Listened ==
    /\ alive /\ listening
    /\ unvisited = << >>
    /\ listening' = FALSE
    /\ readfs' = {}
    /\ accepted' = << >>
    /\ UNCHANGED << peerVars, sockVars, srvClients, unvisited, alive >>

TcpNext ==
    \/ \E c \in Conns : Peer(c) \/ TakeLine(c)
    \/ \E to \in SUBSET Conns, k \in 0 .. 2 : SendAll(to, k)
    \/ Listen
    \/ Visit
    \/ Listened

TcpSpec == TcpInit /\ [][TcpNext]_tcpVars

-----------------------------------------------------------------------------
(* What the owner of the server relies on.                                 *)

\* The loop never calls read() on a socket with nothing to read, although the
\* answer of select() is used after other sockets were read and closed and a
\* descriptor was handed out: the single thread that also steers the motors
\* would hang there (TcpServer.cpp:98-105).
ReadNeverBlocks ==
    alive /\ listening =>
        \A i \in 1 .. Len(unvisited) :
            LET c == unvisited[i]
            IN  isConnected(c) /\ file[c] \in readfs => Readable(c)

\* No two open ClientSockets share a descriptor, although the kernel reuses
\* the number of a socket that a failed Send() or ReadData() closed while its
\* object was still in the lists (ClientSocket.cpp:21-27).
DistinctFiles ==
    \A c, d \in Conns : isConnected(c) /\ file[c] = file[d] => c = d
=============================================================================
