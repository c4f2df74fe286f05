---------------------------- MODULE SubProtocol ----------------------------
(***************************************************************************)
(* The network side of the main loop (src/src/SubProtocol): it accepts     *)
(* users, hands their lines to the queues of the modules, sends what the   *)
(* modules report to every user, and keeps the permission "Clients" that   *)
(* the motors and the lights depend on.                                    *)
(*                                                                         *)
(* One call of Run() is the sequence                                       *)
(*                                                                         *)
(*   main --RunBegin--> listen --Listen, Visit*, Returned--> lines         *)
(*        --ReadLine*, SendUpdatedData--> finish --RunEnd--> main          *)
(*                                                                         *)
(* with the peers acting between any two steps.  Run() itself is a step    *)
(* of the main loop, which otherwise runs the tasks of the modules: here   *)
(* each task is anything the interface of the queue allows; the module     *)
(* ROSVControl puts real ones in their place.                              *)
(***************************************************************************)
EXTENDS TcpServer, MsgQueue, Telemetry

CONSTANTS
    ModList,        \* the modules in the order SubProtocol::Add() saw them
    Reports,        \* what the modules other than "Server" may report
    MaxTx,          \* bound: reports a module has waiting
    Watched         \* bound: the users whose view is recorded

ASSUME SubAssumption ==
    /\ ModList \in Seq(Modules)
    /\ Modules = Range(ModList)
    /\ "Server" \in Modules
    /\ \A r \in Reports : r.Module \in Modules \ {"Server"}
    /\ MaxTx \in Nat
    /\ Watched \subseteq Conns

VARIABLES
    Clients,        \* SubProtocol::Clients
    que,            \* the MsgQueue of every module of ModList
    perm,           \* value of the permission "Clients"
    pc,             \* where Run() is; "main" when it is not running
    heard,          \* history: lines of each client given to the queues
    view            \* history: last report of each kind each user received

subVars == << Clients, que, perm, pc, heard, view >>
vars    == << tcpVars, subVars >>

\* All the messages the queues can hold.
ServerReports ==
    [Module : {"Server"}, RecordType : {"Version"}, Data : {"id"}]
        \cup [Module : {"Server"}, RecordType : {"Clients"}, Data : Seq(Conns)]

Messages == Reports \cup ServerReports

SubTypeOK ==
    /\ Clients \in Seq(Conns)
    /\ DOMAIN que = Modules
    /\ \A m \in Modules : /\ IsQueue(que[m], m, Lines)
                          /\ que[m].TxMsgs \in Seq(Messages)
    /\ perm \in BOOLEAN
    /\ pc \in {"main", "listen", "lines", "finish"}
    /\ heard \in [Conns -> Seq(Lines)]
    /\ view \in [Conns -> SUBSET Messages]

TypeOK == TcpTypeOK /\ SubTypeOK

SubInit ==
    /\ Clients = << >>
    /\ que = [m \in Modules |-> NewQueue(m)]
    /\ perm = FALSE
    /\ pc = "main"
    /\ heard = [c \in Conns |-> << >>]
    /\ view = [c \in Conns |-> {}]

Init == TcpInit /\ SubInit

-----------------------------------------------------------------------------
(* SubProtocol::Run().                                                     *)

\* Mutant of RunBegin: the protocol leaves the pruning to the server.
RunBeginKeepsDead ==
    /\ alive /\ pc = "main"
    /\ pc' = "listen"
    /\ UNCHANGED << tcpVars, Clients, que, perm, heard, view >>

RunBegin ==
    /\ alive /\ pc = "main"
    /\ Clients' = Prune(Clients)
    /\ pc' = "listen"
    /\ UNCHANGED << tcpVars, que, perm, heard, view >>

CallListen ==
    /\ pc = "listen"
    /\ Listen \/ Visit
    /\ UNCHANGED subVars

\* Mutants of SetBroadcastAll: the loop starts behind the server's own queue;
\* or it ends after that one.
SetBroadcastOthers ==
    [m \in Modules |-> IF m = "Server" THEN que[m] ELSE SetBroadcast(que[m])]
SetBroadcastFirst ==
    [m \in Modules |-> IF m = Head(ModList) THEN SetBroadcast(que[m]) ELSE que[m]]

SetBroadcastAll == [m \in Modules |-> SetBroadcast(que[m])]

\* Listen() has returned: a new client is entered, and every module is told
\* that someone needs to hear its state.
Returned ==
    /\ pc = "listen"
    /\ Listened
    /\ Clients' = Clients \o accepted
    /\ que' = IF accepted # << >> THEN SetBroadcastAll ELSE que
    /\ pc' = "lines"
    /\ UNCHANGED << perm, heard, view >>

\* Mutant of ProcessLine: a line is stored twice.
ProcessLineTwice(line) == que' = [m \in Modules |-> Store(Store(que[m], line), line)]

ProcessLine(line) == que' = [m \in Modules |-> Store(que[m], line)]

\* The next line of the first client that has one.
ReadLine ==
    /\ pc = "lines"
    /\ \E i \in 1 .. Len(Clients) :
         LET c == Clients[i]
         IN  /\ HasLine(c)
             /\ \A j \in 1 .. i - 1 : ~HasLine(Clients[j])
             /\ TakeLine(c)
             /\ ProcessLine(Head(buffer[c]))
             /\ heard' = [heard EXCEPT ![c] = Append(@, Head(buffer[c]))]
    /\ UNCHANGED << Clients, perm, pc, view >>

\* What waits in the queues, in the order SendUpdatedData() takes it.
Waiting == FlattenSeq([i \in 1 .. Len(ModList) |-> que[ModList[i]].TxMsgs])

\* Mutant of LinesRead: the sending does not wait for the reading.
LinesReadOrNot == TRUE

\* The loop over the clients has read every line.
LinesRead == \A i \in 1 .. Len(Clients) : ~HasLine(Clients[i])

SendUpdatedData ==
    /\ pc = "lines"
    /\ LinesRead
    /\ SendAll(Range(Clients), Len(Waiting))
    /\ que' = [m \in Modules |-> GetAllMsgs(que[m])]
    /\ view' = [c \in Conns |->
                  IF /\ c \in Watched \cap Range(Clients)
                     /\ isConnected(c) /\ peer[c] = "open"
                  THEN Heard(view[c], Waiting)
                  ELSE view[c]]
    /\ pc' = "finish"
    /\ UNCHANGED << Clients, perm, heard >>

SendServerId(q) == Send(q, "Version", "id")

\* Mutant of SendClientData: the loop over the clients starts behind the first.
SendClientDataRest(q) == Send(q, "Clients", IF Clients = << >> THEN << >> ELSE Tail(Clients))

\* The report lists the clients by name, closed ones not yet pruned included.
SendClientData(q) == Send(q, "Clients", Clients)

\* Mutant of Permitted: the permission is only ever given.
PermittedOnce == perm \/ Clients # << >>

\* What Run() sets the permission to.
Permitted == Clients # << >>

RunEnd ==
    /\ alive /\ pc = "finish"
    /\ perm' = Permitted
    /\ que' = IF que["Server"].Broadcast
              THEN [que EXCEPT !["Server"] =
                        SendClientData(SendServerId(IsBroadcastDone(@)))]
              ELSE que
    /\ pc' = "main"
    /\ UNCHANGED << tcpVars, Clients, heard, view >>

Run ==
    \/ RunBegin
    \/ CallListen
    \/ Returned
    \/ ReadLine
    \/ SendUpdatedData
    \/ RunEnd

-----------------------------------------------------------------------------
(* The rest of the process and the world.                                  *)

\* The task of a module uses its own queue: it may take all its lines, read
\* its broadcast flag, raise it, and report.
Task(m) ==
    /\ alive /\ pc = "main"
    /\ m # "Server"
    /\ Len(que[m].TxMsgs) < MaxTx
    /\ \E q \in {que[m], ReceiveAll(que[m])},
          flag \in BOOLEAN,
          r \in {<< >>} \cup {<< s >> : s \in {s \in Reports : s.Module = m}} :
            que' = [que EXCEPT ![m] =
                      [q EXCEPT !.Broadcast = flag,
                                !.TxMsgs = @ \o r]]
    /\ UNCHANGED << tcpVars, Clients, perm, pc, heard, view >>

World ==
    /\ \E c \in Conns : Peer(c)
    /\ UNCHANGED subVars

Next ==
    \/ Run
    \/ \E m \in Modules : Task(m)
    \/ World

\* RunTasks() returns a positive time again and again, so that the main loop
\* keeps calling Run(), and no call in Run() waits for ever.
Fairness == WF_vars(Run)

Spec == Init /\ [][Next]_vars /\ Fairness

-----------------------------------------------------------------------------
(* Refinement: the cycle of Run() with its sockets and lists keeps what    *)
(* Mail promises the modules and each user.                                *)

Others == Modules \ {"Server"}

HasJoined(c) == c \in Range(Clients) /\ isConnected(c) /\ peer[c] = "open"

\* Any one of the users, who are all alike.
TheUser == CHOOSE c \in Watched : TRUE

TheMail ==
    INSTANCE Mail WITH
        Modules <- Others,
        que     <- [m \in Others |-> que[m]],
        joined  <- HasJoined(TheUser),
        view    <- [m \in Others |->
                      IF HasJoined(TheUser)
                      THEN {r \in view[TheUser] : r.Module = m} ELSE {}],
        up      <- alive

\* For every user the network side is the mail service that the modules are
\* written for, fairness included: no report is lost or reordered between two
\* of them, nobody joins unannounced, and who stays is permitted.
ImplementsMail == TheMail!MailSpec

-----------------------------------------------------------------------------
(* Properties.                                                             *)

\* The server and the protocol each keep a list of the clients and prune it
\* on their own.  The lists never drift apart: a client left in one of them
\* would have its lines buffered and never read, or would keep the motors
\* permitted (SubProtocol.cpp:90-104 against TcpServer.cpp:68-96).
ListsAgree ==
    alive => CASE pc # "listen" -> srvClients = Clients
               [] pc = "listen" /\ ~listening -> Clients = Prune(srvClients)
               [] OTHER -> srvClients = Clients \o accepted

\* Lines are handled in the order the peer wrote them, none lost or doubled,
\* as long as the socket is open; and a socket that closes leaves nothing
\* unhandled in its Buffer, which Read() of a closed socket would never
\* return (ClientSocket.cpp:55-81).
LinesConserved ==
    \A c \in Conns :
        /\ sent[c] = heard[c] \o buffer[c] \o inbox[c]
        /\ ~isConnected(c) => buffer[c] = << >>

\* A user whose connection is gone is forgotten by both lists and its
\* descriptor is given back, whatever the order in which clients die: only
\* one of each list is removed per cycle.
Forgotten(c) ==
    c \notin Range(Clients) \cup Range(srvClients) /\ ~isConnected(c)

GoneForgotten ==
    \A c \in Conns : peer[c] \in {"fin", "pipe", "reset"} /\ isConnected(c)
                        ~> Forgotten(c) \/ ~alive

\* A user who is accepted and stays is told who is connected, itself
\* included, although the report is queued after the sending of its cycle
\* (SubProtocol.cpp:113-118).
Introduced(c) ==
    \E r \in view[c] : r.RecordType = "Clients" /\ c \in Range(r.Data)

NewcomerIntroduced ==
    \A c \in Watched :
        isConnected(c) ~> Introduced(c) \/ peer[c] # "open" \/ ~alive

\* No list of the clients that a user holds lacks one who is connected, itself
\* included, unless a new list is due: nobody joins unnoticed, although lists
\* are sent only when somebody joins, one cycle late, and not when somebody
\* leaves (SubProtocol.cpp:99-118).
EveryoneKnown ==
    \A c \in Watched : alive /\ HasJoined(c) =>
        \/ que["Server"].Broadcast
        \/ \E r \in Heard(view[c], que["Server"].TxMsgs) :
              /\ r.Module = "Server" /\ r.RecordType = "Clients"
              /\ Range(Clients) \subseteq Range(r.Data)

\* Once every user is gone for good the permission is withdrawn, and stays so.
PermissionWithdrawn ==
    <>[](\A c \in Conns : peer[c] # "open" /\ c \notin Range(backlog))
        => <>[](~perm \/ ~alive)

\* A user who waits is accepted as long as users who stay do not hold all the
\* descriptors for good: the dead give theirs back, and an accept() that has
\* failed for want of one leaves the user waiting and is tried again
\* (TcpServer.cpp:88-99).
Staying == {c \in Conns : isConnected(c) /\ peer[c] = "open"}

PendingAccepted ==
    []<>(Cardinality(Staying) < Cardinality(Fds)) =>
        \A c \in Conns : c \in Range(backlog) ~> isConnected(c) \/ ~alive
=============================================================================
