-------------------------------- MODULE Mail --------------------------------
(***************************************************************************)
(* What the network side promises the modules, seen with the eyes of one   *)
(* user: an abstract specification of SubProtocol without sockets, lists   *)
(* or cycles.  A user joins and leaves at any time; when anybody joins     *)
(* every module is asked to report; reports are taken again and again and  *)
(* given to the user if it is there; the permission "Clients" is TRUE, in  *)
(* the end, as long as the user stays.                                     *)
(*                                                                         *)
(* SubProtocol implements this module (ImplementsMail); Housekeeping and   *)
(* Streaming put tasks of the program in the place of Task.                *)
(***************************************************************************)
EXTENDS MsgQueue, Telemetry

CONSTANTS
    Lines,          \* lines that users send
    Reports,        \* what the modules may report
    MaxTx           \* bound: reports a module has waiting

VARIABLES
    que,            \* the MsgQueue of every module
    perm,           \* the permission "Clients"
    joined,         \* the user is connected and listed as a client
    view,           \* the last report of each kind it got, by module
    up              \* the process runs

mailVars == << que, perm, joined, view, up >>

MailTypeOK ==
    /\ DOMAIN que = Modules
    /\ \A m \in Modules : /\ IsQueue(que[m], m, Lines)
                          /\ que[m].TxMsgs \in Seq(Reports)
    /\ view \in [Modules -> SUBSET Reports]
    /\ {perm, joined, up} \subseteq BOOLEAN

Nothing == [m \in Modules |-> {}]

MailInit ==
    /\ que = [m \in Modules |-> NewQueue(m)]
    /\ perm = FALSE
    /\ joined = FALSE
    /\ view = Nothing
    /\ up = TRUE

Flagged == [m \in Modules |-> SetBroadcast(que[m])]

Join ==
    /\ up /\ ~joined
    /\ joined' = TRUE
    /\ que' = Flagged
    /\ UNCHANGED << perm, view, up >>

\* Another user joins.
Announce ==
    /\ up
    /\ que' = Flagged
    /\ UNCHANGED << perm, joined, view, up >>

\* A user who comes back is a new one: it knows nothing.
Leave ==
    /\ joined
    /\ joined' = FALSE
    /\ view' = Nothing
    /\ UNCHANGED << que, perm, up >>

Deliver(line) ==
    /\ up
    /\ que' = [m \in Modules |-> Store(que[m], line)]
    /\ UNCHANGED << perm, joined, view, up >>

\* The queues are emptied, and the user is given what they held if it is there.
HandOver ==
    /\ view' = IF joined
               THEN [m \in Modules |-> Heard(view[m], que[m].TxMsgs)]
               ELSE view
    /\ que' = [m \in Modules |-> GetAllMsgs(que[m])]
    /\ UNCHANGED << perm, joined >>

Collect == up /\ HandOver /\ UNCHANGED up

\* Other users may keep the permission; this one is enough.
Permit ==
    /\ up
    /\ perm' \in BOOLEAN
    /\ joined => perm'
    /\ UNCHANGED << que, joined, view, up >>

\* The process ends while it sends (a signal; see SigPipeFatal in TcpServer).
Die == up /\ HandOver /\ up' = FALSE

NetworkNext ==
    \/ Join
    \/ Announce
    \/ Leave
    \/ \E line \in Lines : Deliver(line)
    \/ Collect
    \/ Permit
    \/ Die

\* The task of a module uses its own queue: it may take all its lines, read
\* its broadcast flag, raise it, and report.
Task(m) ==
    /\ up
    /\ Len(que[m].TxMsgs) < MaxTx
    /\ \E q \in {que[m], ReceiveAll(que[m])},
          flag \in BOOLEAN,
          r \in {<< >>} \cup {<< s >> : s \in {s \in Reports : s.Module = m}} :
            que' = [que EXCEPT ![m] =
                      [q EXCEPT !.Broadcast = flag,
                                !.TxMsgs = @ \o r]]
    /\ UNCHANGED << perm, joined, view, up >>

MailNext == NetworkNext \/ \E m \in Modules : Task(m)

MailFairness == WF_mailVars(Collect) /\ WF_mailVars(joined /\ Permit)

MailSpec == MailInit /\ [][MailNext]_mailVars /\ MailFairness
=============================================================================
