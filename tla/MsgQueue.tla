------------------------------ MODULE MsgQueue ------------------------------
(***************************************************************************)
(* The mailbox between the network loop and one module (src/src/MsgQueue). *)
(* Every module owns one: SubProtocol stores received lines in it, sends   *)
(* what the module reports to the clients, and raises its broadcast flag   *)
(* when a client has joined; the module's task takes the lines, queues     *)
(* reports, and reads and clears the flag.                                 *)
(*                                                                         *)
(* A line is a record with the field Module (the JSON key the queue looks  *)
(* at); a report is a record [Module, RecordType, Data].  All methods run  *)
(* on the main thread, so each is an operator from queue to queue.         *)
(***************************************************************************)
EXTENDS Sequences

CONSTANTS
    Modules,        \* names of the modules that own a queue
    UpdateModules   \* those whose queue is constructed with update = true

NewQueue(module) ==
    [ Module    |-> module,
      Update    |-> module \in UpdateModules,
      Broadcast |-> FALSE,
      RxMsgs    |-> << >>,
      TxMsgs    |-> << >> ]

QueueFields == {"Module", "Update", "Broadcast", "RxMsgs", "TxMsgs"}

\* q is a queue of the module, and the lines in it are of the given set.
IsQueue(q, module, lines) ==
    /\ DOMAIN q = QueueFields
    /\ q.Module = module
    /\ q.Update = (module \in UpdateModules)
    /\ q.Broadcast \in BOOLEAN
    /\ q.RxMsgs \in Seq(lines)

SetBroadcast(q) == [q EXCEPT !.Broadcast = TRUE]

\* IsBroadcast() returns the flag and clears it: the caller reads q.Broadcast
\* and continues with this queue.
IsBroadcastDone(q) == [q EXCEPT !.Broadcast = FALSE]

\* A queue accepts a line only if its module takes commands and is the one
\* the line names.
Store(q, line) ==
    IF q.Update /\ line.Module = q.Module
    THEN [q EXCEPT !.RxMsgs = Append(@, line)]
    ELSE q

ReceiveReady(q) == q.RxMsgs # << >>

\* The task's loop "while ReceiveReady() Receive()" leaves nothing behind.
ReceiveAll(q) == [q EXCEPT !.RxMsgs = << >>]

Report(module, record, data) ==
    [Module |-> module, RecordType |-> record, Data |-> data]

Send(q, record, data) ==
    [q EXCEPT !.TxMsgs = Append(@, Report(q.Module, record, data))]

SendIf(q, needed, record, data) ==
    IF needed THEN Send(q, record, data) ELSE q

\* The loop "while MsgWaiting() GetMsg()" empties the queue, oldest first.
GetAllMsgs(q) == [q EXCEPT !.TxMsgs = << >>]
=============================================================================
