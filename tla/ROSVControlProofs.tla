------------------------- MODULE ROSVControlProofs --------------------------
(***************************************************************************)
(* Proofs about the main loop, in which the network side and the           *)
(* navigation share the queues and the permission: for any users, modules, *)
(* motors, lines and alarms.                                               *)
(*                                                                         *)
(* What is proved of SubProtocol with arbitrary tasks (CoreInv) holds with *)
(* the real ones.  TelemetryCurrent needs more: a user hears the queues of *)
(* all modules one after the other, so that what the queue of one module   *)
(* makes it know must survive the queues behind it (Signed, of module      *)
(* SubProtocolProofs: a queue only holds reports in the name of its        *)
(* module); and a task that sends on change only compares with what it     *)
(* last had, value by value (SameMotors).                                  *)
(*                                                                         *)
(* Then: every step of the main loop is one that Navigation allows in its  *)
(* company, or one it does not see; and the motors stop, keep to the ramp  *)
(* and have power only while somebody is listed (MotorInv).                *)
(***************************************************************************)
EXTENDS ROSVControl, SubProtocolProofs

\* The powers that were last looked at are those of the motors, of no others.
SameMotors == LastValue = [m \in Motors |-> LastValue[m]]

SystemInv ==
    /\ CoreInv
    /\ \A m \in Modules : Signed(que[m])
    /\ SameMotors
    /\ TelemetryCurrent

-----------------------------------------------------------------------------
(* The network side: who is looked at, and what it has been told.          *)

\* The users TelemetryCurrent speaks of.
Follows(c) == c \in Watched /\ alive /\ HasJoined(c)

\* r is known to c once the queue of m has been sent, or m is asked to report.
Due(c, m, r) == que[m].Broadcast \/ r \in Heard(view[c], que[m].TxMsgs)

MotorData   == Report("Motor", "MotorData", LastValue)
Permissions == Report("Motor", "Permissions", LastPermission)
Vectors     == Report("Navigation", "ReportVectors", Nav!VectorReport(CVec))

AllDue(c) ==
    /\ Due(c, "Motor", MotorData)
    /\ Due(c, "Motor", Permissions)
    /\ Due(c, "Navigation", Vectors)

LEMMA CurrentIsDue == TelemetryCurrent <=> \A c \in Conns : Follows(c) => AllDue(c)
<1>1. \A c \in Watched \cap Range(Clients) : c \in Conns
  BY SubAssumption
<1> QED
  BY <1>1 DEF TelemetryCurrent, Told, Follows, HasJoined, AllDue, Due, MotorData,
     Permissions, Vectors

LEMMA DueIsCurrent ==
    ASSUME \A c \in Conns : Follows(c)' => AllDue(c)'
    PROVE  TelemetryCurrent'
<1>1. \A c \in Watched : c \in Conns
  BY SubAssumption
<1> QED
  BY <1>1 DEF TelemetryCurrent, Told, Follows, HasJoined, AllDue, Due, MotorData,
     Permissions, Vectors

\* A step that leaves the tasks and the reports alone, and raises no more than
\* the flags, keeps what is due.
LEMMA StaysDue ==
    ASSUME NEW c \in Conns, AllDue(c), UNCHANGED controlVars, view'[c] = view[c],
           \A m \in {"Motor", "Navigation"} :
              /\ que'[m].TxMsgs = que[m].TxMsgs
              /\ que[m].Broadcast => que'[m].Broadcast
    PROVE  AllDue(c)'
<1>1. UNCHANGED << LastValue, LastPermission, CVec >>
  BY DEF controlVars
<1>2. ASSUME NEW m \in {"Motor", "Navigation"}, NEW r, Due(c, m, r)
      PROVE  que'[m].Broadcast \/ r \in Heard(view'[c], que'[m].TxMsgs)
  BY <1>2 DEF Due
<1>3. /\ MotorData' = MotorData /\ Permissions' = Permissions /\ Vectors' = Vectors
  BY <1>1 DEF MotorData, Permissions, Vectors, Nav!VectorReport
<1>4. Due(c, "Motor", MotorData)'
  BY <1>2, <1>3 DEF Due, AllDue
<1>5. Due(c, "Motor", Permissions)'
  BY <1>2, <1>3 DEF Due, AllDue
<1>6. Due(c, "Navigation", Vectors)'
  BY <1>2, <1>3 DEF Due, AllDue
<1> QED
  BY <1>4, <1>5, <1>6 DEF AllDue

\* What SendUpdatedData() has sent is known.
LEMMA SentIsKnown ==
    ASSUME SystemInv, SendUpdatedData, UNCHANGED controlVars,
           NEW c \in Conns, Follows(c), AllDue(c)
    PROVE  AllDue(c)'
<1>1. /\ que' = [m \in Modules |-> GetAllMsgs(que[m])]
      /\ view'[c] = Heard(view[c], Waiting)
  BY DEF SendUpdatedData, Follows, HasJoined
<1>2. ASSUME NEW m \in {"Motor", "Navigation"}, NEW r, r.Module = m, Due(c, m, r)
      PROVE  que'[m].Broadcast \/ r \in Heard(view'[c], que'[m].TxMsgs)
  <2>1. m \in Modules /\ IsQueue(que[m], m, Lines)
    BY SystemAssumption DEF SystemInv, CoreInv, CoreTypeOK
  <2>2. que'[m].Broadcast = que[m].Broadcast /\ que'[m].TxMsgs = << >>
    BY <1>1, <2>1 DEF GetAllMsgs, IsQueue, QueueFields
  <2>3. r \in Heard(view[c], Waiting) <=> r \in Heard(view[c], que[m].TxMsgs)
    BY <1>2, <2>1, WaitingHeard DEF SystemInv
  <2> QED
    BY <1>1, <1>2, <2>2, <2>3, HeardNothing DEF Due
<1>3. /\ MotorData' = MotorData /\ Permissions' = Permissions /\ Vectors' = Vectors
      /\ MotorData.Module = "Motor" /\ Permissions.Module = "Motor"
      /\ Vectors.Module = "Navigation"
  BY DEF controlVars, MotorData, Permissions, Vectors, Nav!VectorReport, Report
<1>4. Due(c, "Motor", MotorData)'
  BY <1>2, <1>3 DEF Due, AllDue
<1>5. Due(c, "Motor", Permissions)'
  BY <1>2, <1>3 DEF Due, AllDue
<1>6. Due(c, "Navigation", Vectors)'
  BY <1>2, <1>3 DEF Due, AllDue
<1> QED
  BY <1>4, <1>5, <1>6 DEF AllDue

\* What the steps of Run() but the sending do to the queues of the tasks.
LEMMA RunQueues ==
    ASSUME CoreInv, Run \/ World, ~SendUpdatedData, NEW m \in Modules \ {"Server"}
    PROVE  /\ que'[m].TxMsgs = que[m].TxMsgs
           /\ que[m].Broadcast => que'[m].Broadcast
           /\ view' = view
<1>1. IsQueue(que[m], m, Lines) /\ DOMAIN que = Modules
  BY DEF CoreInv, CoreTypeOK
<1>2. CASE RunBegin \/ CallListen \/ World
  BY <1>2 DEF RunBegin, CallListen, World, subVars
<1>3. CASE Returned
  <2>1. que'[m] = SetBroadcast(que[m]) \/ que'[m] = que[m]
    BY <1>3 DEF Returned, SetBroadcastAll
  <2> QED
    BY <1>1, <1>3, <2>1 DEF Returned, SetBroadcast, IsQueue, QueueFields
<1>4. CASE ReadLine
  <2>1. PICK line : que'[m] = Store(que[m], line)
    BY <1>4 DEF ReadLine, ProcessLine
  <2> QED
    BY <1>1, <1>4, <2>1 DEF ReadLine, Store, IsQueue, QueueFields
<1>5. CASE RunEnd
  BY <1>1, <1>5 DEF RunEnd
<1> QED
  BY <1>2, <1>3, <1>4, <1>5 DEF Run

\* Whoever is new is due everything: all flags are raised.
LEMMA NewcomerDue ==
    ASSUME SystemInv, Returned, UNCHANGED controlVars,
           NEW c \in Conns, Follows(c)', ~Follows(c)
    PROVE  AllDue(c)'
<1>1. accepted # << >>
  <2>1. SUFFICES ASSUME accepted = << >> PROVE FALSE
    OBVIOUS
  <2>2. Clients' = Clients
    <3>1. Clients \in Seq(Conns)
      BY DEF SystemInv, CoreInv, CoreTypeOK
    <3> QED
      BY <2>1, <3>1, ConcatEmptySeq DEF Returned
  <2>3. UNCHANGED << file, peer, alive >>
    BY DEF Returned, Listened, peerVars, sockVars
  <2> QED
    BY <2>2, <2>3 DEF Follows, HasJoined, isConnected
<1>2. ASSUME NEW m \in {"Motor", "Navigation"} PROVE que'[m].Broadcast
  <2>1. m \in Modules /\ IsQueue(que[m], m, Lines)
    BY SystemAssumption DEF SystemInv, CoreInv, CoreTypeOK
  <2>2. que'[m] = SetBroadcast(que[m])
    BY <1>1, <2>1 DEF Returned, SetBroadcastAll
  <2> QED
    BY <2>1, <2>2 DEF SetBroadcast, IsQueue, QueueFields
<1> QED
  BY <1>2 DEF AllDue, Due

LEMMA NetworkKeepsCurrent ==
    ASSUME SystemInv, Network
    PROVE  TelemetryCurrent'
<1>1. (Run \/ World) /\ UNCHANGED controlVars /\ CoreInv
  BY DEF Network, SystemInv
<1>2. \A c \in Conns : Follows(c) => AllDue(c)
  BY CurrentIsDue DEF SystemInv
<1>3. "Motor" \in Modules \ {"Server"} /\ "Navigation" \in Modules \ {"Server"}
  BY SystemAssumption
<1>4. ASSUME NEW c \in Conns, Follows(c)' PROVE AllDue(c)'
  <2>1. CASE ~Follows(c)
    <3>1. HasJoined(c)' /\ c \in Watched /\ alive
      BY <1>1, <1>4, StaysDead DEF Follows
    <3>2. ~HasJoined(c)
      BY <2>1, <3>1 DEF Follows
    <3>3. Returned
      BY <1>1, <3>1, <3>2, NobodyNew
    <3> QED
      BY <1>1, <1>4, <2>1, <3>3, NewcomerDue
  <2>2. CASE Follows(c) /\ SendUpdatedData
    BY <1>1, <1>2, <2>2, SentIsKnown
  <2>3. CASE Follows(c) /\ ~SendUpdatedData
    <3>1. \A m \in {"Motor", "Navigation"} :
             /\ que'[m].TxMsgs = que[m].TxMsgs
             /\ que[m].Broadcast => que'[m].Broadcast
             /\ view' = view
      BY <1>1, <1>3, <2>3, RunQueues
    <3>2. view'[c] = view[c]
      BY <3>1
    <3> QED
      BY <1>1, <1>2, <2>3, <3>1, <3>2, StaysDue
  <2> QED
    BY <2>1, <2>2, <2>3
<1> QED
  BY <1>4, DueIsCurrent

-----------------------------------------------------------------------------
(* The tasks.                                                              *)

\* The motors' queue after the navigation task, in the operators of the
\* network side.
LEMMA MotorQueue ==
    ASSUME NEW q, NEW update
    PROVE  Nav!UpdateReports(q, update) =
             LET power == Nav!RunMotors(update)
             IN  SendIf(SendIf(SendIf(IsBroadcastDone(q),
                                      Nav!SendMotor(q.Broadcast, power), "MotorData", power),
                               q.Broadcast \/ LastAlm # Nav!GetGroupState, "Alarm",
                               Nav!AlarmReport),
                        q.Broadcast \/ LastPermission # perm, "Permissions", perm)
  BY DEF Nav!UpdateReports, Nav!SendIf, SendIf, Nav!Send, Send, Nav!Report, Report,
     Nav!IsBroadcastDone, IsBroadcastDone

\* And the navigation's own.
Asked(q) == q.Broadcast \/ \E i \in 1 .. Len(q.RxMsgs) : Nav!Understood(q.RxMsgs[i])

LEMMA NavQueue ==
    ASSUME NEW q, NEW vec
    PROVE  Nav!NavReports(q, vec) =
             SendIf(IsBroadcastDone(ReceiveAll(q)), Asked(q), "ReportVectors",
                    Nav!VectorReport(vec))
  BY DEF Nav!NavReports, Asked, Nav!SendIf, SendIf, Nav!Send, Send, Nav!Report, Report,
     Nav!IsBroadcastDone, IsBroadcastDone, Nav!ReceiveAll, ReceiveAll

\* A vector that no line was understood to change is the same to the users.
LEMMA VectorStays ==
    ASSUME NEW lines, \A i \in 1 .. Len(lines) : ~Nav!Understood(lines[i])
    PROVE  Nav!VectorReport(Nav!ParseAll(lines)) = Nav!VectorReport(CVec)
<1>1. ASSUME NEW f \in Nav!Fields PROVE Nav!ParseAll(lines)[f] = CVec[f]
  <2>1. {i \in 1 .. Len(lines) : Nav!Sets(lines[i], f)} = {}
    BY DEF Nav!Sets
  <2> QED
    BY <2>1 DEF Nav!ParseAll
<1>2. \A ch \in Nav!Channels : Nav!Field[ch] \in Nav!Fields
  BY DEF Nav!Channels, Nav!Field, Nav!Fields
<1> QED
  BY <1>1, <1>2 DEF Nav!VectorReport

\* What the task leaves in the queues, and what it remembers.
LEMMA TaskLeaves ==
    ASSUME SystemInv, NavigationTask
    PROVE  /\ DOMAIN que' = Modules
           /\ \A m \in Modules : IsQueue(que'[m], m, Lines) /\ Signed(que'[m])
           /\ que'["Motor"] = Nav!UpdateReports(que["Motor"], Nav!UpdateVector(CVec'))
           /\ que'["Navigation"] = Nav!NavReports(que["Navigation"], CVec')
           /\ CVec' = Nav!ParseAll(que["Navigation"].RxMsgs)
           /\ LastValue' = Nav!RunMotors(Nav!UpdateVector(CVec'))
           /\ LastPermission' = perm /\ perm' = perm
           /\ SameMotors'
<1> DEFINE U == Nav!UpdateVector(CVec')
<1>1. /\ DOMAIN que = Modules
      /\ \A m \in Modules : IsQueue(que[m], m, Lines) /\ Signed(que[m])
      /\ "Motor" \in Modules /\ "Navigation" \in Modules
  BY SystemAssumption DEF SystemInv, CoreInv, CoreTypeOK
<1>2. /\ que' = [que EXCEPT !["Motor"] = Nav!UpdateReports(@, U),
                            !["Navigation"] = Nav!NavReports(@, CVec')]
      /\ CVec' = Nav!ParseAll(que["Navigation"].RxMsgs)
      /\ Nav!Update(U) /\ perm' = perm
  BY DEF NavigationTask, Nav!RunTask
<1> HIDE DEF U
<1>3. /\ LastValue' = Nav!RunMotors(U) /\ LastPermission' = perm
  BY <1>2 DEF Nav!Update
<1>4. SameMotors'
  BY <1>3 DEF SameMotors, Nav!RunMotors
<1>5. /\ DOMAIN que' = Modules
      /\ que'["Motor"] = Nav!UpdateReports(que["Motor"], U)
      /\ que'["Navigation"] = Nav!NavReports(que["Navigation"], CVec')
      /\ \A m \in Modules \ {"Motor", "Navigation"} : que'[m] = que[m]
  BY <1>1, <1>2
<1>6. IsQueue(que'["Motor"], "Motor", Lines) /\ Signed(que'["Motor"])
  <2>1. PICK q : q = que["Motor"]
    OBVIOUS
  <2>2. PICK q0 : q0 = IsBroadcastDone(q)
    OBVIOUS
  <2>3. PICK power : power = Nav!RunMotors(U)
    OBVIOUS
  <2>4. PICK q1 : q1 = SendIf(q0, Nav!SendMotor(q.Broadcast, power), "MotorData", power)
    OBVIOUS
  <2>5. PICK q2 : q2 = SendIf(q1, q.Broadcast \/ LastAlm # Nav!GetGroupState, "Alarm",
                              Nav!AlarmReport)
    OBVIOUS
  <2>6. que'["Motor"] = SendIf(q2, q.Broadcast \/ LastPermission # perm, "Permissions", perm)
    BY <1>5, <2>1, <2>2, <2>3, <2>4, <2>5, MotorQueue
  <2>7. IsQueue(q0, "Motor", Lines) /\ Signed(q0)
    BY <1>1, <2>1, <2>2, QueuesTyped, SignedKept
  <2>8. IsQueue(q1, "Motor", Lines) /\ Signed(q1)
    BY <2>4, <2>7, SignedSendIf
  <2>9. IsQueue(q2, "Motor", Lines) /\ Signed(q2)
    BY <2>5, <2>8, SignedSendIf
  <2> QED
    BY <2>6, <2>9, SignedSendIf
<1>7. IsQueue(que'["Navigation"], "Navigation", Lines) /\ Signed(que'["Navigation"])
  <2>1. PICK q : q = que["Navigation"]
    OBVIOUS
  <2>2. PICK q0 : q0 = IsBroadcastDone(ReceiveAll(q))
    OBVIOUS
  <2>3. IsQueue(ReceiveAll(q), "Navigation", Lines) /\ Signed(ReceiveAll(q))
    BY <1>1, <2>1, QueuesTyped, SignedKept
  <2>4. IsQueue(q0, "Navigation", Lines) /\ Signed(q0)
    BY <2>2, <2>3, QueuesTyped, SignedKept
  <2>5. que'["Navigation"] = SendIf(q0, Asked(q), "ReportVectors", Nav!VectorReport(CVec'))
    BY <1>5, <2>1, <2>2, NavQueue
  <2> QED
    BY <2>4, <2>5, SignedSendIf
<1> QED
  BY <1>1, <1>2, <1>3, <1>4, <1>5, <1>6, <1>7 DEF U

\* A queue of the invariant is one the lemmas about what is known speak of.
LEMMA QueueIsMailbox ==
    ASSUME NEW m, NEW q, IsQueue(q, m, Lines), Signed(q)
    PROVE  IsMailbox(q) /\ q.Module = m
  BY SignedList DEF IsQueue, IsMailbox

LEMMA MotorsDue ==
    ASSUME SystemInv, NavigationTask, NEW c \in Conns, AllDue(c)
    PROVE  Due(c, "Motor", MotorData)' /\ Due(c, "Motor", Permissions)'
<1>1. /\ IsQueue(que["Motor"], "Motor", Lines) /\ Signed(que["Motor"])
  BY SystemAssumption DEF SystemInv, CoreInv, CoreTypeOK
<1>2. PICK q : q = que["Motor"]
  OBVIOUS
<1>3. PICK p : p = que'["Motor"]
  OBVIOUS
<1>4. IsMailbox(q) /\ q.Module = "Motor"
  BY <1>1, <1>2, QueueIsMailbox
<1>5. PICK power : power = Nav!RunMotors(Nav!UpdateVector(CVec'))
  OBVIOUS
<1>6. PICK n1 : n1 = Nav!SendMotor(q.Broadcast, power)
  OBVIOUS
<1>7. PICK n2 : n2 = (q.Broadcast \/ LastAlm # Nav!GetGroupState)
  OBVIOUS
<1>8. PICK n3 : n3 = (q.Broadcast \/ LastPermission # perm)
  OBVIOUS
<1>9. PICK k1, k2, k3 : k1 = "MotorData" /\ k2 = "Alarm" /\ k3 = "Permissions"
  OBVIOUS
<1>10. PICK d2 : d2 = Nav!AlarmReport
  OBVIOUS
<1>11. p = SendIf(SendIf(SendIf(IsBroadcastDone(q), n1, k1, power), n2, k2, d2), n3, k3, perm)
  BY <1>2, <1>3, <1>5, <1>6, <1>7, <1>8, <1>9, <1>10, TaskLeaves, MotorQueue
<1>12. k1 # k2 /\ k1 # k3 /\ k2 # k3
  BY <1>9
<1>13. PICK r1, r2, r3 : /\ r1 = Report(q.Module, k1, power)
                         /\ r2 = Report(q.Module, k2, d2)
                         /\ r3 = Report(q.Module, k3, perm)
  OBVIOUS
<1>14. Reported(p, q, n1, r1, n2, r2, n3, r3)
  BY <1>4, <1>11, <1>12, <1>13, ThreeReports
<1>15. /\ n1 => r1 \in Heard(view[c], p.TxMsgs)
       /\ n3 => r3 \in Heard(view[c], p.TxMsgs)
  BY <1>14 DEF Reported, Informs
<1>16. /\ r1.RecordType = k1 /\ r2.RecordType = k2 /\ r3.RecordType = k3
  BY <1>13 DEF Report
<1>17. ASSUME NEW r, r \in Heard(view[c], q.TxMsgs),
              (n1 => r.RecordType # k1) /\ r.RecordType # k2 /\ (n3 => r.RecordType # k3)
       PROVE  r \in Heard(view[c], p.TxMsgs)
  BY <1>14, <1>16, <1>17 DEF Reported, Keeps
<1>18. MotorData' = r1
  BY <1>4, <1>5, <1>9, <1>13, TaskLeaves DEF MotorData
<1>19. Permissions' = r3
  BY <1>4, <1>9, <1>13, TaskLeaves DEF Permissions
<1>20. view' = view
  BY DEF NavigationTask
<1>21. r1 \in Heard(view[c], p.TxMsgs)
  <2>1. CASE n1
    BY <1>15, <2>1
  <2>2. CASE ~n1
    <3>1. ~q.Broadcast /\ \A m \in Motors : LastValue[m] = power[m]
      BY <1>6, <2>2 DEF Nav!SendMotor
    <3>2. power = LastValue
      <4>1. power = [m \in Motors |-> power[m]]
        BY <1>5 DEF Nav!RunMotors
      <4>2. LastValue = [m \in Motors |-> LastValue[m]]
        BY DEF SystemInv, SameMotors
      <4> QED
        BY <3>1, <4>1, <4>2
    <3>3. r1 = MotorData
      BY <1>4, <1>9, <1>13, <3>2 DEF MotorData
    <3>4. r1 \in Heard(view[c], q.TxMsgs)
      BY <1>2, <3>1, <3>3 DEF AllDue, Due
    <3> QED
      BY <1>12, <1>16, <1>17, <2>2, <3>4
  <2> QED
    BY <2>1, <2>2
<1>22. r3 \in Heard(view[c], p.TxMsgs)
  <2>1. CASE n3
    BY <1>15, <2>1
  <2>2. CASE ~n3
    <3>1. ~q.Broadcast /\ LastPermission = perm
      BY <1>8, <2>2
    <3>2. r3 = Permissions
      BY <1>4, <1>9, <1>13, <3>1 DEF Permissions
    <3>3. r3 \in Heard(view[c], q.TxMsgs)
      BY <1>2, <3>1, <3>2 DEF AllDue, Due
    <3> QED
      BY <1>12, <1>16, <1>17, <2>2, <3>3
  <2> QED
    BY <2>1, <2>2
<1> QED
  BY <1>3, <1>18, <1>19, <1>20, <1>21, <1>22 DEF Due

LEMMA VectorsDue ==
    ASSUME SystemInv, NavigationTask, NEW c \in Conns, AllDue(c)
    PROVE  Due(c, "Navigation", Vectors)'
<1>1. IsQueue(que["Navigation"], "Navigation", Lines) /\ Signed(que["Navigation"])
  BY SystemAssumption DEF SystemInv, CoreInv, CoreTypeOK
<1>2. PICK q : q = que["Navigation"]
  OBVIOUS
<1>3. PICK p : p = que'["Navigation"]
  OBVIOUS
<1>4. PICK q0 : q0 = IsBroadcastDone(ReceiveAll(q))
  OBVIOUS
<1>5. IsMailbox(q) /\ q.Module = "Navigation"
  BY <1>1, <1>2, QueueIsMailbox
<1>6. IsMailbox(q0) /\ q0.Module = "Navigation" /\ q0.TxMsgs = q.TxMsgs
  <2>1. PICK t : t = ReceiveAll(q)
    OBVIOUS
  <2>2. IsMailbox(t) /\ t.TxMsgs = q.TxMsgs /\ t.Module = q.Module
    BY <1>5, <2>1, SameReports
  <2>3. IsMailbox(q0) /\ q0.TxMsgs = t.TxMsgs /\ q0.Module = t.Module
    BY <1>4, <2>1, <2>2, SameReports
  <2> QED
    BY <1>5, <2>2, <2>3
<1>7. PICK asked : asked = Asked(q)
  OBVIOUS
<1>8. PICK kind : kind = "ReportVectors"
  OBVIOUS
<1>9. PICK data : data = Nav!VectorReport(CVec')
  OBVIOUS
<1>10. p = SendIf(q0, asked, kind, data)
  BY <1>2, <1>3, <1>4, <1>7, <1>8, <1>9, TaskLeaves, NavQueue
<1>11. PICK r : r = Report(q0.Module, kind, data)
  OBVIOUS
<1>12. Adds(p, q0, asked, r)
  BY <1>6, <1>10, <1>11, SendHeard
<1>13. Vectors' = r
  BY <1>6, <1>8, <1>9, <1>11 DEF Vectors, Nav!VectorReport
<1>14. r \in Heard(view[c], p.TxMsgs)
  <2>1. CASE asked
    BY <1>12, <2>1 DEF Adds
  <2>2. CASE ~asked
    <3>1. ~q.Broadcast /\ \A i \in 1 .. Len(q.RxMsgs) : ~Nav!Understood(q.RxMsgs[i])
      BY <1>7, <2>2 DEF Asked
    <3>2. data = Nav!VectorReport(CVec)
      BY <1>2, <1>9, <3>1, VectorStays, TaskLeaves
    <3>3. r = Vectors
      BY <1>6, <1>8, <1>11, <3>2 DEF Vectors
    <3>4. r \in Heard(view[c], q0.TxMsgs)
      BY <1>2, <1>6, <3>1, <3>3 DEF AllDue, Due
    <3> QED
      BY <1>12, <2>2, <3>4 DEF Adds
  <2> QED
    BY <2>1, <2>2
<1>15. view' = view
  BY DEF NavigationTask
<1> QED
  BY <1>3, <1>13, <1>14, <1>15 DEF Due

-----------------------------------------------------------------------------
(* The invariant.                                                          *)

LEMMA SystemInitInv == SystemInit => SystemInv
<1> SUFFICES ASSUME SystemInit PROVE SystemInv
  OBVIOUS
<1>1. CoreInv
  BY CoreInitInv DEF SystemInit
<1>2. que = [m \in Modules |-> NewQueue(m)] /\ Clients = << >>
  BY DEF SystemInit, Init, SubInit
<1>3. \A m \in Modules : Signed(que[m])
  BY <1>2, NoneSigned
<1>4. SameMotors
  <2>1. PICK none : none = Nav!NoValue
    OBVIOUS
  <2>2. LastValue = [m \in Motors |-> none]
    BY <2>1 DEF SystemInit, Nav!NavInit, Nav!SubControlInit
  <2> QED
    BY <2>2 DEF SameMotors
<1>5. TelemetryCurrent
  BY <1>2 DEF TelemetryCurrent, Range
<1> QED
  BY <1>1, <1>3, <1>4, <1>5 DEF SystemInv

LEMMA NetworkStep ==
    ASSUME SystemInv, Network
    PROVE  SystemInv'
<1>1. CoreInv'
  BY CoreStepInv DEF SystemInv, Network
<1>2. \A m \in Modules : Signed(que'[m])
  BY RunKeepsSigned DEF SystemInv, Network
<1>3. SameMotors'
  BY DEF SystemInv, SameMotors, Network, controlVars
<1>4. TelemetryCurrent'
  BY NetworkKeepsCurrent
<1> QED
  BY <1>1, <1>2, <1>3, <1>4 DEF SystemInv

LEMMA NavigationTaskStep ==
    ASSUME SystemInv, NavigationTask
    PROVE  SystemInv'
<1>1. /\ pc = "main" /\ perm' = perm
      /\ UNCHANGED << tcpVars, Clients, pc, heard, view >>
  BY TaskLeaves DEF NavigationTask
<1>2. CoreInv'
  BY <1>1, TaskLeaves, BetweenRuns DEF SystemInv
<1>3. (\A m \in Modules : Signed(que'[m])) /\ SameMotors'
  BY TaskLeaves
<1>4. TelemetryCurrent'
  <2>1. ASSUME NEW c \in Conns, Follows(c)' PROVE AllDue(c)'
    <3>1. Follows(c)
      BY <1>1, <2>1 DEF Follows, HasJoined, isConnected, tcpVars, peerVars, sockVars
    <3>2. AllDue(c)
      BY <3>1, CurrentIsDue DEF SystemInv
    <3>3. /\ Due(c, "Motor", MotorData)' /\ Due(c, "Motor", Permissions)'
          /\ Due(c, "Navigation", Vectors)'
      BY <3>2, MotorsDue, VectorsDue
    <3> QED
      BY <3>3 DEF AllDue
  <2> QED
    BY <2>1, DueIsCurrent
<1> QED
  BY <1>2, <1>3, <1>4 DEF SystemInv

\* An alarm is no part of what the invariant speaks of.
LEMMA SystemStutters ==
    ASSUME SystemInv,
           UNCHANGED << tcpVars, Clients, que, perm, pc, heard, view,
                        LastValue, LastPermission, CVec >>
    PROVE  SystemInv'
<1>1. CoreInv'
  BY CoreStutters DEF SystemInv
<1>2. (\A m \in Modules : Signed(que'[m])) /\ SameMotors'
  BY DEF SystemInv, SameMotors
<1>3. TelemetryCurrent'
  BY DEF SystemInv, TelemetryCurrent, Told, isConnected, tcpVars, peerVars, sockVars,
     Nav!VectorReport
<1> QED
  BY <1>1, <1>2, <1>3 DEF SystemInv, Signed

LEMMA SystemStepInv == SystemInv /\ [SystemNext]_allVars => SystemInv'
<1> SUFFICES ASSUME SystemInv, [SystemNext]_allVars PROVE SystemInv'
  OBVIOUS
<1>1. CASE PowerTask
  BY <1>1, SystemStutters DEF PowerTask, Nav!Measure, Nav!motorVars
<1>2. CASE UNCHANGED allVars
  BY <1>2, SystemStutters DEF allVars, vars, subVars, controlVars
<1> QED
  BY <1>1, <1>2, NetworkStep, NavigationTaskStep DEF SystemNext

-----------------------------------------------------------------------------
(* The main loop implements Navigation, step by step.                      *)

\* The bound of Navigation: its environment stores no line when MaxRx wait.
RxBounded == Len(que["Navigation"].RxMsgs) < MaxRx

NavStep == NavView!NavNext \/ UNCHANGED NavView!navVars

\* The two instances of the navigation mean the same by the same names.
LEMMA SameAlarms ==
    /\ NavView!GetGroupState = Nav!GetGroupState
    /\ NavView!AlarmReport = Nav!AlarmReport
<1>1. NavView!StateAfter = Nav!StateAfter
  BY DEF NavView!StateAfter, Nav!StateAfter, NavView!GetState, Nav!GetState,
     NavView!Escalate, Nav!Escalate, NavView!CLEAR, Nav!CLEAR, NavView!WARNING, Nav!WARNING,
     NavView!ERROR, Nav!ERROR
<1>2. NavView!AlarmReport = Nav!AlarmReport
  BY DEF NavView!AlarmReport, Nav!AlarmReport, NavView!GetState, Nav!GetState,
     NavView!CLEAR, Nav!CLEAR, NavView!WARNING, Nav!WARNING, NavView!Alarms, Nav!Alarms,
     NavView!Range, Nav!Range
<1> QED
  BY <1>1, <1>2 DEF NavView!GetGroupState, Nav!GetGroupState

LEMMA SameTask ==
    /\ \A lines : NavView!ParseAll(lines) = Nav!ParseAll(lines)
    /\ \A vec : NavView!UpdateVector(vec) = Nav!UpdateVector(vec)
    /\ \A update : NavView!RunMotors(update) = Nav!RunMotors(update)
    /\ \A q, update : NavView!UpdateReports(q, update) = Nav!UpdateReports(q, update)
    /\ \A q, vec : NavView!NavReports(q, vec) = Nav!NavReports(q, vec)
<1>1. \A lines : NavView!ParseAll(lines) = Nav!ParseAll(lines)
  BY DEF NavView!ParseAll, Nav!ParseAll, NavView!Sets, Nav!Sets, NavView!Understood,
     Nav!Understood, NavView!Channels, Nav!Channels, NavView!Field, Nav!Field,
     NavView!Fields, Nav!Fields
<1>2. \A vec : NavView!UpdateVector(vec) = Nav!UpdateVector(vec)
  BY DEF NavView!UpdateVector, Nav!UpdateVector
<1>3. \A update : NavView!RunMotors(update) = Nav!RunMotors(update)
  BY DEF NavView!RunMotors, Nav!RunMotors, NavView!Approach, Nav!Approach,
     NavView!Target, Nav!Target, NavView!Clamp, Nav!Clamp, NavView!Mix, Nav!Mix,
     NavView!MinPower, Nav!MinPower, NavView!NoPower, Nav!NoPower, NavView!Axes, Nav!Axes
<1>4. \A q, needed, record, data :
         NavView!SendIf(q, needed, record, data) = Nav!SendIf(q, needed, record, data)
  BY DEF NavView!SendIf, Nav!SendIf, NavView!Send, Nav!Send, NavView!Report, Nav!Report
<1>5. \A q : /\ NavView!IsBroadcastDone(q) = Nav!IsBroadcastDone(q)
             /\ NavView!ReceiveAll(q) = Nav!ReceiveAll(q)
  BY DEF NavView!IsBroadcastDone, Nav!IsBroadcastDone, NavView!ReceiveAll, Nav!ReceiveAll
<1>6. \A all, power : NavView!SendMotor(all, power) = Nav!SendMotor(all, power)
  BY DEF NavView!SendMotor, Nav!SendMotor
<1>7. ASSUME NEW q, NEW update
      PROVE  NavView!UpdateReports(q, update) = Nav!UpdateReports(q, update)
  BY <1>3, <1>4, <1>5, <1>6, SameAlarms DEF NavView!UpdateReports, Nav!UpdateReports
<1>8. ASSUME NEW q, NEW vec PROVE NavView!NavReports(q, vec) = Nav!NavReports(q, vec)
  <2>1. /\ NavView!VectorReport(vec) = Nav!VectorReport(vec)
        /\ \A l : NavView!Understood(l) = Nav!Understood(l)
    BY DEF NavView!VectorReport, Nav!VectorReport, NavView!Channels, Nav!Channels,
       NavView!Field, Nav!Field, NavView!Understood, Nav!Understood
  <2> QED
    BY <1>4, <1>5, <2>1 DEF NavView!NavReports, Nav!NavReports
<1> QED
  BY <1>1, <1>2, <1>3, <1>7, <1>8


\* The network side does to the two queues what the company of Navigation may.
LEMMA NetworkIsNavigation ==
    ASSUME SystemInv, RxBounded, Network
    PROVE  NavStep
<1> DEFINE two == {"Motor", "Navigation"}
           q2  == [m \in two |-> que[m]]
<1>1. /\ UNCHANGED controlVars /\ (Run \/ World)
      /\ two \subseteq Modules /\ "Server" \notin two /\ DOMAIN que = Modules
      /\ \A m \in Modules : IsQueue(que[m], m, Lines)
  BY SystemAssumption DEF Network, SystemInv, CoreInv, CoreTypeOK
<1>2. UNCHANGED NavView!others
  <2>1. UNCHANGED << State, Muted, Value, LastValue, LastAlm, LastPermission, duty, CVec >>
    BY DEF Network, controlVars
  <2> QED
    BY <2>1 DEF NavView!others, NavView!alarmVars, NavView!motorVars
<1>3. CASE UNCHANGED << que, perm >>
  BY <1>2, <1>3 DEF NavStep, NavView!navVars, NavView!others, NavView!alarmVars,
     NavView!motorVars
<1>4. CASE Returned
  <2>1. perm' = perm
    BY <1>4 DEF Returned
  <2>2. CASE accepted = << >>
    BY <1>3, <1>4, <2>1, <2>2 DEF Returned
  <2>3. CASE accepted # << >>
    <3>1. \A m \in two : que'[m] = NavView!SetBroadcast(que[m])
      BY <1>1, <1>4, <2>3 DEF Returned, SetBroadcastAll, SetBroadcast, NavView!SetBroadcast
    <3>2. q2' = [m \in two |-> NavView!SetBroadcast(q2[m])]
      BY <3>1
    <3>3. NavView!Announce
      BY <1>2, <2>1, <3>2 DEF NavView!Announce
    <3> QED
      BY <3>3 DEF NavStep, NavView!NavNext
  <2> QED
    BY <2>2, <2>3
<1>5. CASE ReadLine
  <2>1. PICK i \in 1 .. Len(Clients) : /\ HasLine(Clients[i])
                                       /\ ProcessLine(Head(buffer[Clients[i]]))
    BY <1>5 DEF ReadLine
  <2>2. PICK line : line = Head(buffer[Clients[i]])
    OBVIOUS
  <2>3. line \in Lines
    <3>1. Clients \in Seq(Conns) /\ buffer \in [Conns -> Seq(Lines)]
      BY DEF SystemInv, CoreInv, CoreTypeOK, TcpInv, TcpTypeOK
    <3>2. PICK c \in Conns : c = Clients[i]
      BY <3>1
    <3> QED
      BY <2>1, <2>2, <3>1, <3>2, HeadTailProperties DEF HasLine
  <2>4. \A m \in two : que'[m] = NavView!Store(que[m], line)
    BY <1>1, <2>1, <2>2 DEF ProcessLine, Store, NavView!Store
  <2>5. q2' = [m \in two |-> NavView!Store(q2[m], line)]
    BY <2>4
  <2>6. Len(q2["Navigation"].RxMsgs) < MaxRx /\ perm' = perm
    BY <1>5 DEF RxBounded, ReadLine
  <2>7. NavView!Command(line)
    BY <1>2, <2>5, <2>6 DEF NavView!Command
  <2> QED
    BY <2>3, <2>7 DEF NavStep, NavView!NavNext
<1>6. CASE SendUpdatedData
  <2>1. \A m \in two : que'[m] = NavView!GetAllMsgs(que[m])
    BY <1>1, <1>6 DEF SendUpdatedData, GetAllMsgs, NavView!GetAllMsgs
  <2>2. q2' = [m \in two |-> NavView!GetAllMsgs(q2[m])]
    BY <2>1
  <2>3. NavView!Collect
    BY <1>2, <1>6, <2>2 DEF NavView!Collect, SendUpdatedData
  <2> QED
    BY <2>3 DEF NavStep, NavView!NavNext
<1>7. CASE RunEnd
  <2>1. \A m \in two : que'[m] = que[m]
    BY <1>1, <1>7 DEF RunEnd
  <2>2. q2' = q2
    BY <2>1
  <2>3. PICK allowed \in BOOLEAN : perm' = allowed
    BY <1>7 DEF RunEnd, Permitted
  <2>4. NavView!Permit(allowed)
    BY <1>2, <2>2, <2>3 DEF NavView!Permit
  <2> QED
    BY <2>4 DEF NavStep, NavView!NavNext
<1> QED
  BY <1>1, <1>3, <1>4, <1>5, <1>6, <1>7
  DEF Run, RunBegin, CallListen, World, subVars

LEMMA TaskIsNavigation ==
    ASSUME SystemInv, NavigationTask
    PROVE  NavStep
<1> DEFINE two == {"Motor", "Navigation"}
           q2  == [m \in two |-> que[m]]
           U   == Nav!UpdateVector(CVec')
<1>1. /\ que'["Motor"] = Nav!UpdateReports(que["Motor"], U)
      /\ que'["Navigation"] = Nav!NavReports(que["Navigation"], CVec')
      /\ CVec' = Nav!ParseAll(que["Navigation"].RxMsgs)
  BY TaskLeaves
<1>2. /\ Nav!Update(U) /\ UNCHANGED << perm, State, Muted >>
      /\ \A m \in two : Len(que[m].TxMsgs) <= MaxTx
  BY DEF NavigationTask, Nav!RunTask, Nav!alarmVars
<1>3. U = NavView!UpdateVector(CVec')
  BY SameTask
<1> HIDE DEF U
<1>4. NavView!Update(U)
  BY <1>2, SameTask, SameAlarms DEF Nav!Update, NavView!Update
<1>5. q2' = [q2 EXCEPT !["Motor"] = NavView!UpdateReports(@, U),
                       !["Navigation"] = NavView!NavReports(@, CVec')]
  BY <1>1, SameTask
<1>6. CVec' = NavView!ParseAll(q2["Navigation"].RxMsgs)
  BY <1>1, SameTask
<1>7. NavView!RunTask
  BY <1>2, <1>3, <1>4, <1>5, <1>6 DEF NavView!RunTask, NavView!alarmVars
<1>8. NavView!Task
  BY <1>2, <1>7 DEF NavView!Task
<1> QED
  BY <1>8 DEF NavStep, NavView!NavNext

LEMMA PowerIsNavigation ==
    ASSUME PowerTask
    PROVE  NavStep
<1>1. NavView!Measure
  BY DEF PowerTask, Nav!Measure, NavView!Measure, Nav!SetAll, NavView!SetAll,
     Nav!Taken, NavView!Taken, Nav!Accepts, NavView!Accepts, Nav!StaysMuted,
     NavView!StaysMuted, Nav!Alarms, NavView!Alarms, Nav!Range, NavView!Range,
     Nav!Severity, NavView!Severity, Nav!CLEAR, NavView!CLEAR, Nav!WARNING,
     NavView!WARNING, Nav!ERROR, NavView!ERROR, Nav!motorVars, NavView!motorVars
<1> QED
  BY <1>1 DEF NavStep, NavView!NavNext


LEMMA SystemStartsNavigation == SystemInit => NavView!NavInit
<1> SUFFICES ASSUME SystemInit PROVE NavView!NavInit
  OBVIOUS
<1> DEFINE two == {"Motor", "Navigation"}
<1>1. Nav!NavInit /\ que = [m \in Modules |-> NewQueue(m)] /\ two \subseteq Modules
  BY SystemAssumption DEF SystemInit, Init, SubInit
<1>2. \A m \in two : NewQueue(m) = NavView!NewQueue(m)
  BY DEF NewQueue, NavView!NewQueue
<1>3. [m \in two |-> que[m]] = [m \in two |-> NavView!NewQueue(m)]
  BY <1>1, <1>2
<1>4. NavView!AlarmInit
  BY <1>1 DEF Nav!NavInit, Nav!AlarmInit, NavView!AlarmInit, Nav!Alarms, NavView!Alarms,
     Nav!Range, NavView!Range, Nav!CLEAR, NavView!CLEAR
<1>5. NavView!SubControlInit
  BY <1>1 DEF Nav!NavInit, Nav!SubControlInit, NavView!SubControlInit, Nav!NoValue,
     NavView!NoValue, Nav!Unset, NavView!Unset, Nav!Severity, NavView!Severity, Nav!Garbage,
     NavView!Garbage, Nav!CLEAR, NavView!CLEAR, Nav!WARNING, NavView!WARNING, Nav!ERROR,
     NavView!ERROR
<1>6. perm = FALSE /\ CVec = [f \in NavView!Fields |-> 0]
  BY <1>1 DEF Nav!NavInit, Nav!Fields, NavView!Fields
<1> QED
  BY <1>3, <1>4, <1>5, <1>6 DEF NavView!NavInit

-----------------------------------------------------------------------------
(* The motors.  What module NavigationProofs shows of the navigation in the *)
(* company its module allows is shown here of the whole program, with no    *)
(* bound on the lines that wait.                                            *)

PowerRange == 0 .. MaxPower
Steering == [X : Int, Y : Int, Z : Int, ROLL : Int, PITCH : Int, YAW : Int]

\* The permission is what Run() left: somebody is in the list.
PermissionAgrees == pc = "main" => perm = (Clients # << >>)

MotorInv ==
    /\ Value \in [Motors -> PowerRange]
    /\ duty = Value
    /\ CVec \in [Nav!Fields -> Int]
    /\ Nav!DisabledMeansStopped
    /\ PermissionAgrees

\* No power rises by more than the ramp or leaves its range in this step.
Limited == \A m \in Motors : duty'[m] - duty[m] <= Ramp /\ duty'[m] \in PowerRange

\* No task gives power for an empty list of clients.
Guarded == NavigationTask /\ Clients = << >> => \A m \in Motors : duty'[m] = 0

LEMMA MixIsInteger ==
    ASSUME NEW u \in Steering, NEW p \in Steering
    PROVE  /\ Nav!Mix(u, p) \in Int
           /\ Nav!Mix(u, Nav!NoPower) = 0
<1>1. \A i, j \in Int : i * j \in Int /\ i + j \in Int /\ i * 0 = 0
  OBVIOUS
<1>2. /\ u.X * p.X \in Int /\ u.Y * p.Y \in Int /\ u.Z * p.Z \in Int
      /\ u.ROLL * p.ROLL \in Int /\ u.PITCH * p.PITCH \in Int /\ u.YAW * p.YAW \in Int
  BY <1>1 DEF Steering
<1>3. Nav!Mix(u, p) \in Int
  BY <1>1, <1>2 DEF Nav!Mix
<1>4. /\ Nav!NoPower.X = 0 /\ Nav!NoPower.Y = 0 /\ Nav!NoPower.Z = 0
      /\ Nav!NoPower.ROLL = 0 /\ Nav!NoPower.PITCH = 0 /\ Nav!NoPower.YAW = 0
  BY DEF Nav!NoPower, Nav!Axes
<1>5. /\ u.X * 0 = 0 /\ u.Y * 0 = 0 /\ u.Z * 0 = 0
      /\ u.ROLL * 0 = 0 /\ u.PITCH * 0 = 0 /\ u.YAW * 0 = 0
  BY <1>1 DEF Steering
<1>6. Nav!Mix(u, Nav!NoPower) = 0
  BY <1>4, <1>5 DEF Nav!Mix
<1> QED
  BY <1>3, <1>6

\* One motor: its target is in range, and so is the power on the way there.
LEMMA OneMotor ==
    ASSUME NEW u \in Steering, NEW p \in Steering, NEW v \in PowerRange
    PROVE  /\ Nav!Approach(v, Nav!Target(u, p)) \in PowerRange
           /\ Nav!Approach(v, Nav!Target(u, p)) - v <= Ramp
           /\ Nav!Approach(v, Nav!Target(u, Nav!NoPower)) = 0
<1>1. Nav!Target(u, p) \in PowerRange /\ Nav!Target(u, Nav!NoPower) = 0
  BY MixIsInteger, SystemAssumption DEF Nav!Target, Nav!Clamp, Nav!MinPower, PowerRange
<1>2. ASSUME NEW x \in PowerRange
      PROVE  /\ Nav!Approach(v, x) \in PowerRange
             /\ Nav!Approach(v, x) - v <= Ramp
             /\ x = 0 => Nav!Approach(v, x) = 0
  BY SystemAssumption DEF Nav!Approach, PowerRange
<1>3. /\ Nav!Approach(v, Nav!Target(u, p)) \in PowerRange
      /\ Nav!Approach(v, Nav!Target(u, p)) - v <= Ramp
  BY <1>1, <1>2
<1>4. 0 \in PowerRange
  BY SystemAssumption DEF PowerRange
<1>5. Nav!Approach(v, Nav!Target(u, Nav!NoPower)) = 0
  BY <1>1, <1>2, <1>4
<1> QED
  BY <1>3, <1>5

\* All motors in one task.
LEMMA AllMotors ==
    ASSUME MotorInv, perm \in BOOLEAN, NEW p \in Steering
    PROVE  /\ Nav!RunMotors(p) \in [Motors -> PowerRange]
           /\ \A m \in Motors : Nav!RunMotors(p)[m] - Value[m] <= Ramp
           /\ ~perm => \A m \in Motors : Nav!RunMotors(p)[m] = 0
<1>1. Nav!NoPower \in [Nav!Axes -> Int]
  BY DEF Nav!NoPower
<1> DEFINE power(m) == Nav!Approach(Value[m],
                                    Nav!Target(mult[m], IF perm THEN p ELSE Nav!NoPower))
<1>2. ASSUME NEW m \in Motors
      PROVE  /\ power(m) \in PowerRange /\ power(m) - Value[m] <= Ramp
             /\ ~perm => power(m) = 0
  <2>1. mult[m] \in Steering /\ Value[m] \in PowerRange
    BY SystemAssumption DEF Steering, MotorInv
  <2>2. CASE perm
    BY <2>1, <2>2, OneMotor
  <2>3. CASE ~perm
    <3>1. power(m) = 0
      BY <2>1, <2>3, OneMotor
    <3> HIDE DEF power
    <3>2. 0 \in PowerRange /\ 0 - Value[m] <= Ramp
      BY <2>1, SystemAssumption DEF PowerRange
    <3> QED
      BY <3>1, <3>2
  <2> QED
    BY <2>2, <2>3
<1>3. Nav!RunMotors(p) = [m \in Motors |-> power(m)]
  BY DEF Nav!RunMotors
<1> HIDE DEF power
<1> QED
  BY <1>2, <1>3

\* The vector stays one of integers, whatever lines wait.
LEMMA VectorTyped ==
    ASSUME CVec \in [Nav!Fields -> Int], NEW lines \in Seq(Lines)
    PROVE  /\ Nav!ParseAll(lines) \in [Nav!Fields -> Int]
           /\ Nav!UpdateVector(Nav!ParseAll(lines)) \in Steering
<1>1. ASSUME NEW f \in Nav!Fields PROVE Nav!ParseAll(lines)[f] \in Int
  <2> DEFINE setters == {i \in 1 .. Len(lines) : Nav!Sets(lines[i], f)}
             last    == CHOOSE i \in setters : \A j \in setters : j <= i
  <2>1. Nav!ParseAll(lines)[f] = IF setters = {} THEN CVec[f] ELSE lines[last].Value
    BY DEF Nav!ParseAll
  <2>2. Len(lines) \in Nat /\ \A i \in 1 .. Len(lines) : lines[i] \in Lines
    OBVIOUS
  <2>3. setters \subseteq 0 .. Len(lines) /\ setters \subseteq 1 .. Len(lines)
    BY <2>2
  <2> HIDE DEF setters
  <2>4. setters # {} => last \in setters
    BY <2>2, <2>3, HasMax
  <2> QED
    BY <2>1, <2>2, <2>3, <2>4, SystemAssumption
<1>2. Nav!ParseAll(lines) \in [Nav!Fields -> Int]
  BY <1>1 DEF Nav!ParseAll
<1>3. \A v \in [Nav!Fields -> Int] : Nav!UpdateVector(v) \in Steering
  BY DEF Nav!UpdateVector, Nav!Fields, Steering
<1> QED
  BY <1>2, <1>3

LEMMA TaskMovesMotors ==
    ASSUME SystemInv, MotorInv, NavigationTask
    PROVE  MotorInv' /\ Limited /\ Guarded
<1> DEFINE p == Nav!UpdateVector(CVec')
<1>1. /\ CVec' = Nav!ParseAll(que["Navigation"].RxMsgs)
      /\ pc = "main" /\ UNCHANGED << pc, Clients, perm >>
      /\ Value' = Nav!RunMotors(p) /\ duty' = Value' /\ LastPermission' = perm
  BY DEF NavigationTask, Nav!RunTask, Nav!Update
<1>2. que["Navigation"].RxMsgs \in Seq(Lines) /\ perm \in BOOLEAN
  BY SystemAssumption DEF SystemInv, CoreInv, CoreTypeOK, IsQueue
<1>3. CVec' \in [Nav!Fields -> Int] /\ p \in Steering
  BY <1>1, <1>2, VectorTyped DEF MotorInv
<1> HIDE DEF p
<1>4. /\ Value' \in [Motors -> PowerRange]
      /\ \A m \in Motors : Value'[m] - Value[m] <= Ramp
      /\ ~perm => \A m \in Motors : Value'[m] = 0
  BY <1>1, <1>2, <1>3, AllMotors
<1>5. PermissionAgrees' /\ (Clients = << >> => ~perm)
  BY <1>1 DEF PermissionAgrees, MotorInv
<1>6. Limited
  BY <1>1, <1>4 DEF Limited, MotorInv
<1> QED
  BY <1>1, <1>3, <1>4, <1>5, <1>6 DEF MotorInv, Guarded, Nav!DisabledMeansStopped

\* Whatever does not run the motors leaves them as they are.
LEMMA OthersLeaveMotors ==
    ASSUME MotorInv, UNCHANGED << Value, duty, LastPermission, CVec >>, PermissionAgrees'
    PROVE  MotorInv' /\ Limited
<1>1. MotorInv'
  BY DEF MotorInv, Nav!DisabledMeansStopped
<1>2. Limited
  BY SystemAssumption DEF MotorInv, Limited, PowerRange
<1> QED
  BY <1>1, <1>2

\* Run() leaves the permission as the list says; in between it may be old.
LEMMA RunPermits ==
    ASSUME PermissionAgrees, Run \/ World
    PROVE  PermissionAgrees'
<1>1. CASE RunEnd
  BY <1>1 DEF RunEnd, Permitted, PermissionAgrees
<1>2. CASE World
  BY <1>2 DEF World, subVars, PermissionAgrees
<1>3. CASE RunBegin \/ CallListen \/ Returned \/ ReadLine \/ SendUpdatedData
  <2>1. pc' # "main"
    BY <1>3 DEF RunBegin, CallListen, Returned, ReadLine, SendUpdatedData, subVars
  <2> QED
    BY <2>1 DEF PermissionAgrees
<1> QED
  BY <1>1, <1>2, <1>3 DEF Run

LEMMA MotorStep ==
    ASSUME SystemInv, MotorInv, [SystemNext]_allVars
    PROVE  MotorInv' /\ Limited /\ Guarded
<1>1. CASE NavigationTask
  BY <1>1, TaskMovesMotors
<1>2. ASSUME ~NavigationTask PROVE Guarded
  BY <1>2 DEF Guarded
<1>3. CASE Network
  <2>1. UNCHANGED << Value, duty, LastPermission, CVec >>
    BY <1>3 DEF Network, controlVars
  <2>2. PermissionAgrees'
    BY <1>3, RunPermits DEF Network, MotorInv
  <2> QED
    BY <1>1, <1>2, <2>1, <2>2, OthersLeaveMotors
<1>4. CASE PowerTask
  <2>1. UNCHANGED << Value, duty, LastPermission, CVec, pc, perm, Clients >>
    BY <1>4 DEF PowerTask, Nav!Measure, Nav!motorVars
  <2> QED
    BY <1>1, <1>2, <2>1, OthersLeaveMotors DEF PermissionAgrees, MotorInv
<1>5. CASE UNCHANGED allVars
  <2>1. UNCHANGED << Value, duty, LastPermission, CVec, pc, perm, Clients >>
    BY <1>5 DEF allVars, vars, subVars, controlVars
  <2> QED
    BY <1>1, <1>2, <2>1, OthersLeaveMotors DEF PermissionAgrees, MotorInv
<1> QED
  BY <1>1, <1>3, <1>4, <1>5 DEF SystemNext

LEMMA MotorInitInv == SystemInit => MotorInv
<1> SUFFICES ASSUME SystemInit PROVE MotorInv
  OBVIOUS
<1>1. /\ Value = [m \in Motors |-> 0] /\ duty = Value
      /\ CVec = [f \in Nav!Fields |-> 0] /\ perm = FALSE
  BY DEF SystemInit, Nav!NavInit, Nav!SubControlInit
<1>2. 0 \in PowerRange
  BY SystemAssumption DEF PowerRange
<1>3. Clients = << >>
  BY DEF SystemInit, Init, SubInit
<1>4. Value \in [Motors -> PowerRange] /\ CVec \in [Nav!Fields -> Int]
  BY <1>1, <1>2
<1>5. Nav!DisabledMeansStopped
  BY <1>1 DEF Nav!DisabledMeansStopped
<1>6. PermissionAgrees
  BY <1>1, <1>3 DEF PermissionAgrees
<1> QED
  BY <1>1, <1>4, <1>5, <1>6 DEF MotorInv

-----------------------------------------------------------------------------
(* Theorems.                                                               *)

THEOREM SystemInvariant == SystemSpec => []SystemInv
<1>1. SystemInit => SystemInv
  BY SystemInitInv
<1>2. SystemInv /\ [SystemNext]_allVars => SystemInv'
  BY SystemStepInv
<1> QED
  BY <1>1, <1>2, PTL DEF SystemSpec

\* What a connected user has been told, with what waits for it in the queues,
\* is the power of the motors, the permission and the control vector, or an
\* announcement is due: whoever joins or leaves and however the tasks, the
\* sending and the users interleave.
THEOREM TelemetryIsCurrent == SystemSpec => []TelemetryCurrent
<1>1. SystemInv => TelemetryCurrent
  BY DEF SystemInv
<1> QED
  BY <1>1, SystemInvariant, PTL

\* And every user knows who is connected, or a new list is due: the real
\* tasks leave the server's queue alone.
THEOREM SystemEveryoneKnown == SystemSpec => []EveryoneKnown
<1>1. SystemInit => EveryoneKnown
  BY DEF SystemInit, Init, SubInit, EveryoneKnown, HasJoined, Range
<1>2. SystemInv /\ EveryoneKnown /\ [SystemNext]_allVars => EveryoneKnown'
  <2> SUFFICES ASSUME SystemInv, EveryoneKnown, [SystemNext]_allVars PROVE EveryoneKnown'
    OBVIOUS
  <2>1. CASE Network
    BY <2>1, NetworkKeepsKnown DEF SystemInv, Network
  <2>2. CASE NavigationTask
    <3>1. que' = [que EXCEPT !["Motor"] = que'["Motor"], !["Navigation"] = que'["Navigation"]]
      BY <2>2 DEF NavigationTask, Nav!RunTask, SystemInv, CoreInv, CoreTypeOK
    <3>2. que'["Server"] = que["Server"]
      BY <3>1, SubAssumption DEF SystemInv, CoreInv, CoreTypeOK
    <3> QED
      BY <2>2, <3>2, KnownStutters DEF NavigationTask
  <2>3. CASE PowerTask
    BY <2>3, KnownStutters DEF PowerTask, Nav!Measure
  <2>4. CASE UNCHANGED allVars
    BY <2>4, KnownStutters DEF allVars, vars, subVars
  <2> QED
    BY <2>1, <2>2, <2>3, <2>4 DEF SystemNext
<1> QED
  BY <1>1, <1>2, SystemInvariant, PTL DEF SystemSpec

\* The two lists of clients agree also with the real tasks between the calls
\* of Run().
THEOREM SystemListsAgree == SystemSpec => []ListsAgree
<1>1. SystemInv => ListsAgree
  BY DEF SystemInv, CoreInv, Agreement, ListsAgree
<1> QED
  BY <1>1, SystemInvariant, PTL

\* And no line of a user is lost, doubled or stranded on its way to them.
THEOREM SystemLinesConserved == SystemSpec => []LinesConserved
<1>1. SystemInv => LinesConserved
  BY DEF SystemInv, CoreInv
<1> QED
  BY <1>1, SystemInvariant, PTL

\* Every step of the main loop is one of the navigation in the company that
\* its module allows, or does not concern it: the safety of
\* ImplementsNavigation, as long as the bound of that module is kept.
THEOREM SystemIsNavigation ==
    SystemSpec /\ []RxBounded
        => NavView!NavInit /\ [][NavView!NavNext]_(NavView!navVars)
<1>1. SystemInit => NavView!NavInit
  BY SystemStartsNavigation
<1>2. SystemInv /\ RxBounded /\ [SystemNext]_allVars
        => [NavView!NavNext]_(NavView!navVars)
  <2> SUFFICES ASSUME SystemInv, RxBounded, [SystemNext]_allVars PROVE NavStep
    BY DEF NavStep
  <2>1. CASE UNCHANGED allVars
    <3>1. UNCHANGED << que, perm, State, Muted, Value, LastValue, LastAlm, LastPermission,
                       duty, CVec >>
      BY <2>1 DEF allVars, vars, subVars, controlVars
    <3> QED
      BY <3>1 DEF NavStep, NavView!navVars, NavView!alarmVars, NavView!motorVars
  <2> QED
    BY <2>1, NetworkIsNavigation, TaskIsNavigation, PowerIsNavigation DEF SystemNext
<1> QED
  BY <1>1, <1>2, SystemInvariant, PTL DEF SystemSpec

LEMMA MotorInvariant == SystemSpec => []MotorInv
<1>1. SystemInv /\ MotorInv /\ [SystemNext]_allVars => MotorInv'
  BY MotorStep
<1> QED
  BY <1>1, MotorInitInv, SystemInvariant, PTL DEF SystemSpec

\* In the program, too, a task that saw the permission withdrawn has stopped
\* every motor, and they stay stopped until a task sees it given.
THEOREM SystemStops == SystemSpec => []Nav!DisabledMeansStopped
<1>1. MotorInv => Nav!DisabledMeansStopped
  BY DEF MotorInv
<1> QED
  BY <1>1, MotorInvariant, PTL

\* And no power rises by more than the ramp in a step or leaves its range,
\* whoever connects, commands and leaves in between.
THEOREM SystemRamp == SystemSpec => Nav!RampLimited
<1>1. SystemInv /\ MotorInv /\ [SystemNext]_allVars
        => [\A m \in Motors : /\ duty'[m] - duty[m] <= Ramp
                              /\ duty'[m] \in Nav!MinPower .. MaxPower]_(Nav!navVars)
  BY MotorStep DEF Limited, PowerRange, Nav!MinPower
<1> QED
  BY <1>1, MotorInvariant, SystemInvariant, PTL DEF SystemSpec, Nav!RampLimited

\* No motor is given power while the list of clients is empty.
THEOREM PowerNeedsUsers == SystemSpec => PowerOnlyForUsers
<1>1. SystemInv /\ MotorInv /\ [SystemNext]_allVars
        => [NavigationTask /\ Clients = << >> => \A m \in Motors : duty'[m] = 0]_allVars
  BY MotorStep DEF Guarded
<1> QED
  BY <1>1, MotorInvariant, SystemInvariant, PTL DEF SystemSpec, PowerOnlyForUsers
=============================================================================
