---------------------------- MODULE AlarmProofs ----------------------------
(***************************************************************************)
(* Proofs about Alarm: the type invariant, that a latched alarm never      *)
(* improves, and that a group shows the highest severity of its alarms,    *)
(* for every list of alarms.  AlarmTypeOK is inductive as it stands and    *)
(* implies the other two.                                                  *)
(***************************************************************************)
EXTENDS Alarm, CommonLemmas, TLAPS

\* The operations keep the types.
LEMMA SetStateTyped ==
    ASSUME AlarmTypeOK, NEW a \in Alarms, NEW s \in Severity, SetState(a, s)
    PROVE  AlarmTypeOK'
<1>1. State' \in [Alarms -> Severity]
  BY DEF SetState, Taken, AlarmTypeOK
<1>2. Muted' \in [Alarms -> BOOLEAN]
  BY DEF SetState, StaysMuted, AlarmTypeOK
<1>3. QED
  BY <1>1, <1>2 DEF AlarmTypeOK

LEMMA SetAllTyped ==
    ASSUME AlarmTypeOK, NEW states \in [Alarms -> Severity], SetAll(states)
    PROVE  AlarmTypeOK'
<1>1. State' \in [Alarms -> Severity]
  BY DEF SetAll, Taken, AlarmTypeOK
<1>2. Muted' \in [Alarms -> BOOLEAN]
  BY DEF SetAll, StaysMuted, AlarmTypeOK
<1>3. QED
  BY <1>1, <1>2 DEF AlarmTypeOK

LEMMA SetMutedTyped ==
    ASSUME AlarmTypeOK, NEW a \in Alarms, SetMuted(a)
    PROVE  AlarmTypeOK'
<1>1. State' \in [Alarms -> Severity]
  BY DEF SetMuted, AlarmTypeOK
<1>2. Muted' \in [Alarms -> BOOLEAN]
  BY DEF SetMuted, AlarmTypeOK
<1>3. QED
  BY <1>1, <1>2 DEF AlarmTypeOK

LEMMA AlarmStepTyped == AlarmTypeOK /\ [AlarmNext]_alarmVars => AlarmTypeOK'
<1> SUFFICES ASSUME AlarmTypeOK, [AlarmNext]_alarmVars PROVE AlarmTypeOK'
  OBVIOUS
<1>1. ASSUME NEW a \in Alarms, SetMuted(a) PROVE AlarmTypeOK'
  BY <1>1, SetMutedTyped
<1>2. ASSUME NEW a \in Alarms, NEW s \in Severity, SetState(a, s) PROVE AlarmTypeOK'
  BY <1>2, SetStateTyped
<1>3. CASE UNCHANGED alarmVars
  BY <1>3 DEF alarmVars, AlarmTypeOK
<1>4. QED
  BY <1>1, <1>2, <1>3 DEF AlarmNext

\* States are severities and mutes are flags in every behaviour of the alarms.
THEOREM AlarmTypeCorrect == AlarmSpec => []AlarmTypeOK
<1>1. AlarmInit => AlarmTypeOK
  BY DEF AlarmInit, AlarmTypeOK, Severity, CLEAR
<1>2. AlarmTypeOK /\ [AlarmNext]_alarmVars => AlarmTypeOK'
  BY AlarmStepTyped
<1>3. QED
  BY <1>1, <1>2, PTL DEF AlarmSpec

-----------------------------------------------------------------------------
(* Latching.                                                               *)

\* A latching alarm takes a new state only if that is at least as severe.
LEMMA LatchAcceptsWorse ==
    ASSUME AlarmTypeOK, NEW a \in Alarms, a \in Latching, NEW s \in Severity, Accepts(a, s)
    PROVE  s >= State[a]
<1>1. State[a] \in {0, 1, 2} /\ s \in {0, 1, 2}
  BY DEF AlarmTypeOK, Severity, CLEAR, WARNING, ERROR
<1>2. CASE State[a] = 0
  BY <1>1, <1>2
<1>3. CASE State[a] = 1
  BY <1>1, <1>3 DEF Accepts, CLEAR, WARNING, ERROR
<1>4. CASE State[a] = 2
  BY <1>1, <1>4 DEF Accepts, CLEAR, WARNING, ERROR
<1>5. QED
  BY <1>1, <1>2, <1>3, <1>4

\* What is seen of an alarm does not improve when its state does not.
LEMMA SeenFollowsState ==
    ASSUME AlarmTypeOK, AlarmTypeOK', NEW a \in Alarms, State'[a] >= State[a]
    PROVE  GetState(a)' >= GetState(a)
<1>1. State[a] \in Severity /\ State'[a] \in Severity
  BY DEF AlarmTypeOK
<1>2. QED
  BY <1>1 DEF GetState, Severity, CLEAR, WARNING, ERROR

\* Nor does it when all alarms are set at once.
LEMMA SetAllLatches ==
    ASSUME AlarmTypeOK, NEW states \in [Alarms -> Severity], SetAll(states),
           NEW a \in Latching
    PROVE  State'[a] >= State[a] /\ GetState(a)' >= GetState(a)
<1>1. a \in Alarms /\ State[a] \in Severity /\ states[a] \in Severity
  BY AlarmAssumption DEF AlarmTypeOK
<1>2. State'[a] = IF Accepts(a, states[a]) THEN states[a] ELSE State[a]
  BY <1>1 DEF SetAll, Taken
<1>3. State[a] >= State[a]
  BY <1>1 DEF Severity, CLEAR, WARNING, ERROR
<1>4. State'[a] >= State[a]
  BY <1>1, <1>2, <1>3, LatchAcceptsWorse
<1>5. QED
  BY <1>1, <1>4, SetAllTyped, SeenFollowsState

\* No step of any owner lets a latched alarm fall, as it is stored or as it
\* is seen, although SetState() is called again and again with the present
\* measurement (Alarm.cpp:53-88).
THEOREM LatchHolds == AlarmSpec => LatchedNeverFalls
<1>1. AlarmTypeOK /\ AlarmTypeOK' /\ [AlarmNext]_alarmVars
        => [\A a \in Latching : State'[a] >= State[a] /\ GetState(a)' >= GetState(a)]_alarmVars
  <2> SUFFICES ASSUME AlarmTypeOK, AlarmTypeOK', AlarmNext, NEW a \in Latching
               PROVE  State'[a] >= State[a] /\ GetState(a)' >= GetState(a)
    OBVIOUS
  <2>1. a \in Alarms /\ State[a] \in Severity
    BY AlarmAssumption DEF AlarmTypeOK
  <2>2. State[a] >= State[a]
    BY <2>1 DEF Severity, CLEAR, WARNING, ERROR
  <2>3. ASSUME NEW b \in Alarms, SetMuted(b) PROVE State'[a] >= State[a]
    BY <2>2, <2>3 DEF SetMuted
  <2>4. ASSUME NEW b \in Alarms, NEW s \in Severity, SetState(b, s)
        PROVE  State'[a] >= State[a]
    <3>1. State'[a] = IF b = a /\ Accepts(a, s) THEN s ELSE State[a]
      BY <2>1, <2>4 DEF SetState, Taken, AlarmTypeOK
    <3>2. QED
      BY <2>1, <2>2, <3>1, LatchAcceptsWorse
  <2>5. State'[a] >= State[a]
    BY <2>3, <2>4 DEF AlarmNext
  <2>6. QED
    BY <2>1, <2>5, SeenFollowsState
<1>2. QED
  BY <1>1, AlarmTypeCorrect, PTL DEF AlarmSpec, LatchedNeverFalls
-----------------------------------------------------------------------------
(* Groups.                                                                 *)

\* One round of the loop over a function f of the rounds before.
Round(f, i) == IF i = 0 THEN CLEAR ELSE Escalate(f[i - 1], GetState(AlarmList[i]))

\* StateAfter satisfies its equation: a function of the first n rounds exists
\* for every n, for there is no least n without one.
LEMMA StateAfterRounds ==
    \A i \in 0 .. Len(AlarmList) : StateAfter[i] = Round(StateAfter, i)
<1> DEFINE Rounds(n, f) == f = [i \in 0 .. n |-> Round(f, i)]
           without == {n \in 0 .. Len(AlarmList) : ~ \E f : Rounds(n, f)}
<1>1. Len(AlarmList) \in Nat
  BY AlarmAssumption
<1>2. without = {}
  <2> SUFFICES ASSUME without # {} PROVE FALSE
    OBVIOUS
  <2>1. PICK m \in without : \A n \in without : m <= n
    <3>1. without \in SUBSET Nat
      BY <1>1
    <3> HIDE DEF without
    <3>2. QED
      BY <3>1, HasMin
  <2>2. CASE m = 0
    <3>1. Rounds(0, [i \in 0 .. 0 |-> CLEAR])
      BY DEF Round
    <3>2. QED
      BY <2>1, <2>2, <3>1
  <2>3. CASE m # 0
    <3>1. m - 1 \in 0 .. Len(AlarmList) /\ m - 1 \notin without
      BY <1>1, <2>1, <2>3
    <3>2. PICK f : Rounds(m - 1, f)
      BY <3>1
    <3> DEFINE g == [i \in 0 .. m |-> IF i = m THEN Round(f, m) ELSE f[i]]
    <3>3. \A i \in 0 .. m : g[i] = Round(g, i)
      <4> SUFFICES ASSUME NEW i \in 0 .. m PROVE g[i] = Round(g, i)
        OBVIOUS
      <4>1. i # 0 => g[i - 1] = f[i - 1]
        BY <2>1, <2>3
      <4>2. Round(g, i) = Round(f, i)
        BY <4>1 DEF Round
      <4>3. i # m => f[i] = Round(f, i)
        BY <2>1, <2>3, <3>2
      <4>4. QED
        BY <4>2, <4>3
    <3>4. Rounds(m, g)
      BY <3>3
    <3>5. QED
      BY <2>1, <3>4
  <2>4. QED
    BY <2>2, <2>3
<1>3. PICK f : Rounds(Len(AlarmList), f)
  BY <1>1, <1>2
<1>4. Rounds(Len(AlarmList), StateAfter)
  BY <1>3 DEF StateAfter, Round
<1>5. QED
  BY <1>4

\* One round keeps the severity the highest so far.
LEMMA EscalateIsMax ==
    ASSUME NEW g \in Severity, NEW l \in Severity
    PROVE  Escalate(g, l) = IF l > g THEN l ELSE g
<1>1. g \in {0, 1, 2} /\ l \in {0, 1, 2}
  BY DEF Severity, CLEAR, WARNING, ERROR
<1>2. CASE g = 0
  BY <1>1, <1>2 DEF Escalate, CLEAR, WARNING, ERROR
<1>3. CASE g = 1
  BY <1>1, <1>3 DEF Escalate, CLEAR, WARNING, ERROR
<1>4. CASE g = 2
  BY <1>1, <1>4 DEF Escalate, CLEAR, WARNING, ERROR
<1>5. QED
  BY <1>1, <1>2, <1>3, <1>4

LEMMA GetStateTyped ==
    ASSUME AlarmTypeOK, NEW a \in Alarms
    PROVE  GetState(a) \in Severity
BY DEF AlarmTypeOK, GetState, Severity, CLEAR

\* After i rounds the severity is the highest of the first i alarms.
HighestOf(i) ==
    /\ StateAfter[i] \in Severity
    /\ \A j \in 1 .. i : GetState(AlarmList[j]) <= StateAfter[i]
    /\ StateAfter[i] # CLEAR => \E j \in 1 .. i : GetState(AlarmList[j]) = StateAfter[i]

LEMMA RoundKeepsHighest ==
    ASSUME AlarmTypeOK, NEW i \in 1 .. Len(AlarmList), HighestOf(i - 1)
    PROVE  HighestOf(i)
<1> DEFINE g == StateAfter[i - 1]
           l == GetState(AlarmList[i])
<1>1. Len(AlarmList) \in Nat /\ \A j \in 1 .. Len(AlarmList) : AlarmList[j] \in Alarms
  BY AlarmAssumption
<1>2. l \in Severity
  BY <1>1, GetStateTyped
<1>3. StateAfter[i] = Escalate(g, l)
  BY <1>1, StateAfterRounds DEF Round
<1>4. g \in Severity
  BY DEF HighestOf
<1>5. StateAfter[i] = IF l > g THEN l ELSE g
  BY <1>2, <1>3, <1>4, EscalateIsMax
<1>6. \A j \in 1 .. i - 1 : GetState(AlarmList[j]) \in Severity /\ GetState(AlarmList[j]) <= g
  BY <1>1, GetStateTyped DEF HighestOf
<1>7. g # CLEAR => \E j \in 1 .. i - 1 : GetState(AlarmList[j]) = g
  BY DEF HighestOf
<1>8. Severity \subseteq Nat
  BY DEF Severity, CLEAR, WARNING, ERROR
<1> HIDE DEF g
<1>9. \A j \in 1 .. i : GetState(AlarmList[j]) <= StateAfter[i]
  <2>1. g \in Nat /\ l \in Nat
    BY <1>2, <1>4, <1>8
  <2>2. \A j \in 1 .. i - 1 : GetState(AlarmList[j]) \in Nat
    BY <1>6, <1>8
  <2>3. g <= StateAfter[i] /\ l <= StateAfter[i] /\ StateAfter[i] \in Nat
    BY <1>5, <2>1
  <2> HIDE DEF l
  <2>4. ASSUME NEW j \in 1 .. i - 1 PROVE GetState(AlarmList[j]) <= StateAfter[i]
    BY <1>6, <2>1, <2>2, <2>3
  <2>5. GetState(AlarmList[i]) <= StateAfter[i]
    BY <2>3 DEF l
  <2>6. QED
    BY <2>4, <2>5
<1>10. StateAfter[i] # CLEAR => \E j \in 1 .. i : GetState(AlarmList[j]) = StateAfter[i]
  BY <1>5, <1>7
<1>11. QED
  BY <1>2, <1>4, <1>5, <1>9, <1>10 DEF HighestOf

LEMMA GroupHighest == AlarmTypeOK => HighestOf(Len(AlarmList))
<1> SUFFICES ASSUME AlarmTypeOK PROVE HighestOf(Len(AlarmList))
  OBVIOUS
<1> DEFINE wrong == {i \in 0 .. Len(AlarmList) : ~HighestOf(i)}
<1>1. Len(AlarmList) \in Nat
  BY AlarmAssumption
<1>2. HighestOf(0)
  BY <1>1, StateAfterRounds DEF HighestOf, Round, Severity
<1>3. wrong = {}
  <2> SUFFICES ASSUME wrong # {} PROVE FALSE
    OBVIOUS
  <2>1. PICK m \in wrong : \A n \in wrong : m <= n
    <3>1. wrong \in SUBSET Nat
      BY <1>1
    <3> HIDE DEF wrong
    <3>2. QED
      BY <3>1, HasMin
  <2>2. m \in 1 .. Len(AlarmList) /\ m - 1 \in 0 .. Len(AlarmList) /\ m - 1 \notin wrong
    BY <1>1, <1>2, <2>1
  <2>3. HighestOf(m - 1)
    BY <2>2
  <2>4. QED
    BY <2>1, <2>2, <2>3, RoundKeepsHighest
<1>4. QED
  BY <1>1, <1>3

LEMMA TypedShowsHighest == AlarmTypeOK => GroupIsHighest
<1> SUFFICES ASSUME AlarmTypeOK PROVE GroupIsHighest
  OBVIOUS
<1>1. HighestOf(Len(AlarmList))
  BY GroupHighest
<1>2. \A a \in Alarms : \E j \in 1 .. Len(AlarmList) : a = AlarmList[j]
  BY AlarmAssumption DEF Alarms, Range
<1>3. \A j \in 1 .. Len(AlarmList) : AlarmList[j] \in Alarms
  BY AlarmAssumption
<1>4. QED
  BY <1>1, <1>2, <1>3 DEF GroupIsHighest, GetGroupState, HighestOf

\* A group of any length shows the highest severity of its alarms, whatever
\* their order (Alarm.cpp:155-184).
THEOREM GroupShowsHighest == AlarmSpec => []GroupIsHighest
  BY TypedShowsHighest, AlarmTypeCorrect, PTL
=============================================================================
