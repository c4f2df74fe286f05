---------------------------- MODULE CommonLemmas ----------------------------
(***************************************************************************)
(* Lemmas that the proofs of several components share: the least and the   *)
(* greatest element of a set of naturals, loops, what a user knows after a *)
(* list of reports, and flattened lists.                                   *)
(*                                                                         *)
(* The first stand in for induction: a claim about all naturals up to a    *)
(* bound is proved by looking at the least one that would break it (the    *)
(* induction rules of the library take an operator as a parameter, which   *)
(* the provers cannot instantiate).                                        *)
(***************************************************************************)
EXTENDS MsgQueue, Telemetry, SequencesExt, SequenceTheorems, FiniteSetTheorems, TLAPS

\* The intervals 0 .. m, m in S, are well-founded by strict inclusion.
LEMMA HasMin ==
    ASSUME NEW S \in SUBSET Nat, S # {}
    PROVE  \E m \in S : \A n \in S : m <= n
<1> DEFINE R == StrictSubsetOrdering(Nat)
           T == {0 .. m : m \in S}
<1>1. IsWellFoundedOn(R, FiniteSubsetsOf(Nat))
  BY FS_StrictSubsetOrderingWellFounded
<1>2. T \subseteq FiniteSubsetsOf(Nat)
  <2>1. ASSUME NEW m \in S PROVE 0 .. m \in FiniteSubsetsOf(Nat)
    <3>1. IsFiniteSet(0 .. m)
      BY FS_Interval
    <3>2. 0 .. m \in SUBSET Nat
      OBVIOUS
    <3>3. QED
      BY <3>1, <3>2 DEF FiniteSubsetsOf
  <2>2. QED
    BY <2>1
<1>3. T # {}
  OBVIOUS
<1>4. PICK U \in T : \A V \in T : ~ (<<V, U>> \in R)
  <2> HIDE DEF R, T
  <2>1. QED
    BY <1>1, <1>2, <1>3, WFMin
<1>5. PICK m \in S : U = 0 .. m
  OBVIOUS
<1>6. \A n \in S : m <= n
  <2> SUFFICES ASSUME NEW n \in S, n < m PROVE FALSE
    OBVIOUS
  <2>1. 0 .. n \in T
    OBVIOUS
  <2>2. << 0 .. n, U >> \in R
    BY <1>5 DEF StrictSubsetOrdering
  <2>3. QED
    BY <1>4, <2>1, <2>2
<1>7. QED
  BY <1>6

\* The greatest element of S is k minus the least distance to the bound k.
LEMMA HasMax ==
    ASSUME NEW k \in Nat, NEW S \in SUBSET (0 .. k), S # {}
    PROVE  \E m \in S : \A n \in S : n <= m
<1> DEFINE D == {x \in Nat : k - x \in S}
<1>1. PICK s \in S : TRUE
  OBVIOUS
<1>2. k - s \in D
  OBVIOUS
<1>3. PICK d \in D : \A e \in D : d <= e
  BY <1>2, HasMin
<1>4. k - d \in S
  OBVIOUS
<1>5. ASSUME NEW n \in S PROVE n <= k - d
  <2>1. k - n \in D
    OBVIOUS
  <2>2. QED
    BY <1>3, <2>1
<1>6. QED
  BY <1>4, <1>5

-----------------------------------------------------------------------------
(* Loops.                                                                  *)

\* A loop whose rounds map states to states has a function that says where it
\* is after each of n rounds: there is no least n for which it has none.
IsLoop(n, v, step, f) ==
    f = [k \in 0 .. n |-> IF k = 0 THEN v ELSE step[k][f[k - 1]]]

LEMMA LoopRuns ==
    ASSUME NEW n \in Nat, NEW V, NEW v \in V, NEW step \in [1 .. n -> [V -> V]]
    PROVE  \E f \in [0 .. n -> V] : IsLoop(n, v, step, f)
<1> DEFINE runs(k) == \E f \in [0 .. k -> V] : IsLoop(k, v, step, f)
           without == {k \in 0 .. n : ~runs(k)}
<1>1. ASSUME without # {} PROVE FALSE
  <2>1. PICK m \in without : \A k \in without : m <= k
    <3>1. without \in SUBSET Nat
      OBVIOUS
    <3> HIDE DEF without
    <3> QED
      BY <1>1, <3>1, HasMin
  <2>2. m \in 0 .. n /\ ~runs(m)
    BY <2>1
  <2>3. CASE m = 0
    <3>1. [k \in 0 .. 0 |-> v] \in [0 .. 0 -> V]
          /\ IsLoop(0, v, step, [k \in 0 .. 0 |-> v])
      BY DEF IsLoop
    <3> QED
      BY <2>2, <2>3, <3>1
  <2>4. CASE m # 0
    <3>1. m - 1 \in 0 .. n /\ ~(m <= m - 1)
      BY <2>2, <2>4
    <3>2. m - 1 \notin without
      <4> HIDE DEF without
      <4> QED
        BY <2>1, <3>1
    <3>3. PICK f \in [0 .. m - 1 -> V] : IsLoop(m - 1, v, step, f)
      BY <3>1, <3>2
    <3> DEFINE g == [k \in 0 .. m |-> IF k = m THEN step[m][f[m - 1]] ELSE f[k]]
    <3>4. step[m][f[m - 1]] \in V
      BY <2>2, <2>4, <3>1
    <3>5. g \in [0 .. m -> V]
      BY <2>2, <3>4
    <3>6. \A k \in 0 .. m : g[k] = IF k = 0 THEN v ELSE step[k][g[k - 1]]
      <4> SUFFICES ASSUME NEW k \in 0 .. m
                   PROVE  g[k] = IF k = 0 THEN v ELSE step[k][g[k - 1]]
        OBVIOUS
      <4>1. k # 0 => g[k - 1] = f[k - 1]
        BY <2>2
      <4>2. k # m => f[k] = IF k = 0 THEN v ELSE step[k][f[k - 1]]
        <5>1. k # m => k \in 0 .. m - 1
          BY <2>2
        <5> QED
          BY <3>3, <5>1 DEF IsLoop
      <4> QED
        BY <2>2, <2>4, <4>1, <4>2
    <3>7. IsLoop(m, v, step, g)
      <4> HIDE DEF g
      <4> QED
        BY <3>5, <3>6 DEF IsLoop
    <3> QED
      BY <2>2, <3>5, <3>7
  <2> QED
    BY <2>3, <2>4
<1>2. n \in 0 .. n /\ n \notin without
  BY <1>1
<1> QED
  BY <1>2

-----------------------------------------------------------------------------
(* What a user knows.                                                      *)

\* A list of whatever elements.
IsList(s) == \E S : s \in Seq(S)

LEMMA HeardIff ==
    ASSUME NEW known, NEW msgs, NEW r
    PROVE  r \in Heard(known, msgs) <=>
             \/ \E j \in 1 .. Len(msgs) :
                  r = msgs[j] /\ \A k \in j + 1 .. Len(msgs) : ~SameKind(r, msgs[k])
             \/ r \in known /\ \A i \in 1 .. Len(msgs) : ~SameKind(r, msgs[i])
  BY DEF Heard

LEMMA ListAppend ==
    ASSUME NEW s, IsList(s), NEW x
    PROVE  /\ IsList(Append(s, x))
           /\ Len(s) \in Nat
           /\ Len(Append(s, x)) = Len(s) + 1
           /\ \A i \in 1 .. Len(s) : Append(s, x)[i] = s[i]
           /\ Append(s, x)[Len(s) + 1] = x
<1>1. PICK S : s \in Seq(S)
  BY DEF IsList
<1>2. s \in Seq(S \cup {x})
  BY <1>1, SeqMonotonic
<1>3. x \in S \cup {x}
  OBVIOUS
<1>4. Len(s) \in Nat
  BY <1>1, LenProperties
<1> QED
  BY <1>2, <1>3, <1>4, AppendProperties DEF IsList

\* One report more: it is known, and makes the others of its kind forgotten.
LEMMA HeardAppend ==
    ASSUME NEW known, NEW s, IsList(s), NEW x, NEW r
    PROVE  r \in Heard(known, Append(s, x)) <=>
             r = x \/ (r \in Heard(known, s) /\ ~SameKind(r, x))
<1> DEFINE t == Append(s, x)
<1>1. /\ Len(s) \in Nat /\ Len(t) = Len(s) + 1
      /\ \A i \in 1 .. Len(s) : t[i] = s[i]
      /\ t[Len(s) + 1] = x
  BY ListAppend
<1> HIDE DEF t
<1>2. ASSUME r = x PROVE r \in Heard(known, t)
  <2>1. Len(s) + 1 \in 1 .. Len(t) /\ \A k \in (Len(s) + 1) + 1 .. Len(t) : FALSE
    BY <1>1
  <2> QED
    BY <1>1, <1>2, <2>1, HeardIff
<1>3. ASSUME r \in Heard(known, s), ~SameKind(r, x) PROVE r \in Heard(known, t)
  <2>1. CASE \E j \in 1 .. Len(s) : r = s[j] /\ \A k \in j + 1 .. Len(s) : ~SameKind(r, s[k])
    <3>1. PICK j \in 1 .. Len(s) : r = s[j] /\ \A k \in j + 1 .. Len(s) : ~SameKind(r, s[k])
      BY <2>1
    <3>2. j \in 1 .. Len(t) /\ r = t[j]
      BY <1>1, <3>1
    <3>3. ASSUME NEW k \in j + 1 .. Len(t) PROVE ~SameKind(r, t[k])
      <4>1. k = Len(s) + 1 \/ k \in j + 1 .. Len(s)
        BY <1>1
      <4>2. k \in j + 1 .. Len(s) => t[k] = s[k]
        BY <1>1
      <4> QED
        BY <1>1, <1>3, <3>1, <4>1, <4>2
    <3> QED
      BY <3>2, <3>3, HeardIff
  <2>2. CASE r \in known /\ \A i \in 1 .. Len(s) : ~SameKind(r, s[i])
    <3>1. ASSUME NEW i \in 1 .. Len(t) PROVE ~SameKind(r, t[i])
      <4>1. i = Len(s) + 1 \/ i \in 1 .. Len(s)
        BY <1>1
      <4> QED
        BY <1>1, <1>3, <2>2, <4>1
    <3> QED
      BY <2>2, <3>1, HeardIff
  <2> QED
    BY <1>3, <2>1, <2>2, HeardIff
<1>4. ASSUME r \in Heard(known, t), r # x
      PROVE  r \in Heard(known, s) /\ ~SameKind(r, x)
  <2>1. CASE \E j \in 1 .. Len(t) : r = t[j] /\ \A k \in j + 1 .. Len(t) : ~SameKind(r, t[k])
    <3>1. PICK j \in 1 .. Len(t) : r = t[j] /\ \A k \in j + 1 .. Len(t) : ~SameKind(r, t[k])
      BY <2>1
    <3>2. j \in 1 .. Len(s)
      BY <1>1, <1>4, <3>1
    <3>3. r = s[j]
      BY <1>1, <3>1, <3>2
    <3>4. \A k \in j + 1 .. Len(s) : k \in j + 1 .. Len(t) /\ t[k] = s[k]
      BY <1>1, <3>2
    <3>5. Len(s) + 1 \in j + 1 .. Len(t)
      BY <1>1, <3>2
    <3> QED
      BY <1>1, <3>1, <3>2, <3>3, <3>4, <3>5, HeardIff
  <2>2. CASE r \in known /\ \A i \in 1 .. Len(t) : ~SameKind(r, t[i])
    <3>1. \A i \in 1 .. Len(s) : i \in 1 .. Len(t) /\ t[i] = s[i]
      BY <1>1
    <3>2. Len(s) + 1 \in 1 .. Len(t)
      BY <1>1
    <3> QED
      BY <1>1, <2>2, <3>1, <3>2, HeardIff
  <2> QED
    BY <1>4, <2>1, <2>2, HeardIff
<1> QED
  BY <1>2, <1>3, <1>4 DEF t

LEMMA ListConcat ==
    ASSUME NEW s, IsList(s), NEW t, IsList(t)
    PROVE  /\ IsList(s \o t)
           /\ Len(s) \in Nat /\ Len(t) \in Nat
           /\ Len(s \o t) = Len(s) + Len(t)
           /\ \A i \in 1 .. Len(s) : (s \o t)[i] = s[i]
           /\ \A i \in 1 .. Len(t) : (s \o t)[Len(s) + i] = t[i]
<1>1. PICK S : s \in Seq(S)
  BY DEF IsList
<1>2. PICK T : t \in Seq(T)
  BY DEF IsList
<1>3. s \in Seq(S \cup T) /\ t \in Seq(S \cup T)
  BY <1>1, <1>2, SeqMonotonic
<1>4. Len(s) \in Nat /\ Len(t) \in Nat
  BY <1>1, <1>2, LenProperties
<1>5. s \o t \in Seq(S \cup T)
  BY <1>3, ConcatProperties
<1>6. /\ Len(s \o t) = Len(s) + Len(t)
      /\ \A i \in 1 .. Len(s) + Len(t) :
            (s \o t)[i] = IF i <= Len(s) THEN s[i] ELSE t[i - Len(s)]
  BY <1>3, ConcatProperties
<1>7. ASSUME NEW i \in 1 .. Len(t) PROVE (s \o t)[Len(s) + i] = t[i]
  <2>1. /\ Len(s) + i \in 1 .. Len(s) + Len(t) /\ ~(Len(s) + i <= Len(s))
        /\ (Len(s) + i) - Len(s) = i
    BY <1>4
  <2> QED
    BY <1>6, <2>1
<1> QED
  BY <1>4, <1>5, <1>6, <1>7 DEF IsList

\* What is known after two lists is what the second makes of the first.
LEMMA HeardConcat ==
    ASSUME NEW known, NEW s, IsList(s), NEW t, IsList(t), NEW r
    PROVE  r \in Heard(known, s \o t) <=> r \in Heard(Heard(known, s), t)
<1> DEFINE u == s \o t
           K == Heard(known, s)
<1>1. /\ Len(s) \in Nat /\ Len(t) \in Nat /\ Len(u) = Len(s) + Len(t)
      /\ \A i \in 1 .. Len(s) : u[i] = s[i]
      /\ \A i \in 1 .. Len(t) : u[Len(s) + i] = t[i]
  BY ListConcat
<1>2. \A i \in 1 .. Len(u) : \/ i \in 1 .. Len(s) /\ u[i] = s[i]
                             \/ i - Len(s) \in 1 .. Len(t) /\ u[i] = t[i - Len(s)]
  <2> SUFFICES ASSUME NEW i \in 1 .. Len(u), i \notin 1 .. Len(s)
               PROVE  i - Len(s) \in 1 .. Len(t) /\ u[i] = t[i - Len(s)]
    BY <1>1
  <2>1. i - Len(s) \in 1 .. Len(t) /\ Len(s) + (i - Len(s)) = i
    BY <1>1
  <2> QED
    BY <1>1, <2>1
<1> HIDE DEF u, K
<1>3. ASSUME r \in Heard(known, u) PROVE r \in Heard(K, t)
  <2>1. CASE \E j \in 1 .. Len(u) : r = u[j] /\ \A k \in j + 1 .. Len(u) : ~SameKind(r, u[k])
    <3>1. PICK j \in 1 .. Len(u) : r = u[j] /\ \A k \in j + 1 .. Len(u) : ~SameKind(r, u[k])
      BY <2>1
    <3>2. CASE j \in 1 .. Len(s)
      <4>1. \A k \in j + 1 .. Len(s) : k \in j + 1 .. Len(u) /\ u[k] = s[k]
        BY <1>1, <3>2
      <4>2. r \in K
        BY <1>1, <3>1, <3>2, <4>1, HeardIff DEF K
      <4>3. \A i \in 1 .. Len(t) : Len(s) + i \in j + 1 .. Len(u) /\ u[Len(s) + i] = t[i]
        BY <1>1, <3>2
      <4> QED
        BY <3>1, <4>2, <4>3, HeardIff
    <3>3. CASE j \notin 1 .. Len(s)
      <4>1. PICK i : i = j - Len(s)
        OBVIOUS
      <4>2. i \in 1 .. Len(t) /\ u[j] = t[i] /\ j = Len(s) + i
        BY <1>1, <1>2, <3>3, <4>1
      <4>3. \A k \in i + 1 .. Len(t) : Len(s) + k \in j + 1 .. Len(u) /\ u[Len(s) + k] = t[k]
        BY <1>1, <4>2
      <4> QED
        BY <3>1, <4>2, <4>3, HeardIff
    <3> QED
      BY <3>2, <3>3
  <2>2. CASE r \in known /\ \A i \in 1 .. Len(u) : ~SameKind(r, u[i])
    <3>1. \A i \in 1 .. Len(s) : i \in 1 .. Len(u) /\ u[i] = s[i]
      BY <1>1
    <3>2. \A i \in 1 .. Len(t) : Len(s) + i \in 1 .. Len(u) /\ u[Len(s) + i] = t[i]
      BY <1>1
    <3>3. r \in K
      BY <2>2, <3>1, HeardIff DEF K
    <3> QED
      BY <2>2, <3>2, <3>3, HeardIff
  <2> QED
    BY <1>3, <2>1, <2>2, HeardIff
<1>4. ASSUME r \in Heard(K, t) PROVE r \in Heard(known, u)
  <2>1. CASE \E i \in 1 .. Len(t) : r = t[i] /\ \A k \in i + 1 .. Len(t) : ~SameKind(r, t[k])
    <3>1. PICK i \in 1 .. Len(t) : r = t[i] /\ \A k \in i + 1 .. Len(t) : ~SameKind(r, t[k])
      BY <2>1
    <3>2. Len(s) + i \in 1 .. Len(u) /\ u[Len(s) + i] = r
      BY <1>1, <3>1
    <3>3. ASSUME NEW k \in (Len(s) + i) + 1 .. Len(u) PROVE ~SameKind(r, u[k])
      <4>1. k - Len(s) \in i + 1 .. Len(t) /\ k \in 1 .. Len(u) /\ k \notin 1 .. Len(s)
        BY <1>1
      <4> QED
        BY <1>2, <3>1, <4>1
    <3> QED
      BY <3>2, <3>3, HeardIff
  <2>2. CASE r \in K /\ \A i \in 1 .. Len(t) : ~SameKind(r, t[i])
    <3>1. CASE \E j \in 1 .. Len(s) : r = s[j] /\ \A k \in j + 1 .. Len(s) : ~SameKind(r, s[k])
      <4>1. PICK j \in 1 .. Len(s) : r = s[j] /\ \A k \in j + 1 .. Len(s) : ~SameKind(r, s[k])
        BY <3>1
      <4>2. j \in 1 .. Len(u) /\ r = u[j]
        BY <1>1, <4>1
      <4>3. ASSUME NEW k \in j + 1 .. Len(u) PROVE ~SameKind(r, u[k])
        <5>1. k \in 1 .. Len(u) /\ (k \in 1 .. Len(s) => k \in j + 1 .. Len(s))
          BY <1>1
        <5> QED
          BY <1>2, <2>2, <4>1, <5>1
      <4> QED
        BY <4>2, <4>3, HeardIff
    <3>2. CASE r \in known /\ \A i \in 1 .. Len(s) : ~SameKind(r, s[i])
      <4>1. ASSUME NEW i \in 1 .. Len(u) PROVE ~SameKind(r, u[i])
        BY <1>2, <2>2, <3>2
      <4> QED
        BY <3>2, <4>1, HeardIff
    <3> QED
      BY <2>2, <3>1, <3>2, HeardIff DEF K
  <2> QED
    BY <1>4, <2>1, <2>2, HeardIff
<1> QED
  BY <1>3, <1>4 DEF u, K

LEMMA HeardNothing ==
    ASSUME NEW known
    PROVE  Heard(known, << >>) = known
  BY DEF Heard

\* A queue that holds whatever reports.
IsMailbox(q) == DOMAIN q = QueueFields /\ IsList(q.TxMsgs)

\* p is the queue q with one report more, if it is needed.
Adds(p, q, needed, r) ==
    /\ IsMailbox(p)
    /\ p.Module = q.Module /\ p.Broadcast = q.Broadcast
    /\ \A known, x :
         x \in Heard(known, p.TxMsgs) <=>
           \/ needed /\ x = r
           \/ x \in Heard(known, q.TxMsgs) /\ (needed => ~SameKind(x, r))

LEMMA SendHeard ==
    ASSUME NEW q, IsMailbox(q), NEW needed, NEW record, NEW data,
           NEW p, p = SendIf(q, needed, record, data)
    PROVE  Adds(p, q, needed, Report(q.Module, record, data))
<1>1. CASE ~needed
  BY <1>1 DEF SendIf, Adds
<1>2. CASE needed
  <2>1. PICK x : x = Report(q.Module, record, data)
    OBVIOUS
  <2>2. p = [q EXCEPT !.TxMsgs = Append(@, x)]
    BY <1>2, <2>1 DEF SendIf, Send
  <2>3. /\ DOMAIN p = QueueFields /\ p.TxMsgs = Append(q.TxMsgs, x)
        /\ p.Module = q.Module /\ p.Update = q.Update
        /\ p.Broadcast = q.Broadcast /\ p.RxMsgs = q.RxMsgs
    BY <2>2 DEF IsMailbox, QueueFields
  <2>4. IsList(p.TxMsgs)
    BY <2>3, ListAppend DEF IsMailbox
  <2>5. \A known, r : r \in Heard(known, p.TxMsgs) <=>
            r = x \/ (r \in Heard(known, q.TxMsgs) /\ ~SameKind(r, x))
    BY <2>3, HeardAppend DEF IsMailbox
  <2> QED
    BY <1>2, <2>1, <2>3, <2>4, <2>5 DEF IsMailbox, Adds
<1> QED
  BY <1>1, <1>2

\* To clear the flag or to take the lines changes no report.
LEMMA SameReports ==
    ASSUME NEW q, IsMailbox(q)
    PROVE  /\ IsMailbox(IsBroadcastDone(q)) /\ IsBroadcastDone(q).TxMsgs = q.TxMsgs
           /\ IsBroadcastDone(q).Module = q.Module /\ IsBroadcastDone(q).Broadcast = FALSE
           /\ IsMailbox(SetBroadcast(q)) /\ SetBroadcast(q).TxMsgs = q.TxMsgs
           /\ SetBroadcast(q).Module = q.Module /\ SetBroadcast(q).Broadcast = TRUE
           /\ IsMailbox(ReceiveAll(q)) /\ ReceiveAll(q).TxMsgs = q.TxMsgs
           /\ ReceiveAll(q).Module = q.Module /\ ReceiveAll(q).Broadcast = q.Broadcast
  BY DEF IsMailbox, QueueFields, IsBroadcastDone, SetBroadcast, ReceiveAll

\* Whatever a user knew, it knows the report r once the queue q has been sent;
\* and it knows after p what it would have known after q, but for some kinds.
Informs(q, r) == \A known : r \in Heard(known, q.TxMsgs)

Keeps(p, q, kinds) ==
    \A known : \A r \in Heard(known, q.TxMsgs) :
        r.RecordType \notin kinds => r \in Heard(known, p.TxMsgs)

\* A task clears the flag and sends up to three kinds of report, each for a
\* reason of its own: what is sent is known, and what is not sent anew is
\* known as before.
Reported(p, q, n1, r1, n2, r2, n3, r3) ==
    /\ IsMailbox(p)
    /\ p.Module = q.Module /\ p.Broadcast = FALSE
    /\ n1 => Informs(p, r1)
    /\ n2 => Informs(p, r2)
    /\ n3 => Informs(p, r3)
    /\ Keeps(p, q, (IF n1 THEN {r1.RecordType} ELSE {})
                     \cup (IF n2 THEN {r2.RecordType} ELSE {})
                     \cup (IF n3 THEN {r3.RecordType} ELSE {}))

LEMMA ThreeReports ==
    ASSUME NEW q, IsMailbox(q),
           NEW n1, NEW k1, NEW d1, NEW n2, NEW k2, NEW d2, NEW n3, NEW k3, NEW d3,
           k1 # k2, k1 # k3, k2 # k3,
           NEW p, p = SendIf(SendIf(SendIf(IsBroadcastDone(q), n1, k1, d1),
                                    n2, k2, d2), n3, k3, d3)
    PROVE  Reported(p, q, n1, Report(q.Module, k1, d1), n2, Report(q.Module, k2, d2),
                          n3, Report(q.Module, k3, d3))
<1>1. PICK q0 : q0 = IsBroadcastDone(q)
  OBVIOUS
<1>2. PICK q1 : q1 = SendIf(q0, n1, k1, d1)
  OBVIOUS
<1>3. PICK q2 : q2 = SendIf(q1, n2, k2, d2)
  OBVIOUS
<1>4. p = SendIf(q2, n3, k3, d3)
  BY <1>1, <1>2, <1>3
<1>5. IsMailbox(q0) /\ q0.TxMsgs = q.TxMsgs /\ q0.Module = q.Module /\ q0.Broadcast = FALSE
  BY <1>1, SameReports
<1>6. PICK r1, r2, r3 : /\ r1 = Report(q.Module, k1, d1)
                        /\ r2 = Report(q.Module, k2, d2)
                        /\ r3 = Report(q.Module, k3, d3)
  OBVIOUS
<1>7. IsMailbox(q1) /\ Adds(q1, q0, n1, r1)
  <2>1. Adds(q1, q0, n1, Report(q0.Module, k1, d1))
    BY <1>2, <1>5, SendHeard
  <2> QED
    BY <1>5, <1>6, <2>1 DEF Adds
<1>8. IsMailbox(q2) /\ Adds(q2, q1, n2, r2)
  <2>1. Adds(q2, q1, n2, Report(q1.Module, k2, d2))
    BY <1>3, <1>7, SendHeard
  <2>2. q1.Module = q.Module
    BY <1>5, <1>7 DEF Adds
  <2> QED
    BY <1>6, <2>1, <2>2 DEF Adds
<1>9. IsMailbox(p) /\ Adds(p, q2, n3, r3)
  <2>1. Adds(p, q2, n3, Report(q2.Module, k3, d3))
    BY <1>4, <1>8, SendHeard
  <2>2. q2.Module = q.Module
    BY <1>5, <1>7, <1>8 DEF Adds
  <2> QED
    BY <1>6, <2>1, <2>2 DEF Adds
<1>10. /\ ~SameKind(r1, r2) /\ ~SameKind(r1, r3) /\ ~SameKind(r2, r3)
       /\ \A r : /\ r.RecordType # k1 => ~SameKind(r, r1)
                 /\ r.RecordType # k2 => ~SameKind(r, r2)
                 /\ r.RecordType # k3 => ~SameKind(r, r3)
  BY <1>6 DEF SameKind, Report
<1>11. ASSUME NEW known
       PROVE  /\ n1 => r1 \in Heard(known, p.TxMsgs)
              /\ n2 => r2 \in Heard(known, p.TxMsgs)
              /\ n3 => r3 \in Heard(known, p.TxMsgs)
  <2>1. /\ n1 => r1 \in Heard(known, q1.TxMsgs)
        /\ n2 => r2 \in Heard(known, q2.TxMsgs)
        /\ n3 => r3 \in Heard(known, p.TxMsgs)
    BY <1>7, <1>8, <1>9 DEF Adds
  <2>2. n1 => r1 \in Heard(known, q2.TxMsgs)
    BY <1>8, <1>10, <2>1 DEF Adds
  <2>3. /\ n1 => r1 \in Heard(known, p.TxMsgs)
        /\ n2 => r2 \in Heard(known, p.TxMsgs)
    BY <1>9, <1>10, <2>1, <2>2 DEF Adds
  <2> QED
    BY <2>1, <2>3
<1>12. ASSUME NEW known, NEW r \in Heard(known, q.TxMsgs),
              (n1 => r.RecordType # k1) /\ (n2 => r.RecordType # k2) /\ (n3 => r.RecordType # k3)
       PROVE  r \in Heard(known, p.TxMsgs)
  <2>1. (n1 => ~SameKind(r, r1)) /\ (n2 => ~SameKind(r, r2)) /\ (n3 => ~SameKind(r, r3))
    BY <1>6, <1>12 DEF SameKind, Report
  <2>2. r \in Heard(known, q1.TxMsgs)
    BY <1>5, <1>7, <2>1 DEF Adds
  <2>3. r \in Heard(known, q2.TxMsgs)
    BY <1>8, <2>1, <2>2 DEF Adds
  <2> QED
    BY <1>9, <2>1, <2>3 DEF Adds
<1>13. /\ n1 => Informs(p, r1)
       /\ n2 => Informs(p, r2)
       /\ n3 => Informs(p, r3)
  BY <1>11 DEF Informs
<1>14. Keeps(p, q, (IF n1 THEN {k1} ELSE {}) \cup (IF n2 THEN {k2} ELSE {})
                      \cup (IF n3 THEN {k3} ELSE {}))
  BY <1>12 DEF Keeps
<1>15. k1 = r1.RecordType /\ k2 = r2.RecordType /\ k3 = r3.RecordType
  BY <1>6 DEF Report
<1>16. Reported(p, q, n1, r1, n2, r2, n3, r3)
  BY <1>5, <1>7, <1>8, <1>9, <1>13, <1>14, <1>15 DEF Reported, Adds
<1> QED
  BY <1>6, <1>16

-----------------------------------------------------------------------------
(* Lists of lists.                                                         *)

\* The rounds of the flattening loop: the first list, then each of the others
\* behind what there is.  The loop has no first round that fails.
FlattensInto(ss, f) ==
    /\ FlattenSeq(ss) = f[Len(ss)]
    /\ \A i \in 1 .. Len(ss) : f[i] = IF i = 1 THEN ss[i] ELSE f[i - 1] \o ss[i]

LEMMA FlattenRounds ==
    ASSUME NEW ss, Len(ss) \in Nat, Len(ss) # 0
    PROVE  \E f : FlattensInto(ss, f)
<1> DEFINE Round(f, i) == IF i = 1 THEN ss[i] ELSE f[i - 1] \o ss[i]
           Rounds(n, f) == f = [i \in 1 .. n |-> Round(f, i)]
           without == {n \in 0 .. Len(ss) : ~ \E f : Rounds(n, f)}
<1> HIDE DEF Round, Rounds
<1>1. without = {}
  <2> SUFFICES ASSUME without # {} PROVE FALSE
    OBVIOUS
  <2>1. PICK m \in without : \A n \in without : m <= n
    <3>1. without \in SUBSET Nat
      OBVIOUS
    <3> HIDE DEF without
    <3>2. QED
      BY <3>1, HasMin
  <2>2. m \in 0 .. Len(ss) /\ m \in Nat
    BY <2>1
  <2>3. CASE m = 0
    <3>1. Rounds(0, [i \in 1 .. 0 |-> << >>])
      BY DEF Rounds
    <3>2. QED
      BY <2>1, <2>3, <3>1
  <2>4. CASE m # 0
    <3>1. m - 1 \in 0 .. Len(ss) /\ ~(m <= m - 1)
      BY <2>2, <2>4
    <3>2. m - 1 \in 0 .. Len(ss) /\ m - 1 \notin without
      <4> HIDE DEF without
      <4>1. QED
        BY <2>1, <3>1
    <3>3. PICK f : Rounds(m - 1, f)
      BY <3>2
    <3> DEFINE g == [i \in 1 .. m |-> IF i = m THEN Round(f, m) ELSE f[i]]
    <3>4. \A i \in 1 .. m : g[i] = Round(g, i)
      <4> SUFFICES ASSUME NEW i \in 1 .. m PROVE g[i] = Round(g, i)
        OBVIOUS
      <4>1. i # 1 => g[i - 1] = f[i - 1]
        BY <2>1, <2>4
      <4>2. Round(g, i) = Round(f, i)
        BY <4>1 DEF Round
      <4>3. i # m => f[i] = Round(f, i)
        <5>1. i # m => i \in 1 .. m - 1
          BY <2>2
        <5>2. QED
          BY <3>3, <5>1 DEF Rounds
      <4>4. QED
        BY <4>2, <4>3
    <3>5. Rounds(m, g)
      BY <3>4 DEF Rounds
    <3>6. QED
      BY <2>1, <3>5
  <2>5. QED
    BY <2>3, <2>4
<1> DEFINE flatten[i \in 1 .. Len(ss)] ==
        IF i = 1 THEN ss[i] ELSE flatten[i - 1] \o ss[i]
<1>2. FlattenSeq(ss) = flatten[Len(ss)]
  BY DEF FlattenSeq
<1>3. \E f : Rounds(Len(ss), f)
  BY <1>1
<1>4. \A i \in 1 .. Len(ss) : flatten[i] = Round(flatten, i)
  BY <1>3 DEF Round, Rounds
<1> HIDE DEF flatten
<1> QED
  BY <1>2, <1>4 DEF Round, FlattensInto

\* A list of lists flattened is a list of their elements.
LEMMA FlattenTyped ==
    ASSUME NEW S, NEW ss \in Seq(Seq(S))
    PROVE  FlattenSeq(ss) \in Seq(S)
<1>1. Len(ss) \in Nat /\ \A i \in 1 .. Len(ss) : ss[i] \in Seq(S)
  OBVIOUS
<1>2. CASE Len(ss) = 0
  <2>1. ss = << >>
    BY <1>2
  <2>2. QED
    BY <1>2, <2>1 DEF FlattenSeq
<1>3. CASE Len(ss) # 0
  <2>1. PICK f : FlattensInto(ss, f)
    BY <1>1, <1>3, FlattenRounds
  <2>2. /\ FlattenSeq(ss) = f[Len(ss)]
        /\ \A i \in 1 .. Len(ss) : f[i] = IF i = 1 THEN ss[i] ELSE f[i - 1] \o ss[i]
    BY <2>1 DEF FlattensInto
  <2> DEFINE wrong == {i \in 1 .. Len(ss) : f[i] \notin Seq(S)}
  <2>3. wrong = {}
    <3> SUFFICES ASSUME wrong # {} PROVE FALSE
      OBVIOUS
    <3>1. PICK m \in wrong : \A n \in wrong : m <= n
      <4>1. wrong \in SUBSET Nat
        BY <1>1
      <4> HIDE DEF wrong
      <4>2. QED
        BY <4>1, HasMin
    <3>2. m # 1
      BY <1>1, <2>2, <3>1
    <3>3. m - 1 \in 1 .. Len(ss) /\ m - 1 \notin wrong
      BY <1>1, <3>1, <3>2
    <3>4. f[m - 1] \in Seq(S) /\ ss[m] \in Seq(S)
      BY <1>1, <3>1, <3>3
    <3>5. f[m] = f[m - 1] \o ss[m]
      BY <2>2, <3>1, <3>2
    <3>6. f[m - 1] \o ss[m] \in Seq(S)
      BY <3>4, ConcatProperties
    <3>7. QED
      BY <3>1, <3>5, <3>6
  <2>4. Len(ss) \in 1 .. Len(ss)
    BY <1>1, <1>3
  <2>5. QED
    BY <2>2, <2>3, <2>4
<1>4. QED
  BY <1>2, <1>3

\* What a user makes of messages among which none is of the kind of r.
LEMMA HeardOther ==
    ASSUME NEW known, NEW msgs, NEW r,
           \A i \in 1 .. Len(msgs) : msgs[i].Module # r.Module
    PROVE  r \in Heard(known, msgs) <=> r \in known
<1>1. \A i \in 1 .. Len(msgs) : ~SameKind(r, msgs[i]) /\ r # msgs[i]
  BY DEF SameKind
<1> QED
  BY <1>1, HeardIff

\* To hear the same messages again tells nothing new.
LEMMA HeardTwice ==
    ASSUME NEW known, NEW again, NEW msgs, NEW r,
           r \in again <=> r \in Heard(known, msgs)
    PROVE  r \in Heard(again, msgs) <=> r \in Heard(known, msgs)
<1> DEFINE Final == \E j \in 1 .. Len(msgs) :
                       r = msgs[j] /\ \A k \in j + 1 .. Len(msgs) : ~SameKind(r, msgs[k])
           None == \A i \in 1 .. Len(msgs) : ~SameKind(r, msgs[i])
<1>1. r \in Heard(known, msgs) <=> Final \/ (r \in known /\ None)
  BY HeardIff
<1>2. r \in Heard(again, msgs) <=> Final \/ (r \in again /\ None)
  BY HeardIff
<1> HIDE DEF Final, None
<1> QED
  BY <1>1, <1>2

LEMMA HeardAlike ==
    ASSUME NEW known, NEW again, NEW msgs, NEW r, r \in again <=> r \in known
    PROVE  r \in Heard(again, msgs) <=> r \in Heard(known, msgs)
  BY HeardIff

\* Each of n lists holds only reports in one name, and in the name m, which is
\* among them, only q is sent.
AreQueues(n, names, lists, m, q) ==
    /\ Len(lists) = n
    /\ \A i \in 1 .. n : IsList(lists[i])
    /\ \A i \in 1 .. n : \A j \in 1 .. Len(lists[i]) : lists[i][j].Module = names[i]
    /\ \E i \in 1 .. n : names[i] = m
    /\ \A i \in 1 .. n : names[i] = m => lists[i] = q

\* The queues sent one after the other: of the reports of one module a user
\* knows what the queue of that module makes of what it knew.
LEMMA HeardFlatten ==
    ASSUME NEW n \in Nat, NEW names, NEW lists, NEW r, NEW q,
           AreQueues(n, names, lists, r.Module, q), NEW known
    PROVE  r \in Heard(known, FlattenSeq(lists)) <=> r \in Heard(known, q)
<1> USE DEF AreQueues
<1> DEFINE m == r.Module
<1>1. PICK f : FlattensInto(lists, f)
  <2>1. Len(lists) \in Nat /\ Len(lists) # 0
    OBVIOUS
  <2> QED
    BY <2>1, FlattenRounds
\* After the first i lists: the queue of m counts once it has been sent.
<1> DEFINE Sent(i) == \E k \in 1 .. i : names[k] = m
           Right(i) == /\ IsList(f[i])
                       /\ Sent(i) => (r \in Heard(known, f[i]) <=> r \in Heard(known, q))
                       /\ ~Sent(i) => (r \in Heard(known, f[i]) <=> r \in known)
           wrong == {i \in 1 .. n : ~Right(i)}
\* What one list more does to what is known.
<1>2. ASSUME NEW i \in 1 .. n, NEW before
      PROVE  /\ names[i] # m => (r \in Heard(before, lists[i]) <=> r \in before)
             /\ names[i] = m /\ (r \in before <=> r \in known)
                  => (r \in Heard(before, lists[i]) <=> r \in Heard(known, q))
             /\ names[i] = m /\ (r \in before <=> r \in Heard(known, q))
                  => (r \in Heard(before, lists[i]) <=> r \in Heard(known, q))
  <2>1. ASSUME names[i] # m PROVE r \in Heard(before, lists[i]) <=> r \in before
    <3>1. \A j \in 1 .. Len(lists[i]) : lists[i][j].Module # r.Module
      BY <2>1
    <3> QED
      BY <3>1, HeardOther
  <2>2. ASSUME names[i] = m, r \in before <=> r \in known
        PROVE  r \in Heard(before, lists[i]) <=> r \in Heard(known, q)
    BY <2>2, HeardAlike
  <2>3. ASSUME names[i] = m, r \in before <=> r \in Heard(known, q)
        PROVE  r \in Heard(before, lists[i]) <=> r \in Heard(known, q)
    BY <2>3, HeardTwice
  <2> QED
    BY <2>1, <2>2, <2>3
<1>3. 1 \in 1 .. n => Right(1)
  <2> SUFFICES ASSUME 1 \in 1 .. n PROVE Right(1)
    OBVIOUS
  <2>1. f[1] = lists[1]
    BY <1>1 DEF FlattensInto
  <2>2. Sent(1) <=> names[1] = m
    OBVIOUS
  <2>3. /\ names[1] # m => (r \in Heard(known, lists[1]) <=> r \in known)
        /\ names[1] = m => (r \in Heard(known, lists[1]) <=> r \in Heard(known, q))
    BY <1>2
  <2>4. IsList(lists[1])
    OBVIOUS
  <2> HIDE DEF Sent, m
  <2> QED
    BY <2>1, <2>2, <2>3, <2>4
<1>4. ASSUME NEW i \in 1 .. n, i # 1, Right(i - 1) PROVE Right(i)
  <2>1. f[i] = f[i - 1] \o lists[i]
    BY <1>1, <1>4 DEF FlattensInto
  <2>2. Sent(i) <=> Sent(i - 1) \/ names[i] = m
    <3>1. i - 1 \in Nat /\ \A k \in 1 .. i : k = i \/ k \in 1 .. i - 1
      BY <1>4
    <3>2. \A k \in 1 .. i - 1 : k \in 1 .. i
      BY <1>4
    <3> HIDE DEF m
    <3> QED
      BY <3>1, <3>2
  <2>3. IsList(f[i - 1]) /\ IsList(lists[i])
    BY <1>4
  <2>4. PICK before : before = Heard(known, f[i - 1])
    OBVIOUS
  <2>5. r \in Heard(known, f[i]) <=> r \in Heard(before, lists[i])
    BY <2>1, <2>3, <2>4, HeardConcat
  <2>6. IsList(f[i])
    BY <2>1, <2>3, ListConcat
  <2>7. /\ Sent(i - 1) => (r \in before <=> r \in Heard(known, q))
        /\ ~Sent(i - 1) => (r \in before <=> r \in known)
    BY <1>4, <2>4
  <2>8. /\ names[i] # m => (r \in Heard(before, lists[i]) <=> r \in before)
        /\ names[i] = m /\ (r \in before <=> r \in known)
             => (r \in Heard(before, lists[i]) <=> r \in Heard(known, q))
        /\ names[i] = m /\ (r \in before <=> r \in Heard(known, q))
             => (r \in Heard(before, lists[i]) <=> r \in Heard(known, q))
    BY <1>2
  <2> HIDE DEF Sent, m
  <2> QED
    BY <2>2, <2>5, <2>6, <2>7, <2>8
<1>5. wrong = {}
  <2> HIDE DEF Right
  <2> SUFFICES ASSUME wrong # {} PROVE FALSE
    OBVIOUS
  <2>1. PICK i \in wrong : \A k \in wrong : i <= k
    <3>1. wrong \in SUBSET Nat
      OBVIOUS
    <3> HIDE DEF wrong
    <3> QED
      BY <3>1, HasMin
  <2>2. i \in 1 .. n /\ ~Right(i)
    BY <2>1
  <2>3. i # 1
    BY <1>3, <2>2
  <2>4. i - 1 \in 1 .. n /\ ~(i <= i - 1)
    BY <2>2, <2>3
  <2>5. Right(i - 1)
    BY <2>1, <2>4
  <2> QED
    BY <1>4, <2>2, <2>3, <2>5
<1>6. n \in 1 .. n
  OBVIOUS
<1>7. Right(n)
  <2> HIDE DEF Right
  <2> QED
    BY <1>5, <1>6
<1>8. FlattenSeq(lists) = f[n] /\ Sent(n)
  BY <1>1 DEF FlattensInto
<1> QED
  BY <1>7, <1>8
=============================================================================
