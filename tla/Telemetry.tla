----------------------------- MODULE Telemetry -----------------------------
(***************************************************************************)
(* What a user makes of the reports it receives.  Every report carries the *)
(* whole of what it is about, so a user knows the last one of each kind.   *)
(***************************************************************************)
EXTENDS Sequences, Integers

SameKind(r, s) == r.Module = s.Module /\ r.RecordType = s.RecordType

\* What a user who knew "known" knows after the messages msgs.
Heard(known, msgs) ==
    {msgs[i] : i \in {j \in 1 .. Len(msgs) :
                         \A k \in j + 1 .. Len(msgs) : ~SameKind(msgs[j], msgs[k])}}
        \cup {r \in known : \A i \in 1 .. Len(msgs) : ~SameKind(r, msgs[i])}
=============================================================================
