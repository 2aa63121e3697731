----------------------------- MODULE MCChunking -----------------------------
(* Chunking with every report of at most MaxPauses pauses of at least four  *)
(* ticks on even ticks, the first of which may start before 0 and the last  *)
(* of which may end after the recording, or have no end.                    *)
EXTENDS Chunking

CONSTANTS MaxPauses, LastTick

Evens == {t \in -2 .. LastTick : t % 2 = 0}

\* starts[i] + 4 <= ends[i] < starts[i + 1]
WellFormed(r) ==
    /\ Len(r.starts) - Len(r.ends) \in {0, 1}
    /\ \A i \in DOMAIN r.ends : r.starts[i] + 4 <= r.ends[i]
    /\ \A i \in 1 .. Len(r.starts) - 1 : r.ends[i] < r.starts[i + 1]

UpTo(n) == UNION {[1 .. k -> Evens] : k \in 0 .. n}

AllReports ==
    {r \in [starts: UpTo(MaxPauses), ends: UpTo(MaxPauses)] : WellFormed(r)}

=============================================================================
