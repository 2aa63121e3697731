------------------------------ MODULE MCBudget ------------------------------
(* Budget with every transcript of at most MaxSegments segments.            *)
EXTENDS Budget

CONSTANTS Lengths, MaxSegments

AllTranscripts == UNION {[1 .. n -> Lengths] : n \in 0 .. MaxSegments}

=============================================================================
