----------------------------- MODULE MCJobQueue -----------------------------
(* Two jobs and two workers for safety, where every role is interchangeable. *)
EXTENDS JobQueue, TLC

Symmetric == Permutations(Jobs) \union Permutations(Workers)
=============================================================================
