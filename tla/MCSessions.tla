----------------------------- MODULE MCSessions -----------------------------
(***************************************************************************)
(* Small instances of Sessions for TLC.                                    *)
(***************************************************************************)
EXTENDS Sessions, TLC

Interchangeable == Permutations(Handlers)

\* Requests overlap and no call fails.
NoFailureSpec == Init /\ [][Calls \/ Atomic \/ World]_vars

=============================================================================
