--------------------------- MODULE MCSessionsHistory ---------------------------
(***************************************************************************)
(* Small instances of SessionsHistory for TLC.  An execution is one of two *)
(* kinds, so that their state spaces add up instead of multiplying: either *)
(* requests and failures cross within one second, or requests follow one   *)
(* another and the clock ticks.  Only the differences between the seconds  *)
(* of two tokens matter, so the first is signed in second 0 and the n-th   *)
(* in second n - 1 at the latest.                                          *)
(***************************************************************************)
EXTENDS MCSessions, SessionsHistory

VARIABLE crossing  \* which of the two

mcvars == <<hvars, crossing>>

MCInit == HInit /\ crossing \in BOOLEAN

Signed == {t \in Tokens : tokenState[t] # "absent"}

MCNext ==
    /\ \/ crossing /\ HNext /\ UNCHANGED now
       \/ ~crossing /\ OneByOne /\ now' <= Cardinality(Signed)
    /\ UNCHANGED crossing

MCSpec == MCInit /\ [][MCNext]_mcvars

=============================================================================
