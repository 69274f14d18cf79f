------------------------------ MODULE MCScheduler ------------------------------
(***************************************************************************)
(* Finite instances of AnalysisScheduler.                                  *)
(***************************************************************************)
EXTENDS AnalysisScheduler, TLC

CONSTANTS a, a2, b, t1, t2

\* a and b are two files; a2 is another spelling of a.
Files == [sp \in Spellings |-> IF sp = a2 THEN a ELSE sp]

\* Storing t1 reserves 2 bytes of derived data, storing t2 reserves 4.
Sizes == [t \in Texts |-> IF t = t2 THEN 2 ELSE 1]

SymmetricIds == Permutations(Ids)

=============================================================================
