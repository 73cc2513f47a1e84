----------------------------- MODULE MCIngestion -----------------------------
(* A small portal for TLC: two semesters, of one degree each, the first    *)
(* with two sections.                                                      *)
EXTENDS Ingestion, TLC

CONSTANTS panel, fall, spring, bscs, math, A, B, C, a1, a2, b1, c1

Tree == panel :> <<fall, spring>> @@ fall :> <<bscs>> @@ spring :> <<math>>
        @@ bscs :> <<A, B>> @@ math :> <<C>> @@ [n \in {A, B, C} |-> <<>>]
SectionOf == a1 :> A @@ a2 :> A @@ b1 :> B @@ c1 :> C
SemesterOf == [s \in {a1, a2, b1} |-> fall] @@ c1 :> spring
=============================================================================
