-------------------------------- MODULE Qsort --------------------------------
(***************************************************************************)
(* qsort() of the C library, as the program uses it: an array is a         *)
(* function on some finite set of positions.                               *)
(***************************************************************************)
EXTENDS Integers, FiniteSets

\* The elements of I in the order R, the k-th being the one with k - 1 before it.
Ranked(I, R) ==
    [k \in 1 .. Cardinality(I) |->
        CHOOSE i \in I : Cardinality({j \in I : <<j, i>> \in R}) = k - 1]

\* Which position goes before which: as Cmp says of what is there.  Entries that
\* compare equal keep their order, as they do in glibc.
SortOrder(f, Cmp(_, _)) ==
    {p \in (DOMAIN f) \X (DOMAIN f) :
        \/ Cmp(f[p[1]], f[p[2]])
        \/ ~Cmp(f[p[2]], f[p[1]]) /\ p[1] < p[2]}

\* What is at the positions of f, in the order R of the positions.
Arranged(f, R) ==
    LET order == Ranked(DOMAIN f, R)
    IN [k \in 1 .. Cardinality(DOMAIN f) |-> f[order[k]]]

qsort(f, Cmp(_, _)) == Arranged(f, SortOrder(f, Cmp))
=============================================================================
