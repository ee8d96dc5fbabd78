------------------------------ MODULE MCWorker ------------------------------
(***************************************************************************)
(* Worker for TLC.                                                         *)
(***************************************************************************)
EXTENDS Worker

Symmetry == Permutations(Ctx) \cup Permutations(Fd)

\* Symmetry reduction is unsound for liveness.  There, names are taken in a
\* fixed order instead: the kernel does give the lowest free descriptor, and
\* contexts differ in nothing but their address.
First(S) == CHOOSE x \in S : TRUE
InOrder == /\ \A f \in opened' \ opened : f = First(Fd \ opened)
           /\ \A c \in allocated' \ allocated : c = First(Ctx \ allocated)

LiveSpec == WorkerInit /\ [][Next /\ InOrder]_vars /\ Fairness
=============================================================================
