------------------------------ MODULE MCSession ------------------------------
(* Session with one or two model-value threads.                               *)
EXTENDS Session, TLC

Symmetry == Permutations(Threads)
===============================================================================
