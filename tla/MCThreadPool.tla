----------------------------- MODULE MCThreadPool -----------------------------
(***************************************************************************)
(* ThreadPool for TLC.  Clients are interchangeable model values and so    *)
(* are jobs: the run that checks safety alone uses their symmetry.         *)
(***************************************************************************)
EXTENDS ThreadPool, TLC

Symmetry == Permutations(Clients) \cup Permutations(Jobs)
===============================================================================
