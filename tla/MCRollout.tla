------------------------------- MODULE MCRollout -------------------------------
(***************************************************************************)
(* Model checking of Rollout and Credit: workers are model values,         *)
(* interchangeable in the safety run.                                      *)
(***************************************************************************)
EXTENDS Credit, TLC

WorkerSymmetry == Permutations(Workers)
===============================================================================
