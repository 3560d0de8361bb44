------------------------------ MODULE MCAdvantage ------------------------------
(***************************************************************************)
(* Model checking of AdvantageStep: chains that share an environment, and  *)
(* chains that share an agent.                                             *)
(***************************************************************************)
EXTENDS AdvantageStep

ThreeChains == {<<0, "prof_1">>, <<0, "prof_2">>, <<1, "prof_1">>}
===============================================================================
