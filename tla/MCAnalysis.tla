------------------------------ MODULE MCAnalysis ------------------------------
(***************************************************************************)
(* An instance of the analysis for TLC: two learners, one with a slow       *)
(* clock, Nova, and a teacher whose clock is slow too.                      *)
(***************************************************************************)
EXTENDS Analysis

CONSTANTS m1, m2, a1, ann, ben, c1, c2

MCAuthor == (m1 :> ann) @@ (m2 :> ben) @@ (a1 :> Agent)
MCClock == (ann :> 1) @@ (ben :> -3) @@ (Agent :> 0) @@ (Teacher :> -3)
MCSays == (m1 :> c1) @@ (m2 :> c1) @@ (a1 :> c1)
===============================================================================
