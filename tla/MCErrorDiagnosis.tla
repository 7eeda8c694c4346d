-------------------------- MODULE MCErrorDiagnosis --------------------------
(* ErrorDiagnosis with two applications and three rankings of them.        *)
EXTENDS ErrorDiagnosis, TLC

CONSTANTS a1, a2, w1

MCApps == {a1, a2}
MCSpikes == {<<a1>>, <<a1, a2>>, <<a2, a1>>}
MCSpikeBoth == {<<a1, a2>>}
(* a1 logs an exception; no log line is found for a2. *)
MCKeywordOf == (a1 :> w1) @@ (a2 :> a2)
(* The tokens of a2 are among those of a1: a search for a2 finds a1 as well. *)
MCAlike == [w \in Words |-> IF w = a2 THEN {a1, a2} ELSE {w}]

MCSymmetry == Permutations(Runs)
=============================================================================
