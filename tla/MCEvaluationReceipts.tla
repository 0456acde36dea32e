------------------------ MODULE MCEvaluationReceipts ------------------------
(* Two evals of different models with a sample each, and gates whose       *)
(* decision stands in any of the places the bridge looks at.               *)
EXTENDS EvaluationReceipts, TLC

CONSTANTS e1, e2, s1, c1, c2, m1, m2, p1, p2

MCModelOf == (e1 :> m1) @@ (e2 :> m2)
MCPointerTo == (<<e1, s1>> :> p1) @@ (<<e2, s1>> :> p2)
MCNested ==
    {[dict |-> TRUE, decision |-> Missing, alternatives |-> a] :
        a \in [1..3 -> {NotADict, "", "pass", "block"}]}
MCFlat ==
    {[dict |-> b, decision |-> d, alternatives |-> [i \in 1..3 |-> "block"]] :
        b \in BOOLEAN, d \in {Missing, "", "review"}}
MCGates == MCNested \cup MCFlat
MCSymmetry == Permutations({c1, c2})
==============================================================================
