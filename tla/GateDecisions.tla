---------------------------- MODULE GateDecisions ----------------------------
(***************************************************************************)
(* What corrlog_proofagent/__init__.py makes of a governance gate: the     *)
(* decision it reads from the gate's result and whether a receipt is due.  *)
(*                                                                         *)
(* A result is a dict or an object with a field "decision"; a saved report *)
(* may have the decision one level down, in one of three other entries.    *)
(***************************************************************************)
EXTENDS Naturals, Sequences, SequencesExt

Missing == "missing"        \* None, or no such field
NotADict == "not a dict"    \* an alternative entry without fields

\* What a decision field may hold; "Block " stands for other spellings of block.
Words == {"", "pass", "review", "block", "Block ", "other"}

\* Results: alternatives are verdict, pai and gate_decision, in this order.
Results ==
    [dict : BOOLEAN, decision : Words \cup {Missing},
     alternatives : [1..3 -> Words \cup {Missing, NotADict}]]

\* str(d).strip().lower().
Normal(d) == IF d = "Block " THEN "block" ELSE d

Readable(d) == d \notin {Missing, ""}

\* A variant of the next definition with a plausible bug in it.
LastAlternative(g) ==
    FoldLeft(LAMBDA d, a : IF a = NotADict THEN d ELSE a, Missing, g.alternatives)

\* The loop over the alternatives: it stops at the first that can be read.
Alternative(g) ==
    FoldLeft(LAMBDA d, a : IF Readable(d) \/ a = NotADict THEN d ELSE a,
             Missing, g.alternatives)

\* _decision: an object has no alternatives.
Decision(g) ==
    Normal(IF g.decision = Missing /\ g.dict THEN Alternative(g) ELSE g.decision)

\* gate_to_acr: None for pass, a receipt for review and block, else ValueError.
Outcome(g) ==
    LET d == Decision(g)
    IN  IF d \in {"pass", "review", "block"} THEN d ELSE "raise"

\* report_to_acr: the decision is the caller's.
ReportResult(d) ==
    [dict |-> TRUE, decision |-> d, alternatives |-> [i \in 1..3 |-> NotADict]]

\* The decision a reader finds in g: its own, else the first alternative with one.
Stated(g) ==
    IF g.decision # Missing THEN Normal(g.decision)
    ELSE LET found == {i \in 1..3 : g.dict /\ g.alternatives[i] \in Words \ {""}}
         IN  IF found = {} THEN Missing
             ELSE Normal(g.alternatives[CHOOSE i \in found : \A j \in found : i <= j])
==============================================================================
