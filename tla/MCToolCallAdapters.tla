------------------------- MODULE MCToolCallAdapters -------------------------
(* Small instances of ToolCallAdapters. *)
EXTENDS ToolCallAdapters, TLC

CONSTANTS c1, c2

MCWrappers == (c1 :> "langchain") @@ (c2 :> "autogen")
MCCrew == (c1 :> "crewai") @@ (c2 :> "crewai")
MCAppSymmetry == Permutations(Apps)
MCCrewSymmetry == Permutations(Apps) \cup Permutations(Calls)
==============================================================================
