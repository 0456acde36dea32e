-------------------------- MODULE MCClaudeCodeHooks --------------------------
(* Small instances of ClaudeCodeHooks. *)
EXTENDS ClaudeCodeHooks, TLC

CONSTANTS c1, c2, shell

MCOneTool == (c1 :> shell) @@ (c2 :> shell)

\* The PreToolUse hooks run with an empty CORRLOG_KEY_PATH; the PostToolUse
\* hooks and the flags share a key file, and correct records of both kinds.
MCPathless == Before

MCOneToolSymmetry == Permutations(Flags) \cup Permutations(Calls)
==============================================================================
