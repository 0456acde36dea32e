---------------------------- MODULE MCReplayGuard ----------------------------
(* Small instances of ReplayGuard: two contents signed under the same id,   *)
(* one under another.                                                       *)
EXTENDS ReplayGuard, TLC

CONSTANTS c1, c2, i1, i2, b1, b2

MCSigned == {<<i1, b1>>, <<i1, b2>>, <<i2, b1>>}
MCSignedOneId == {<<i1, b1>>, <<i1, b2>>}
==============================================================================
