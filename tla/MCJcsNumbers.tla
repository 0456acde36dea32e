----------------------------- MODULE MCJcsNumbers -----------------------------
(* A format of 3-bit significands: integers are exact up to 8, 48 is spelled *)
(* 50, and 240 is the first integer out of range.                            *)
EXTENDS JcsNumbers

MCEMin == -4
MCSmall == -1
MCAppInts == (-20)..130 \cup 220..245 \cup {-240, -239, 1000}
==============================================================================
