------------------------------ MODULE RecordLog ------------------------------
(***************************************************************************)
(* What a sink of correction records promises its readers: a sequence of   *)
(* records that only grows at its end, except that losing power may cut    *)
(* off a suffix, and that writers which raced may spoil the last record.   *)
(* A record that can be read keeps its place in the order of every later   *)
(* answer; nothing is ever inserted before it.  JsonlSink refines this.    *)
(***************************************************************************)
EXTENDS Naturals, Sequences

CONSTANT Records        \* the records that may be appended

VARIABLES log,          \* the records all() returns, in file order
          losses,       \* how often the machine has lost power
          races         \* how often a write was torn under another writer

logVars == <<log, losses, races>>

LogInit == log = <<>> /\ losses = 0 /\ races = 0

\* A record becomes readable, behind every record already readable.
Extend(r) ==
    /\ log' = Append(log, r)
    /\ races' \in {races, races + 1}
    /\ UNCHANGED losses

\* A write is torn under another writer.
Race ==
    /\ races' = races + 1
    /\ UNCHANGED <<log, losses>>

\* The last record is spoiled by a writer that raced.
Spoil ==
    /\ races > 0 /\ log # <<>>
    /\ log' = SubSeq(log, 1, Len(log) - 1)
    /\ races' \in {races, races + 1}
    /\ UNCHANGED losses

\* Power is lost: the log comes back as one of its prefixes, behind which a
\* spoiled record may reappear when the cut takes away what spoiled it.
Lose ==
    /\ \E n \in 0..Len(log) :
         \/ log' = SubSeq(log, 1, n)
         \/ races > 0 /\ \E r \in Records : log' = Append(SubSeq(log, 1, n), r)
    /\ losses' = losses + 1
    /\ UNCHANGED races

LogNext == Race \/ Spoil \/ Lose \/ \E r \in Records : Extend(r)

LogSpec == LogInit /\ [][LogNext]_logVars
==============================================================================
