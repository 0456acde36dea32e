------------------------------ MODULE JsonlSink ------------------------------
(***************************************************************************)
(* JsonlSink of corrlog_core/__init__.py: the append-only JSON Lines file  *)
(* every adapter writes its receipts to, and the contract its docstring    *)
(* states for crashed writers.                                             *)
(*                                                                         *)
(* The file is a sequence of pieces.  The line of record r is              *)
(*     Opening(r)  Closing(r)  Newline                                     *)
(* where Opening(r) is any proper prefix of the JSON text and Closing(r)   *)
(* the remainder; a JSON object cut short never parses, nor does one with  *)
(* other bytes on its line, so a line is readable exactly when it is       *)
(* Opening(r) Closing(r) alone.  Python's buffered file turns an append    *)
(* into one write(2), or two when the line does not fit the buffer behind  *)
(* the newline that closes a damaged tail; O_APPEND puts the bytes of each *)
(* write(2) at the end of the file, contiguously.                          *)
(***************************************************************************)
EXTENDS Naturals, Sequences, FiniteSets

CONSTANTS
    Writers,     \* threads or processes that append to the file
    Records,     \* the records they append
    NoRecord,    \* not a record
    IdOf,        \* the correctionId of each record
    Large,       \* records whose line is longer than the file buffer
    MaxOpen,     \* bound: writers inside append at the same time
    MaxCalls,    \* bound: calls of append
    MaxTears,    \* bound: writes cut short in the middle of a line
    MaxLosses    \* bound: losses of power

ASSUME WritersAssumption == IsFiniteSet(Writers)
ASSUME RecordsAssumption == NoRecord \notin Records /\ Large \subseteq Records
ASSUME BoundsAssumption ==
    MaxOpen \in Nat /\ MaxCalls \in Nat /\ MaxTears \in Nat /\ MaxLosses \in Nat

VARIABLES
    file,         \* the pieces in the file
    stage,        \* how far each writer is in append
    holding,      \* the record each writer is appending
    buffer,       \* the pieces each writer has buffered and not yet written
    acked,        \* positions of the lines whose append returned
    damagedLines, \* damaged_lines: what the last all() reported
    missing,      \* history: acknowledged records the last all() did not return
    calls, tears, losses,  \* counted against the bounds
    races         \* history: writes torn while another writer relied on the tail

vars == <<file, stage, holding, buffer, acked, damagedLines, missing, calls, tears, losses, races>>

-----------------------------------------------------------------------------
(* Pieces and lines.                                                       *)

Opening(r) == [part |-> "opening", record |-> r]
Closing(r) == [part |-> "closing", record |-> r]
Newline    == [part |-> "newline", record |-> NoRecord]
Pieces     == [part : {"opening", "closing", "newline"}, record : Records \cup {NoRecord}]

\* The encoded line of r.
Line(r) == <<Opening(r), Closing(r), Newline>>

\* A variant of the next definition with a plausible bug in it.
TerminatedAlways(f) == TRUE

\* The check of the last byte; it fails on an empty file, which needs no newline.
Terminated(f) == Len(f) = 0 \/ f[Len(f)] = Newline

\* What append buffers after looking at the tail of f.
Pending(f, r) == IF Terminated(f) THEN Line(r) ELSE <<Newline>> \o Line(r)

\* A line begins at position i.
StartsLine(f, i) == f[i] # Newline /\ (i = 1 \/ f[i - 1] = Newline)

\* The line at position i is one whole record and nothing else: json.loads succeeds.
ReadableAt(f, i) ==
    /\ i + 1 \in DOMAIN f
    /\ StartsLine(f, i)
    /\ f[i] = Opening(f[i].record)
    /\ f[i + 1] = Closing(f[i].record)
    /\ i + 2 \in DOMAIN f => f[i + 2] = Newline

Readable(f) == {i \in DOMAIN f : ReadableAt(f, i)}

DamagedLastOnly(f) == {i \in DOMAIN f : StartsLine(f, i) /\ i \notin Readable(f) /\ Len(f) - i < 2}

\* The lines all() skips and counts; blank lines are neither.
Damaged(f) == {i \in DOMAIN f : StartsLine(f, i) /\ i \notin Readable(f)}

GetLast(f, id) ==
    LET hits == {i \in Readable(f) : IdOf[f[i].record] = id}
    IN  IF hits = {} THEN NoRecord
        ELSE f[CHOOSE i \in hits : \A j \in hits : j <= i].record

\* get: the first readable record with that id, or None.
Get(f, id) ==
    LET hits == {i \in Readable(f) : IdOf[f[i].record] = id}
    IN  IF hits = {} THEN NoRecord
        ELSE f[CHOOSE i \in hits : \A j \in hits : i <= j].record

-----------------------------------------------------------------------------
InFlight == {w \in Writers : stage[w] # "idle"}

Init ==
    /\ file = <<>>
    /\ stage = [w \in Writers |-> "idle"]
    /\ holding = [w \in Writers |-> NoRecord]
    /\ buffer = [w \in Writers |-> <<>>]
    /\ acked = {}
    /\ damagedLines = 0 /\ missing = 0
    /\ calls = 0 /\ tears = 0 /\ losses = 0 /\ races = 0

\* append(r) is called: the line is encoded and the file opened.
Open(w, r) ==
    /\ stage[w] = "idle"
    /\ Cardinality(InFlight) < MaxOpen
    /\ calls < MaxCalls
    /\ stage' = [stage EXCEPT ![w] = "opened"]
    /\ holding' = [holding EXCEPT ![w] = r]
    /\ calls' = calls + 1
    /\ UNCHANGED <<file, buffer, acked, damagedLines, missing, tears, losses, races>>

\* seek(-1, 2) fixes the byte that is read; newline and line are buffered.
CheckTail(w) ==
    /\ stage[w] = "opened"
    /\ stage' = [stage EXCEPT ![w] = "checked"]
    /\ buffer' = [buffer EXCEPT ![w] = Pending(file, holding[w])]
    /\ UNCHANGED <<file, holding, acked, damagedLines, missing, calls, tears, losses, races>>

\* The buffer is flushed apart from the line when the line does not fit behind it.
FlushedApart(w) == holding[w] \in Large /\ Len(buffer[w]) > Len(Line(holding[w]))

\* The bytes of the next write(2).
Chunk(w) == IF FlushedApart(w) THEN <<Newline>> ELSE buffer[w]

\* The write(2) of the closing newline alone.
CloseTail(w) ==
    /\ stage[w] = "checked"
    /\ FlushedApart(w)
    /\ file' = file \o Chunk(w)
    /\ buffer' = [buffer EXCEPT ![w] = Line(holding[w])]
    /\ UNCHANGED <<stage, holding, acked, damagedLines, missing, calls, tears, losses, races>>

\* The writer is out of append, by return, exception or death.
Leave(w) ==
    /\ stage' = [stage EXCEPT ![w] = "idle"]
    /\ holding' = [holding EXCEPT ![w] = NoRecord]
    /\ buffer' = [buffer EXCEPT ![w] = <<>>]

\* The write(2) of the line; append returns.
WriteLine(w) ==
    /\ stage[w] = "checked"
    /\ ~FlushedApart(w)
    /\ file' = file \o Chunk(w)
    /\ acked' = acked \cup {Len(file') - 2}
    /\ Leave(w)
    /\ UNCHANGED <<damagedLines, missing, calls, tears, losses, races>>

\* Writers that looked at the tail and will write a line without closing it.
Relying == {w \in Writers : stage[w] = "checked" /\ buffer[w] = Line(holding[w])}

\* The process is killed, or the write fails, after n pieces of the next
\* write(2); append does not return.  It tears the file if it stops in a line.
Interrupt(w, n) ==
    /\ stage[w] # "idle"
    /\ file' = file \o SubSeq(Chunk(w), 1, n)
    /\ LET torn == n > 0 /\ Chunk(w)[n] # Newline
       IN  /\ tears' = IF torn THEN tears + 1 ELSE tears
           /\ races' = IF torn /\ Relying \ {w} # {} THEN races + 1 ELSE races
    /\ tears' <= MaxTears
    /\ Leave(w)
    /\ UNCHANGED <<acked, damagedLines, missing, calls, losses>>

\* Power is lost: there is no fsync, so the file keeps any prefix.
PowerLoss(n) ==
    /\ losses < MaxLosses
    /\ losses' = losses + 1
    /\ file' = SubSeq(file, 1, n)
    /\ acked' = {i \in acked : i + 1 <= n}
    /\ stage' = [w \in Writers |-> "idle"]
    /\ holding' = [w \in Writers |-> NoRecord]
    /\ buffer' = [w \in Writers |-> <<>>]
    /\ damagedLines' = 0 /\ missing' = 0
    /\ UNCHANGED <<calls, tears, races>>

LostAcks == acked \ Readable(file)

\* A variant of the next definition with a plausible bug in it: the count stays
\* in the local variable.
ReadAllUncounted ==
    /\ missing' = Cardinality(LostAcks)
    /\ UNCHANGED <<file, stage, holding, buffer, acked, damagedLines, calls, tears, losses, races>>

\* all(): the readable records are returned and the other lines counted.
ReadAll ==
    /\ damagedLines' = Cardinality(Damaged(file))
    /\ missing' = Cardinality(LostAcks)
    /\ UNCHANGED <<file, stage, holding, buffer, acked, calls, tears, losses, races>>

Next ==
    \/ \E w \in Writers, r \in Records : Open(w, r)
    \/ \E w \in Writers : CheckTail(w)
    \/ \E w \in Writers : CloseTail(w)
    \/ \E w \in Writers : WriteLine(w)
    \/ \E w \in Writers : \E n \in 0..Len(Chunk(w)) : Interrupt(w, n)
    \/ \E n \in 0..Len(file) : PowerLoss(n)
    \/ ReadAll

Spec == Init /\ [][Next]_vars

-----------------------------------------------------------------------------
(* Properties.                                                             *)

Buffers(r) == {Line(r), <<Newline>> \o Line(r)}

\* The shape of the state: a checked writer has a line of its record buffered,
\* any other writer nothing, and acknowledged positions are in the file.
TypeOK ==
    /\ file \in Seq(Pieces)
    /\ stage \in [Writers -> {"idle", "opened", "checked"}]
    /\ holding \in [Writers -> Records \cup {NoRecord}]
    /\ \A w \in Writers : stage[w] # "idle" => holding[w] \in Records
    /\ buffer \in [Writers -> Seq(Pieces)]
    /\ \A w \in Writers : stage[w] = "checked" => buffer[w] \in Buffers(holding[w])
    /\ \A w \in Writers : stage[w] # "checked" => buffer[w] = <<>>
    /\ \A i \in acked : i \in 1..Len(file) /\ i + 1 \in 1..Len(file)
    /\ damagedLines \in Nat /\ missing \in Nat /\ calls \in Nat
    /\ tears \in 0..MaxTears /\ losses \in 0..MaxLosses /\ races \in 0..tears

\* "A new record is never glued onto a damaged tail": a record whose append
\* returned can be read back as long as its bytes survive.
AckedReadable == \A i \in acked : ReadableAt(file, i)

\* What a race costs: each write that is torn under a writer that relied on
\* the tail makes at most one acknowledged record unreadable, whatever crashes
\* follow; without one, all of them can be read.
BlastRadius == Cardinality(LostAcks) <= races

\* Why BlastRadius is inductive.  While a writer may still put its line behind
\* a torn one, a record of the debt is outstanding.
TailGuarded == Relying # {} => Terminated(file)
SafeInv ==
    /\ TypeOK
    /\ Cardinality(LostAcks) + (IF TailGuarded THEN 0 ELSE 1) <= races

\* A line that can be read stays readable until power is lost or writers have
\* raced: no append, torn or whole, spoils a line written before it ("a damaged
\* trailing line never makes earlier history unreadable").
HistoryStable ==
    [][losses' = losses /\ races = 0 => \A i \in Readable(file) : ReadableAt(file', i)]_vars

Answered(id) == Get(file, id) # NoRecord

\* get(id) does not change its answer under the same conditions, even when
\* several records carry the id (the sink does not reject duplicates).
GetStable ==
    [][\A r \in Records :
         losses' = losses /\ races = 0 /\ Answered(IdOf[r])
         => Get(file', IdOf[r]) = Get(file, IdOf[r])]_vars

\* No acknowledged record is missing silently: what the last all() left in
\* damaged_lines is at least the number of acknowledged records it could not
\* return, each of which is on a line of its own.
LossReported == damagedLines >= missing

\* The records of the lines that begin in the first n pieces of f, for each n.
ReadTo(f) ==
    LET read[n \in 0..Len(f)] ==
          IF n = 0 THEN <<>>
          ELSE IF ReadableAt(f, n) THEN Append(read[n - 1], f[n].record)
          ELSE read[n - 1]
    IN  read

\* The records all() returns, in file order.
RecordsRead == ReadTo(file)[Len(file)]

Log == INSTANCE RecordLog WITH log <- RecordsRead

\* What readers see behaves as the log of module RecordLog: it grows at its
\* end by whole records, is cut only by a loss of power, and loses its last
\* record, and only that, where writers have raced.
ImplementsLog == Log!LogSpec
==============================================================================
