------------------------ MODULE ClaudeCodeHooksProofs ------------------------
(* What holds of any number of hook and flag processes, racing and killed. *)
EXTENDS ClaudeCodeHooks, LogLemmas, FiniteSetTheorems

\* Stages before a key is there, and those after it.
Keyless == {"waiting", "started", "minting", "writing key"}
Keyed == {"recording", "reading", "opening sidecar", "writing sidecar",
          "looking up", "correcting", "done"}

Shapes ==
    /\ keyFile \in {NoFile, Empty} \cup Procs
    /\ sidecar \in {NoFile, Empty, Garbled} \cup Entries
    /\ stage \in [Procs -> Keyless \cup Keyed \cup {"failed", "killed"}]
    /\ key \in [Procs -> Procs \cup {NoKey}]
    /\ inflight \in [Procs -> Entries \cup {None}]
    /\ prior = [p \in Procs |-> prior[p]]
    /\ erring \subseteq Calls /\ crashes \in 0..MaxCrashes
    /\ \E S : sink \in Seq(S)

\* What a process knows at its stage.
Local(p) ==
    /\ stage[p] \in Keyless => key[p] = NoKey
    /\ stage[p] \in Keyed => key[p] \in Procs
    /\ stage[p] \in {"recording", "reading", "opening sidecar", "writing sidecar"}
       => p \in Before \cup After
    /\ stage[p] = "looking up" => p \in Flagging
    /\ stage[p] \in {"opening sidecar", "writing sidecar"} => inflight[p] \in Entries
    /\ stage[p] = "correcting" => \E i \in DOMAIN sink : prior[p] = sink[i]

Locals == \A p \in Procs : Local(p)

\* A step of p moves nothing of another process, and the sink keeps what it has.
OnlyMoves(p) ==
    /\ \A q \in Procs \ {p} : /\ stage'[q] = stage[q] /\ key'[q] = key[q]
                              /\ inflight'[q] = inflight[q] /\ prior'[q] = prior[q]
    /\ \A i \in DOMAIN sink : i \in DOMAIN sink' /\ sink'[i] = sink[i]

\* What has been appended to the sink.
Appended ==
    /\ \A i \in DOMAIN sink : sink[i].key \in Procs
    /\ CorrectionsRooted

HooksInv == Shapes /\ Locals /\ Appended

-----------------------------------------------------------------------------
(* The sink grows at its end.                                              *)

\* Appending a root, or a correction of a record in the sink, keeps the rest.
LEMMA AppendRooted ==
    ASSUME Shapes, Locals, Appended, NEW r, sink' = Append(sink, r), r.key \in Procs,
           r.link # NoLink => \E j \in DOMAIN sink : r.link = LinkTo(sink[j])
    PROVE  /\ \E S : sink' \in Seq(S)
           /\ Appended'
           /\ \A i \in DOMAIN sink : i \in DOMAIN sink' /\ sink'[i] = sink[i]
           /\ \E i \in DOMAIN sink' : sink'[i] = r
<1> DEFINE n == Len(sink)
<1>1. PICK S : sink \in Seq(S)
  BY DEF Shapes
<1>2. /\ sink' \in Seq(S \cup {r})
      /\ n \in Nat /\ DOMAIN sink = 1..n
      /\ DOMAIN sink' = 1..(n + 1)
      /\ \A i \in 1..n : sink'[i] = sink[i]
      /\ sink'[n + 1] = r
  BY <1>1, AppendGrows
<1> HIDE DEF n
<1>3. \A i \in DOMAIN sink' : sink'[i].key \in Procs
  BY <1>2 DEF Appended
<1>4. ASSUME NEW i \in DOMAIN sink', sink'[i].link # NoLink
      PROVE  \E j \in 1..(i - 1) : sink'[i].link = LinkTo(sink'[j])
  <2>1. CASE i \in 1..n
    <3>1. PICK j \in 1..(i - 1) : sink[i].link = LinkTo(sink[j])
      BY <1>2, <1>4, <2>1 DEF Appended, CorrectionsRooted
    <3>2. j \in 1..n
      BY <1>2, <2>1
    <3>3. QED
      BY <1>2, <2>1, <3>1, <3>2
  <2>2. CASE i = n + 1
    <3>1. PICK j \in 1..n : r.link = LinkTo(sink[j])
      BY <1>2, <1>4, <2>2
    <3>2. j \in 1..(i - 1) /\ sink'[j] = sink[j]
      BY <1>2, <2>2
    <3>3. QED
      BY <1>2, <2>2, <3>1, <3>2
  <2>3. QED
    BY <1>2, <2>1, <2>2
<1>5. Appended'
  BY <1>3, <1>4, Zenon DEF Appended, CorrectionsRooted
<1>6. \E i \in DOMAIN sink' : sink'[i] = r
  BY <1>2
<1>7. QED
  BY <1>2, <1>5, <1>6

-----------------------------------------------------------------------------
(* The invariant.                                                          *)

LEMMA HooksInit == Init => HooksInv
<1> SUFFICES ASSUME Init PROVE HooksInv
  OBVIOUS
<1>1. sink \in Seq({}) /\ DOMAIN sink = {}
  BY EmptySeq, LenProperties DEF Init
<1>2. Shapes
  BY <1>1, FilesAssumption DEF Init, Shapes, Keyless
<1>3. Locals
  BY DEF Init, Locals, Local, Keyless, Keyed
<1>4. Appended
  BY <1>1 DEF Appended, CorrectionsRooted
<1>5. QED
  BY <1>2, <1>3, <1>4 DEF HooksInv

\* Steps that leave the sink alone.
LEMMA SinkKept ==
    ASSUME Appended, UNCHANGED sink
    PROVE  Appended'
BY DEF Appended, CorrectionsRooted

LEMMA OthersKept ==
    ASSUME Locals, NEW p \in Procs, OnlyMoves(p), Local(p)'
    PROVE  Locals'
<1> SUFFICES ASSUME NEW q \in Procs, q # p PROVE Local(q)'
  BY DEF Locals
<1>1. Local(q)
  BY DEF Locals
<1>2. /\ stage'[q] = stage[q] /\ key'[q] = key[q]
      /\ inflight'[q] = inflight[q] /\ prior'[q] = prior[q]
  BY DEF OnlyMoves
<1>3. stage[q] = "correcting" => \E i \in DOMAIN sink' : prior[q] = sink'[i]
  BY <1>1 DEF Local, OnlyMoves
<1>4. QED
  BY <1>1, <1>2, <1>3 DEF Local

LEMMA StartStep ==
    ASSUME HooksInv, NEW p \in Procs, Start(p)
    PROVE  HooksInv'
<1> USE DEF HooksInv
<1>1. p \in After => p[2] \in Calls
  BY DEF After
<1>2. stage' \in [Procs -> Keyless \cup Keyed \cup {"failed", "killed"}] /\ stage'[p] = "started"
  BY DEF Start, Goto, Shapes, Keyless
<1>3. prior' = [q \in Procs |-> prior'[q]]
  BY DEF Start, Shapes
<1>4. Shapes'
  BY <1>1, <1>2, <1>3 DEF Start, Shapes, files
<1>5. Local(p)'
  BY <1>2 DEF Start, Shapes, Locals, Local, Keyless, Keyed
<1>6. OnlyMoves(p)
  BY DEF Start, Goto, Shapes, OnlyMoves, files
<1>7. QED
  BY <1>4, <1>5, <1>6, OthersKept, SinkKept DEF Start, files

LEMMA KeySteps ==
    ASSUME HooksInv, NEW p \in Procs,
           LoadKey(p) \/ MintUnsaved(p) \/ OpenKeyFile(p) \/ WriteKeyFile(p)
    PROVE  HooksInv'
<1> USE DEF HooksInv, Shapes, Goto, files, locals
<1>1. /\ First(p) \in {"recording", "reading"} => p \in Before \cup After
      /\ First(p) = "looking up" => p \in Flagging
      /\ First(p) \notin Keyless /\ First(p) \in Keyed
      /\ First(p) \notin {"opening sidecar", "writing sidecar", "correcting"}
  BY DEF First, Procs, Keyed, Keyless
<1>2. CASE LoadKey(p)
  <2>1. stage'[p] \in {"minting", "failed", First(p)}
    BY <1>2 DEF LoadKey
  <2>2. stage' \in [Procs -> Keyless \cup Keyed \cup {"failed", "killed"}]
    BY <1>1, <1>2, <2>1 DEF LoadKey, Keyless
  <2>3. key' \in [Procs -> Procs \cup {NoKey}]
    BY <1>2 DEF LoadKey
  <2>4. Shapes'
    BY <1>2, <2>2, <2>3 DEF LoadKey
  <2>5. Local(p)'
    BY <1>1, <1>2, <2>1 DEF LoadKey, Locals, Local, Keyless, Keyed
  <2>6. OnlyMoves(p)
    BY <1>2 DEF LoadKey, OnlyMoves
  <2>7. QED
    BY <1>2, <2>4, <2>5, <2>6, OthersKept, SinkKept DEF LoadKey
<1>3. CASE OpenKeyFile(p)
  <2>1. Shapes'
    BY <1>3 DEF OpenKeyFile, Keyless
  <2>2. Local(p)'
    BY <1>3 DEF OpenKeyFile, Locals, Local, Keyless, Keyed
  <2>3. OnlyMoves(p)
    BY <1>3 DEF OpenKeyFile, OnlyMoves
  <2>4. QED
    BY <1>3, <2>1, <2>2, <2>3, OthersKept, SinkKept DEF OpenKeyFile
<1>4. CASE WriteKeyFile(p)
  <2>1. Shapes'
    BY <1>1, <1>4 DEF WriteKeyFile
  <2>2. Local(p)'
    BY <1>1, <1>4 DEF WriteKeyFile, Local
  <2>3. OnlyMoves(p)
    BY <1>4 DEF WriteKeyFile, OnlyMoves
  <2>4. QED
    BY <1>4, <2>1, <2>2, <2>3, OthersKept, SinkKept DEF WriteKeyFile
<1>5. CASE MintUnsaved(p)
  <2>1. Shapes'
    BY <1>1, <1>5 DEF MintUnsaved
  <2>2. Local(p)'
    BY <1>1, <1>5 DEF MintUnsaved, Local
  <2>3. OnlyMoves(p)
    BY <1>5 DEF MintUnsaved, OnlyMoves
  <2>4. QED
    BY <1>5, <2>1, <2>2, <2>3, OthersKept, SinkKept DEF MintUnsaved
<1>6. QED
  BY <1>2, <1>3, <1>4, <1>5

\* What a hook is going to write is a whole table.
LEMMA EntriesUpdated ==
    ASSUME NEW p \in Before \cup After, NEW entries \in Entries
    PROVE  /\ [entries EXCEPT ![ToolOf[p[2]]] = Entry(p)] \in Entries
           /\ [t \in Tools |-> None] \in Entries
BY DEF Entries, Entry

LEMMA SidecarSteps ==
    ASSUME HooksInv, NEW p \in Procs, ReadSidecar(p) \/ OpenSidecar(p) \/ WriteSidecar(p)
    PROVE  HooksInv'
<1> USE DEF HooksInv, Shapes, Goto, files, locals, AfterSidecar, AfterBadSidecar
<1>1. CASE ReadSidecar(p)
  <2>1. p \in Before \cup After /\ key[p] \in Procs
    BY <1>1 DEF ReadSidecar, Locals, Local, Keyed
  <2>2. [t \in Tools |-> None] \in Entries
    BY <2>1, EntriesUpdated DEF Entries
  <2>3. \/ stage'[p] \in {"done", "recording"} /\ inflight' = inflight
        \/ /\ stage'[p] = "opening sidecar"
           /\ \E table \in Entries : inflight' = [inflight EXCEPT ![p] = table]
    <3>1. CASE sidecar \in {Empty, Garbled}
      BY <1>1, <3>1 DEF ReadSidecar
    <3>2. CASE sidecar \notin {Empty, Garbled}
      <4> DEFINE entries == IF sidecar = NoFile THEN [t \in Tools |-> None] ELSE sidecar
      <4>1. entries \in Entries
        BY <2>2, <3>2
      <4>2. [entries EXCEPT ![ToolOf[p[2]]] = Entry(p)] \in Entries
        BY <2>1, <4>1, EntriesUpdated
      <4>3. QED
        BY <1>1, <3>2, <4>2 DEF ReadSidecar
    <3>3. QED
      BY <3>1, <3>2
  <2>4. stage' = [stage EXCEPT ![p] = stage'[p]]
    BY <1>1 DEF ReadSidecar
  <2>5. stage' \in [Procs -> Keyless \cup Keyed \cup {"failed", "killed"}]
    BY <2>3, <2>4 DEF Keyed
  <2>6. inflight' \in [Procs -> Entries \cup {None}]
    BY <2>3
  <2>7. Shapes'
    BY <1>1, <2>5, <2>6 DEF ReadSidecar
  <2>8. Local(p)'
    BY <1>1, <2>1, <2>3 DEF ReadSidecar, Local, Keyless, Keyed
  <2>9. OnlyMoves(p)
    BY <1>1, <2>3, <2>4 DEF ReadSidecar, OnlyMoves
  <2>10. QED
    BY <1>1, <2>7, <2>8, <2>9, OthersKept, SinkKept DEF ReadSidecar
<1>2. CASE OpenSidecar(p)
  <2>1. Shapes'
    BY <1>2 DEF OpenSidecar, Keyed
  <2>2. Local(p)'
    BY <1>2 DEF OpenSidecar, Locals, Local, Keyless, Keyed
  <2>3. OnlyMoves(p)
    BY <1>2 DEF OpenSidecar, OnlyMoves
  <2>4. QED
    BY <1>2, <2>1, <2>2, <2>3, OthersKept, SinkKept DEF OpenSidecar
<1>3. CASE WriteSidecar(p)
  <2>1. sidecar' \in {NoFile, Empty, Garbled} \cup Entries
    BY <1>3 DEF WriteSidecar, Locals, Local
  <2>2. Shapes'
    BY <1>3, <2>1 DEF WriteSidecar, Keyed
  <2>3. Local(p)'
    BY <1>3 DEF WriteSidecar, Locals, Local, Keyless, Keyed
  <2>4. OnlyMoves(p)
    BY <1>3 DEF WriteSidecar, OnlyMoves
  <2>5. QED
    BY <1>3, <2>2, <2>3, <2>4, OthersKept, SinkKept DEF WriteSidecar
<1>4. QED
  BY <1>1, <1>2, <1>3

LEMMA AppendSteps ==
    ASSUME HooksInv, NEW p \in Procs, Record(p) \/ Correct(p)
    PROVE  HooksInv'
<1> USE DEF HooksInv, Goto
<1>1. CASE Record(p)
  <2> DEFINE r == Receipt(p)
  <2>1. r.key = key[p] /\ r.link = NoLink /\ key[p] \in Procs /\ p \in Before \cup After
    BY <1>1 DEF Record, Locals, Local, Keyed, Receipt, Sign
  <2>2. sink' = Append(sink, r) /\ prior' = [prior EXCEPT ![p] = r]
    BY <1>1, Zenon DEF Record
  <2> HIDE DEF r
  <2>3. /\ \E S : sink' \in Seq(S)
        /\ Appended'
        /\ \A i \in DOMAIN sink : i \in DOMAIN sink' /\ sink'[i] = sink[i]
        /\ \E i \in DOMAIN sink' : sink'[i] = r
    BY <2>1, <2>2, AppendRooted
  <2>4. stage' = [stage EXCEPT ![p] = AfterRecord(p)]
        /\ AfterRecord(p) \in {"reading", "correcting", "done"}
    BY <1>1 DEF Record, AfterRecord
  <2>5. stage' \in [Procs -> Keyless \cup Keyed \cup {"failed", "killed"}]
    BY <2>4 DEF Shapes, Keyed
  <2>6. prior' = [q \in Procs |-> prior'[q]]
    BY <2>2 DEF Shapes
  <2>7. Shapes'
    BY <1>1, <2>3, <2>5, <2>6 DEF Record, Shapes
  <2>8. Local(p)'
    BY <1>1, <2>1, <2>2, <2>3, <2>4 DEF Record, Shapes, Local, Keyless, Keyed
  <2>9. OnlyMoves(p)
    BY <1>1, <2>2, <2>3, <2>4 DEF Record, Shapes, OnlyMoves
  <2>10. QED
    BY <2>3, <2>7, <2>8, <2>9, OthersKept
<1>2. CASE Correct(p)
  <2> DEFINE r == Correction(p)
  <2>1. r.key = key[p] /\ r.link = LinkTo(prior[p]) /\ key[p] \in Procs
    BY <1>2 DEF Correct, Locals, Local, Keyed, Correction, Sign
  <2>2. sink' = Append(sink, r) /\ prior' = prior
    BY <1>2, Zenon DEF Correct, locals
  <2>3. \E j \in DOMAIN sink : r.link = LinkTo(sink[j])
    BY <1>2, <2>1 DEF Correct, Locals, Local
  <2> HIDE DEF r
  <2>4. /\ \E S : sink' \in Seq(S)
        /\ Appended'
        /\ \A i \in DOMAIN sink : i \in DOMAIN sink' /\ sink'[i] = sink[i]
    BY <2>1, <2>2, <2>3, AppendRooted
  <2>5. Shapes'
    BY <1>2, <2>2, <2>4 DEF Correct, Shapes, Keyed, locals
  <2>6. Local(p)'
    BY <1>2, <2>1 DEF Correct, Shapes, Local, Keyless, Keyed, locals
  <2>7. OnlyMoves(p)
    BY <1>2, <2>2, <2>4 DEF Correct, Shapes, OnlyMoves, locals
  <2>8. QED
    BY <2>4, <2>5, <2>6, <2>7, OthersKept
<1>3. QED
  BY <1>1, <1>2

LEMMA RaiseStep ==
    ASSUME HooksInv, NEW p \in Procs, Raise(p)
    PROVE  HooksInv'
<1> USE DEF HooksInv, Goto
<1>1. key[p] \in Procs
  BY DEF Raise, Locals, Local, Keyed
<1>2. /\ \E S : sink' \in Seq(S)
      /\ Appended'
      /\ \A i \in DOMAIN sink : i \in DOMAIN sink' /\ sink'[i] = sink[i]
  <2>1. CASE UNCHANGED sink
    BY <2>1, SinkKept DEF Shapes
  <2>2. CASE sink' = Append(sink, Receipt(p))
    <3> DEFINE r == Receipt(p)
    <3>1. r.key \in Procs /\ r.link = NoLink
      BY <1>1 DEF Receipt, Sign
    <3>2. sink' = Append(sink, r)
      BY <2>2
    <3> HIDE DEF r
    <3>3. QED
      BY <3>1, <3>2, AppendRooted
  <2>3. CASE stage[p] = "correcting" /\ sink' = Append(sink, Correction(p))
    <3> DEFINE r == Correction(p)
    <3>1. r.key \in Procs /\ r.link = LinkTo(prior[p])
      BY <1>1 DEF Correction, Sign
    <3>2. \E j \in DOMAIN sink : r.link = LinkTo(sink[j])
      BY <2>3, <3>1 DEF Locals, Local
    <3>3. sink' = Append(sink, r)
      BY <2>3
    <3> HIDE DEF r
    <3>4. QED
      BY <3>1, <3>2, <3>3, AppendRooted
  <2>4. QED
    BY <2>1, <2>2, <2>3 DEF Raise
<1>3. stage' = [stage EXCEPT ![p] = "failed"] /\ crashes' \in 0..MaxCrashes
      /\ UNCHANGED <<keyFile, sidecar, key, inflight, prior, erring>>
  BY FilesAssumption DEF Raise, Shapes, locals
<1>4. Shapes'
  BY <1>2, <1>3 DEF Shapes
<1>5. Local(p)'
  BY <1>3 DEF Shapes, Local, Keyless, Keyed
<1>6. OnlyMoves(p)
  BY <1>2, <1>3 DEF Shapes, OnlyMoves
<1>7. QED
  BY <1>2, <1>4, <1>5, <1>6, OthersKept

LEMMA LookUpStep ==
    ASSUME HooksInv, NEW p \in Procs, LookUp(p)
    PROVE  HooksInv'
<1> USE DEF HooksInv, Goto, files
<1>1. \/ stage' = [stage EXCEPT ![p] = "failed"] /\ prior' = prior
      \/ \E i \in DOMAIN sink : /\ prior' = [prior EXCEPT ![p] = sink[i]]
                                /\ stage' = [stage EXCEPT ![p] = "correcting"]
  BY DEF LookUp
<1>2. UNCHANGED <<files, key, inflight, erring, crashes>> /\ stage[p] = "looking up"
  BY DEF LookUp
<1>3. Shapes'
  BY <1>1, <1>2 DEF Shapes, Keyed
<1>4. Local(p)'
  BY <1>1, <1>2 DEF Shapes, Locals, Local, Keyless, Keyed
<1>5. OnlyMoves(p)
  BY <1>1, <1>2 DEF Shapes, OnlyMoves
<1>6. QED
  BY <1>2, <1>3, <1>4, <1>5, OthersKept, SinkKept

LEMMA KillStep ==
    ASSUME HooksInv, NEW p \in Procs, Kill(p)
    PROVE  HooksInv'
<1> USE DEF HooksInv, Kill, Goto, Shapes, files, locals
<1>1. crashes' \in 0..MaxCrashes
  BY FilesAssumption
<1>2. Shapes'
  BY <1>1
<1>3. Local(p)'
  BY DEF Local, Keyless, Keyed
<1>4. OnlyMoves(p)
  BY DEF OnlyMoves
<1>5. QED
  BY <1>2, <1>3, <1>4, OthersKept, SinkKept

LEMMA HooksStep == HooksInv /\ [Next]_vars => HooksInv'
<1> SUFFICES ASSUME HooksInv, [Next]_vars PROVE HooksInv'
  OBVIOUS
<1>1. CASE Next
  <2>1. PICK p \in Procs : Start(p) \/ Step(p) \/ Raise(p) \/ Kill(p)
    BY <1>1 DEF Next
  <2>2. QED
    BY <2>1, StartStep, KeySteps, SidecarSteps, AppendSteps, LookUpStep, RaiseStep,
       KillStep DEF Step
<1>2. CASE UNCHANGED vars
  BY <1>2 DEF vars, HooksInv, Shapes, Locals, Local, Appended, CorrectionsRooted
<1>3. QED
  BY <1>1, <1>2

LEMMA HooksInvariant == Spec => []HooksInv
BY HooksInit, HooksStep, PTL DEF Spec

-----------------------------------------------------------------------------
(* Receipts.                                                               *)

\* A hook has not appended its receipt yet.
Unrecorded(p) ==
    \/ stage[p] \in Keyless \cup {"recording"}
    \/ p \in After /\ stage[p] \in {"reading", "opening sidecar", "writing sidecar"}

\* A hook is past it, whatever ended it then.
Recorded(p) ==
    \/ stage[p] \in Keyed /\ ~Unrecorded(p)
    \/ stage[p] = "failed" /\ key[p] # NoKey /\ <<p, "recording">> \notin raised

Receipts ==
    \A p \in Before \cup After :
        /\ Unrecorded(p) => RecordsOf(p) = {}
        /\ RecordsOf(p) = {} \/ \E i : RecordsOf(p) = {i}
        /\ Recorded(p) => RecordsOf(p) # {}

LEMMA ReceiptsInit == Init => Receipts
<1> SUFFICES ASSUME Init PROVE Receipts
  OBVIOUS
<1>1. DOMAIN sink = {}
  BY EmptySeq, LenProperties DEF Init
<1>2. QED
  BY <1>1 DEF Init, Receipts, RecordsOf, Unrecorded, Recorded, Keyless, Keyed, Procs

\* The order of the work of the two hooks.
LEMMA HookOrder ==
    ASSUME NEW p \in Before \cup After
    PROVE  /\ p \in Procs
           /\ \/ /\ p \in Before /\ p \notin After
                 /\ First(p) = "recording" /\ AfterSidecar(p) = "done"
              \/ /\ p \in After /\ p \notin Before
                 /\ First(p) = "reading" /\ AfterSidecar(p) = "recording"
<1>1. CASE p \in Before
  BY <1>1 DEF Before, After, Procs, First, AfterSidecar
<1>2. CASE p \in After
  BY <1>2 DEF Before, After, Procs, First, AfterSidecar
<1>3. QED
  BY <1>1, <1>2

\* Steps that leave the sink alone.
LEMMA ReceiptsQuiet ==
    ASSUME HooksInv, Receipts, NEW p \in Procs, UNCHANGED sink,
           Start(p) \/ LoadKey(p) \/ MintUnsaved(p) \/ OpenKeyFile(p) \/ WriteKeyFile(p)
           \/ ReadSidecar(p) \/ OpenSidecar(p) \/ WriteSidecar(p) \/ LookUp(p) \/ Raise(p)
           \/ Kill(p)
    PROVE  Receipts'
<1> SUFFICES ASSUME NEW q \in Before \cup After
             PROVE  /\ Unrecorded(q)' => RecordsOf(q)' = {}
                    /\ RecordsOf(q)' = {} \/ \E i : RecordsOf(q)' = {i}
                    /\ Recorded(q)' => RecordsOf(q)' # {}
  BY DEF Receipts
<1>1. RecordsOf(q)' = RecordsOf(q)
  BY DEF RecordsOf
<1>2. /\ Unrecorded(q) => RecordsOf(q) = {}
      /\ RecordsOf(q) = {} \/ \E i : RecordsOf(q) = {i}
      /\ Recorded(q) => RecordsOf(q) # {}
  BY DEF Receipts
<1>3. (Unrecorded(q)' => Unrecorded(q)) /\ (Recorded(q)' => Recorded(q))
  <2> USE DEF HooksInv, Shapes, Goto, files, locals
  <2>1. CASE q # p
    <3>1. q \in Procs
      BY HookOrder
    <3>2. stage'[q] = stage[q]
      BY <2>1, <3>1 DEF Start, LoadKey, MintUnsaved, OpenKeyFile, WriteKeyFile, ReadSidecar,
                        OpenSidecar, WriteSidecar, LookUp, Raise, Kill
    <3>3. key'[q] = key[q]
      BY <2>1, <3>1 DEF Start, LoadKey, MintUnsaved, OpenKeyFile, WriteKeyFile, ReadSidecar,
                        OpenSidecar, WriteSidecar, LookUp, Raise, Kill
    <3>4. raised \subseteq raised'
      BY DEF Start, LoadKey, MintUnsaved, OpenKeyFile, WriteKeyFile, ReadSidecar,
             OpenSidecar, WriteSidecar, LookUp, Raise, Kill
    <3>5. QED
      BY <3>2, <3>3, <3>4 DEF Unrecorded, Recorded
  <2>2. CASE q = p /\ LookUp(p)
    BY <2>2 DEF LookUp, Locals, Local, Before, After, Flagging
  <2>3. CASE q = p /\ (Start(p) \/ Kill(p))
    BY <2>3 DEF Start, Kill, Unrecorded, Recorded, Keyless, Keyed
  <2>4. CASE q = p /\ LoadKey(p)
    <3>1. key[p] = NoKey /\ stage[p] = "started"
      BY <2>4 DEF LoadKey, Locals, Local, Keyless
    <3>2. \/ First(p) = "recording"
          \/ p \in After /\ First(p) = "reading"
      BY <2>4, HookOrder
    <3>3. \/ stage'[p] = "minting"
          \/ stage'[p] = "failed" /\ key'[p] = NoKey
          \/ stage'[p] = First(p)
      BY <2>4, <3>1 DEF LoadKey
    <3>4. QED
      BY <2>4, <3>1, <3>2, <3>3 DEF Unrecorded, Recorded, Keyless, Keyed
  <2>5. CASE q = p /\ (MintUnsaved(p) \/ OpenKeyFile(p) \/ WriteKeyFile(p))
    BY <2>5 DEF MintUnsaved, OpenKeyFile, WriteKeyFile, First, Unrecorded, Recorded, Keyless, Keyed
  <2>6. CASE q = p /\ (ReadSidecar(p) \/ OpenSidecar(p) \/ WriteSidecar(p))
    <3>1. stage[p] \in {"reading", "opening sidecar", "writing sidecar"}
      BY <2>6 DEF ReadSidecar, OpenSidecar, WriteSidecar
    <3>2. stage'[p] \in {"opening sidecar", "writing sidecar", AfterSidecar(p)}
      BY <2>6 DEF ReadSidecar, OpenSidecar, WriteSidecar, AfterBadSidecar
    <3>3. \/ p \in After /\ p \notin Before /\ AfterSidecar(p) = "recording"
          \/ p \in Before /\ p \notin After /\ AfterSidecar(p) = "done"
      BY <2>6, HookOrder
    <3>4. QED
      BY <2>6, <3>1, <3>2, <3>3 DEF Unrecorded, Recorded, Keyless, Keyed
  <2>7. CASE q = p /\ Raise(p)
    <3>1. /\ stage[p] \in {"recording", "correcting"} /\ stage'[p] = "failed"
          /\ <<p, stage[p]>> \in raised'
      BY <2>7 DEF Raise
    <3>2. QED
      BY <2>7, <3>1 DEF Unrecorded, Recorded, Keyless, Keyed
  <2>8. QED
    BY <2>1, <2>2, <2>3, <2>4, <2>5, <2>6, <2>7
<1>4. QED
  BY <1>1, <1>2, <1>3, Zenon

\* Appending a record adds its place to those of its id.
LEMMA PlacesGrow ==
    ASSUME Shapes, NEW r, sink' = Append(sink, r), NEW q
    PROVE  /\ r.id # ActionId(q) => RecordsOf(q)' = RecordsOf(q)
           /\ r.id = ActionId(q) => RecordsOf(q)' = RecordsOf(q) \cup {Len(sink) + 1}
<1> DEFINE n == Len(sink)
<1>1. PICK S : sink \in Seq(S)
  BY DEF Shapes
<1>2. /\ n \in Nat /\ DOMAIN sink = 1..n
      /\ DOMAIN sink' = 1..(n + 1)
      /\ \A i \in 1..n : sink'[i] = sink[i]
      /\ sink'[n + 1] = r
  BY <1>1, AppendGrows
<1> HIDE DEF n
<1>3. RecordsOf(q) = {i \in 1..n : sink[i].id = ActionId(q)}
  BY <1>2 DEF RecordsOf
<1>4. RecordsOf(q)' = {i \in 1..(n + 1) : sink'[i].id = ActionId(q)}
  BY <1>2 DEF RecordsOf, ActionId
<1>5. 1..(n + 1) = 1..n \cup {n + 1}
  BY <1>2
<1>6. r.id # ActionId(q) => RecordsOf(q)' = RecordsOf(q)
  BY <1>2, <1>3, <1>4, <1>5
<1>7. r.id = ActionId(q) => RecordsOf(q)' = RecordsOf(q) \cup {n + 1}
  BY <1>2, <1>3, <1>4, <1>5
<1>8. QED
  BY <1>6, <1>7 DEF n

\* The steps that append: a process's record or its correction, after which it
\* goes on or has failed.
AppendsReceipt(p) ==
    /\ stage[p] = "recording" /\ sink' = Append(sink, Receipt(p))
    /\ stage'[p] \in {AfterRecord(p), "failed"}
    /\ \A q \in Procs \ {p} : stage'[q] = stage[q] /\ prior'[q] = prior[q]
    /\ stage'[p] # "failed" => prior'[p] = Receipt(p)
    /\ UNCHANGED <<keyFile, key, erring>> /\ raised \subseteq raised'
AppendsCorrection(p) ==
    /\ stage[p] = "correcting" /\ sink' = Append(sink, Correction(p))
    /\ stage'[p] \in {"done", "failed"}
    /\ \A q \in Procs \ {p} : stage'[q] = stage[q] /\ prior'[q] = prior[q]
    /\ UNCHANGED <<keyFile, key, erring>> /\ raised \subseteq raised'

LEMMA AppendingSteps ==
    ASSUME HooksInv, NEW p \in Procs
    PROVE  /\ Record(p) => AppendsReceipt(p)
           /\ Correct(p) => AppendsCorrection(p)
           /\ Raise(p) => UNCHANGED sink \/ AppendsReceipt(p) \/ AppendsCorrection(p)
<1> USE DEF HooksInv, Shapes, Goto, locals
<1>1. Record(p) => AppendsReceipt(p)
  BY DEF Record, AppendsReceipt
<1>2. Correct(p) => AppendsCorrection(p)
  BY DEF Correct, AppendsCorrection
<1>3. Raise(p) => UNCHANGED sink \/ AppendsReceipt(p) \/ AppendsCorrection(p)
  BY DEF Raise, AppendsReceipt, AppendsCorrection
<1>4. QED
  BY <1>1, <1>2, <1>3

\* Every step is one that leaves the sink alone or one that appends to it.
Quiet(p) ==
    /\ UNCHANGED sink
    /\ \/ Start(p) \/ LoadKey(p) \/ MintUnsaved(p) \/ OpenKeyFile(p) \/ WriteKeyFile(p)
       \/ ReadSidecar(p) \/ OpenSidecar(p) \/ WriteSidecar(p) \/ LookUp(p) \/ Raise(p)
       \/ Kill(p)

LEMMA StepsSplit ==
    ASSUME HooksInv, Next
    PROVE  \E p \in Procs : Quiet(p) \/ AppendsReceipt(p) \/ AppendsCorrection(p)
<1>1. PICK p \in Procs : Start(p) \/ Step(p) \/ Raise(p) \/ Kill(p)
  BY DEF Next
<1>2. CASE Record(p) \/ Correct(p) \/ Raise(p)
  BY <1>2, AppendingSteps DEF Quiet
<1>3. CASE ~(Record(p) \/ Correct(p) \/ Raise(p))
  <2>1. Start(p) \/ LoadKey(p) \/ MintUnsaved(p) \/ OpenKeyFile(p) \/ WriteKeyFile(p)
        \/ ReadSidecar(p) \/ OpenSidecar(p) \/ WriteSidecar(p) \/ LookUp(p) \/ Kill(p)
    BY <1>1, <1>3 DEF Step
  <2>2. UNCHANGED sink
    BY <2>1 DEF Start, LoadKey, MintUnsaved, OpenKeyFile, WriteKeyFile, ReadSidecar, OpenSidecar,
                WriteSidecar, LookUp, Kill, files
  <2>3. QED
    BY <2>1, <2>2 DEF Quiet
<1>4. QED
  BY <1>2, <1>3

LEMMA ReceiptsAppended ==
    ASSUME HooksInv, Receipts, NEW p \in Procs, AppendsReceipt(p) \/ AppendsCorrection(p)
    PROVE  Receipts'
<1> SUFFICES ASSUME NEW q \in Before \cup After
             PROVE  /\ Unrecorded(q)' => RecordsOf(q)' = {}
                    /\ RecordsOf(q)' = {} \/ \E i : RecordsOf(q)' = {i}
                    /\ Recorded(q)' => RecordsOf(q)' # {}
  BY DEF Receipts
<1>1. /\ Unrecorded(q) => RecordsOf(q) = {}
      /\ RecordsOf(q) = {} \/ \E i : RecordsOf(q) = {i}
      /\ Recorded(q) => RecordsOf(q) # {}
  BY DEF Receipts
<1>2. q \in Procs
  BY HookOrder
<1>3. q # p => (Unrecorded(q)' <=> Unrecorded(q)) /\ (Recorded(q)' => Recorded(q))
  BY <1>2 DEF AppendsReceipt, AppendsCorrection, Unrecorded, Recorded
<1>4. CASE AppendsReceipt(p)
  <2> DEFINE r == Receipt(p)
  <2>1. r.id = ActionId(p)
    BY DEF Receipt, Sign
  <2>2. sink' = Append(sink, r)
    BY <1>4, Zenon DEF AppendsReceipt
  <2> HIDE DEF r
  <2>3. CASE q = p
    <3>1. RecordsOf(q) = {}
      BY <1>1, <1>4, <2>3 DEF AppendsReceipt, Unrecorded
    <3>2. RecordsOf(q)' = {Len(sink) + 1}
      BY <2>1, <2>2, <2>3, <3>1, PlacesGrow DEF HooksInv
    <3>3. stage'[q] \in {AfterRecord(p), "failed"}
      BY <1>4, <2>3 DEF AppendsReceipt
    <3>4. ~Unrecorded(q)'
      BY <2>3, <3>3 DEF AfterRecord, Unrecorded, Keyless, Before, After
    <3>5. QED
      BY <3>2, <3>4
  <2>4. CASE q # p
    <3>1. ActionId(q) # ActionId(p)
      BY <2>4 DEF ActionId
    <3>2. RecordsOf(q)' = RecordsOf(q)
      BY <2>1, <2>2, <3>1, PlacesGrow DEF HooksInv
    <3>3. QED
      BY <1>1, <1>3, <2>4, <3>2
  <2>5. QED
    BY <2>3, <2>4
<1>5. CASE AppendsCorrection(p)
  <2> DEFINE r == Correction(p)
  <2>1. r.id # ActionId(q)
    BY DEF Correction, Sign, ActionId
  <2>2. sink' = Append(sink, r)
    BY <1>5, Zenon DEF AppendsCorrection
  <2> HIDE DEF r
  <2>3. RecordsOf(q)' = RecordsOf(q)
    BY <2>1, <2>2, PlacesGrow DEF HooksInv
  <2>4. q = p => ~Unrecorded(q)' /\ Recorded(q)
    BY <1>5 DEF AppendsCorrection, Unrecorded, Recorded, Keyless, Keyed
  <2>5. QED
    BY <1>1, <1>3, <2>3, <2>4
<1>6. QED
  BY <1>4, <1>5

LEMMA ReceiptsStep == HooksInv /\ Receipts /\ [Next]_vars => Receipts'
<1> SUFFICES ASSUME HooksInv, Receipts, [Next]_vars PROVE Receipts'
  OBVIOUS
<1>1. CASE Next
  BY <1>1, StepsSplit, ReceiptsQuiet, ReceiptsAppended DEF Quiet
<1>2. CASE UNCHANGED vars
  BY <1>2 DEF vars, Receipts, RecordsOf, Unrecorded, Recorded
<1>3. QED
  BY <1>1, <1>2

-----------------------------------------------------------------------------
(* One key.                                                                *)

\* Unless two processes were about to create it, the one process in the middle
\* of creating the key file knows what is in it; every key in use, but those of
\* processes without a path, is that of the file.
Making(p) == stage[p] \in {"minting", "writing key"}
OneMaker ==
    /\ \A p, q \in Procs : Making(p) /\ Making(q) => p = q
    /\ \A p \in Procs : /\ stage[p] = "minting" => keyFile = NoFile
                        /\ stage[p] = "writing key" => keyFile = Empty
                        /\ stage[p] \in Keyed /\ p \notin Pathless => key[p] = keyFile
    /\ \A i \in DOMAIN sink : Maker(sink[i]) \notin Pathless => sink[i].key = keyFile
MakerInv == contended \/ OneMaker

LEMMA MakerInit == Init => MakerInv
<1> SUFFICES ASSUME Init PROVE OneMaker
  BY DEF MakerInv
<1>1. DOMAIN sink = {}
  BY EmptySeq, LenProperties DEF Init
<1>2. QED
  BY <1>1 DEF Init, OneMaker, Making, Keyed

\* While the file holds no key, no process with a path has one, and none has
\* left a record.
LEMMA NothingSigned ==
    ASSUME HooksInv, OneMaker, keyFile \notin Procs
    PROVE  /\ \A i \in DOMAIN sink : Maker(sink[i]) \in Pathless
           /\ \A p \in Procs : p \in Pathless \/ stage[p] \notin Keyed
BY DEF HooksInv, Locals, Local, Appended, OneMaker

\* The key file is looked for: the process that finds none is the only maker,
\* or there is contention.
LEMMA MakerLoad ==
    ASSUME HooksInv, OneMaker, NEW p \in Procs, LoadKey(p)
    PROVE  contended' \/ OneMaker'
<1> USE DEF HooksInv, Shapes, Goto, files
<1>1. /\ \A q \in Procs \ {p} : stage'[q] = stage[q] /\ key'[q] = key[q]
      /\ UNCHANGED <<keyFile, sink>>
  BY DEF LoadKey
<1>2. \/ stage'[p] = "minting" /\ keyFile = NoFile
      \/ stage'[p] = "failed"
      \/ stage'[p] \in Keyed /\ key'[p] = keyFile
  BY DEF LoadKey, First, Keyed
<1>3. CASE keyFile = NoFile /\ Minting # {}
  <2>1. contended' = (contended \/ (keyFile = NoFile /\ Minting # {}))
    BY DEF LoadKey
  <2>2. QED
    BY <1>3, <2>1, Zenon
<1>4. CASE ~(keyFile = NoFile /\ Minting # {})
  <2>1. keyFile = NoFile => \A q \in Procs : ~Making(q)
    BY <1>4, FilesAssumption DEF Minting, OneMaker, Making
  <2>2. \A q, r \in Procs : Making(q)' /\ Making(r)' => q = r
    BY <1>1, <1>2, <2>1 DEF OneMaker, Making, Keyed
  <2>3. \A q \in Procs : /\ stage'[q] = "minting" => keyFile = NoFile
                         /\ stage'[q] = "writing key" => keyFile = Empty
                         /\ stage'[q] \in Keyed /\ q \notin Pathless => key'[q] = keyFile
    BY <1>1, <1>2 DEF OneMaker, Keyed
  <2>4. QED
    BY <1>1, <2>2, <2>3 DEF OneMaker
<1>5. QED
  BY <1>3, <1>4

LEMMA MakerStep == HooksInv /\ MakerInv /\ [Next]_vars => MakerInv'
<1> SUFFICES ASSUME HooksInv, MakerInv, [Next]_vars PROVE contended' \/ OneMaker'
  BY DEF MakerInv
<1>0. contended => contended'
  <2>1. \/ UNCHANGED contended
        \/ \E p \in Procs : contended' = (contended \/ (keyFile = NoFile /\ Minting # {}))
    BY DEF Next, Step, Start, LoadKey, MintUnsaved, OpenKeyFile, WriteKeyFile, Record, ReadSidecar,
           OpenSidecar, WriteSidecar, LookUp, Correct, Raise, Kill, vars
  <2>2. QED
    BY <2>1, Zenon
<1> SUFFICES ASSUME OneMaker PROVE contended' \/ OneMaker'
  BY <1>0 DEF MakerInv
<1> USE DEF HooksInv, Shapes, Goto, files, locals
<1>1. ASSUME NEW p \in Procs, LoadKey(p) PROVE contended' \/ OneMaker'
  BY <1>1, MakerLoad
<1>2. ASSUME NEW p \in Procs, OpenKeyFile(p) \/ WriteKeyFile(p) PROVE OneMaker'
  <2>1. Making(p) /\ keyFile \in {NoFile, Empty}
    BY <1>2 DEF OpenKeyFile, WriteKeyFile, OneMaker, Making
  <2>2. /\ \A i \in DOMAIN sink : Maker(sink[i]) \in Pathless
        /\ \A q \in Procs : q \in Pathless \/ stage[q] \notin Keyed
    BY <2>1, NothingSigned, FilesAssumption
  <2>3. \A q \in Procs \ {p} : ~Making(q)
    BY <2>1 DEF OneMaker
  <2>4. \A q \in Procs \ {p} : stage'[q] = stage[q]
    BY <1>2 DEF OpenKeyFile, WriteKeyFile
  <2>5. /\ UNCHANGED sink
        /\ \/ stage'[p] = "writing key" /\ keyFile' = Empty
           \/ stage'[p] \in Keyed /\ key'[p] = keyFile'
    BY <1>2 DEF OpenKeyFile, WriteKeyFile, First, Keyed
  <2>6. QED
    BY <2>2, <2>3, <2>4, <2>5 DEF OneMaker, Making, Keyed
<1>3. ASSUME NEW p \in Procs, \A q \in Procs \ {p} : stage'[q] = stage[q],
             ~Making(p)', stage'[p] \in Keyed => stage[p] \in Keyed,
             UNCHANGED <<keyFile, key>>,
             \A i \in DOMAIN sink' : Maker(sink'[i]) \notin Pathless => sink'[i].key = keyFile
      PROVE  OneMaker'
  BY <1>3 DEF OneMaker, Making, Maker
<1>4. ASSUME NEW p \in Procs, MintUnsaved(p) PROVE OneMaker'
  <2>1. /\ \A q \in Procs \ {p} : stage'[q] = stage[q] /\ key'[q] = key[q]
        /\ p \in Pathless /\ UNCHANGED <<keyFile, sink>>
    BY <1>4 DEF MintUnsaved
  <2>2. ~Making(p)'
    BY <1>4 DEF MintUnsaved, Making, First
  <2>3. \A q, r \in Procs : Making(q)' /\ Making(r)' => q = r
    BY <2>1, <2>2 DEF OneMaker, Making
  <2>4. \A q \in Procs : /\ stage'[q] = "minting" => keyFile = NoFile
                         /\ stage'[q] = "writing key" => keyFile = Empty
                         /\ stage'[q] \in Keyed /\ q \notin Pathless => key'[q] = keyFile
    BY <2>1, <2>2 DEF OneMaker, Making
  <2>5. QED
    BY <2>1, <2>3, <2>4 DEF OneMaker, Maker
<1>5. ASSUME NEW p \in Procs, Quiet(p),
             ~(LoadKey(p) \/ MintUnsaved(p) \/ OpenKeyFile(p) \/ WriteKeyFile(p))
      PROVE  OneMaker'
  <2>0. \/ Start(p) \/ ReadSidecar(p) \/ OpenSidecar(p) \/ WriteSidecar(p) \/ LookUp(p)
        \/ Raise(p) \/ Kill(p)
    BY <1>5 DEF Quiet
  <2>1. UNCHANGED <<keyFile, sink, key>>
    BY <1>5, <2>0 DEF Quiet, Start, Kill, Raise, ReadSidecar, OpenSidecar, WriteSidecar, LookUp
  <2>2. \A i \in DOMAIN sink' : Maker(sink'[i]) \notin Pathless => sink'[i].key = keyFile
    BY <2>1 DEF OneMaker
  <2>3. \A q \in Procs \ {p} : stage'[q] = stage[q]
    BY <2>0 DEF Start, Kill, Raise, ReadSidecar, OpenSidecar, WriteSidecar, LookUp
  <2>4. CASE Start(p) \/ Kill(p) \/ Raise(p)
    <3>1. stage'[p] \in {"started", "killed", "failed"}
      BY <2>4 DEF Start, Kill, Active, Raise
    <3>2. QED
      BY <1>3, <2>1, <2>2, <2>3, <3>1 DEF Making, Keyed
  <2>5. CASE ReadSidecar(p) \/ OpenSidecar(p) \/ WriteSidecar(p) \/ LookUp(p)
    <3>1. ~Making(p)'
      BY <2>5 DEF Making, ReadSidecar, OpenSidecar, WriteSidecar, LookUp, AfterSidecar, AfterBadSidecar
    <3>2. stage[p] \in Keyed
      BY <2>5 DEF ReadSidecar, OpenSidecar, WriteSidecar, LookUp, Keyed
    <3>3. QED
      BY <1>3, <2>1, <2>2, <2>3, <3>1, <3>2
  <2>6. QED
    BY <2>0, <2>4, <2>5
<1>6. ASSUME NEW p \in Procs, AppendsReceipt(p) \/ AppendsCorrection(p) PROVE OneMaker'
  <2>1. PICK r : sink' = Append(sink, r) /\ r.key = key[p] /\ Maker(r) = p
    <3>1. CASE AppendsReceipt(p)
      <4> DEFINE w == Receipt(p)
      <4>1. sink' = Append(sink, w)
        BY <3>1, Zenon DEF AppendsReceipt
      <4>2. w.key = key[p] /\ Maker(w) = p
        BY DEF Receipt, Sign, Maker, ActionId
      <4>3. QED
        BY <4>1, <4>2, Zenon
    <3>2. CASE AppendsCorrection(p)
      <4> DEFINE w == Correction(p)
      <4>1. sink' = Append(sink, w)
        BY <3>2, Zenon DEF AppendsCorrection
      <4>2. w.key = key[p] /\ Maker(w) = p
        BY DEF Correction, Sign, Maker
      <4>3. QED
        BY <4>1, <4>2, Zenon
    <3>3. QED
      BY <1>6, <3>1, <3>2
  <2>2. Maker(r) \notin Pathless => r.key = keyFile
    BY <1>6, <2>1 DEF AppendsReceipt, AppendsCorrection, OneMaker, Keyed
  <2>3. \A i \in DOMAIN sink' : Maker(sink'[i]) \notin Pathless => sink'[i].key = keyFile
    <3>1. PICK S : sink \in Seq(S)
      OBVIOUS
    <3>2. /\ Len(sink) \in Nat /\ DOMAIN sink = 1..Len(sink)
          /\ DOMAIN sink' = 1..(Len(sink) + 1)
          /\ \A i \in 1..Len(sink) : sink'[i] = sink[i]
          /\ sink'[Len(sink) + 1] = r
      BY <2>1, <3>1, AppendGrows
    <3>3. \A i \in 1..Len(sink) : Maker(sink[i]) \notin Pathless => sink[i].key = keyFile
      BY <3>2 DEF OneMaker
    <3>4. \A i \in 1..(Len(sink) + 1) : i \in 1..Len(sink) \/ i = Len(sink) + 1
      BY <3>2
    <3>5. QED
      BY <2>2, <3>2, <3>3, <3>4
  <2>4. UNCHANGED <<keyFile, key>> /\ stage[p] \in Keyed
    BY <1>6 DEF AppendsReceipt, AppendsCorrection, Keyed
  <2>5. ~Making(p)' /\ \A q \in Procs \ {p} : stage'[q] = stage[q]
    BY <1>6 DEF Making, AppendsReceipt, AppendsCorrection, AfterRecord
  <2>6. QED
    BY <1>3, <2>3, <2>4, <2>5
<1>7. CASE UNCHANGED vars
  BY <1>7 DEF vars, OneMaker, Making
<1>8. CASE Next
  <2>1. PICK p \in Procs : Quiet(p) \/ AppendsReceipt(p) \/ AppendsCorrection(p)
    BY <1>8, StepsSplit
  <2>2. QED
    BY <2>1, <1>1, <1>2, <1>4, <1>5, <1>6
<1>9. QED
  BY <1>7, <1>8

-----------------------------------------------------------------------------
(* Corrections of results that say error.                                  *)

LEMMA LinkNamesId ==
    ASSUME NEW r, NEW s, LinkTo(r) = LinkTo(s)
    PROVE  r.id = s.id
<1> DEFINE pointer(x) == [receiptId |-> x.id, digest |-> Digest(x)]
<1>1. {pointer(r)} = {pointer(s)} => pointer(r) = pointer(s)
  BY Zenon
<1>2. pointer(r) = pointer(s) => r.id = s.id
  OBVIOUS
<1>3. LinkTo(r) = {pointer(r)} /\ LinkTo(s) = {pointer(s)}
  BY DEF LinkTo
<1>4. QED
  BY <1>1, <1>2, <1>3

IsCheckFailed(j) == j \in DOMAIN sink /\ sink[j].body = "check_failed"

Corrected(p) ==
    \E i \in RecordsOf(p), j \in DOMAIN sink :
        /\ sink[j].body = "check_failed" /\ sink[j].link = LinkTo(sink[i])
        /\ sink[j].key = sink[i].key

\* No record, in the sink or not, of that id is corrected.
Uncorrected(p) ==
    \A j : IsCheckFailed(j) => \A r : sink[j].link = LinkTo(r) => r.id # ActionId(p)

\* How PostToolUse comes to its correction.
Fixing(p) ==
    /\ stage[p] \notin {"done", "failed", "killed"} => Uncorrected(p)
    /\ stage[p] = "correcting"
       => p[2] \in erring /\ prior[p].id = ActionId(p) /\ prior[p].key = key[p]
    /\ stage[p] = "done" => IF p[2] \in erring THEN Corrected(p) ELSE Uncorrected(p)

FixInv == \A p \in After : Fixing(p)

LEMMA FixInit == Init => FixInv
<1> SUFFICES ASSUME Init PROVE FixInv
  OBVIOUS
<1>1. DOMAIN sink = {}
  BY EmptySeq, LenProperties DEF Init
<1>2. QED
  BY <1>1 DEF Init, FixInv, Fixing, Uncorrected, IsCheckFailed, Procs

\* What an append does to the corrections of p.
LEMMA FixAppended ==
    ASSUME Shapes, NEW r, sink' = Append(sink, r), NEW p
    PROVE  /\ Corrected(p) => Corrected(p)'
           /\ (r.body = "check_failed" => \A s : r.link = LinkTo(s) => s.id # ActionId(p))
              => (Uncorrected(p) => Uncorrected(p)')
           /\ \A i \in RecordsOf(p) :
                 r.body = "check_failed" /\ r.link = LinkTo(sink[i]) /\ r.key = sink[i].key
                 => Corrected(p)'
<1> DEFINE n == Len(sink)
<1>1. PICK S : sink \in Seq(S)
  BY DEF Shapes
<1>2. /\ n \in Nat /\ DOMAIN sink = 1..n
      /\ DOMAIN sink' = 1..(n + 1)
      /\ \A i \in 1..n : sink'[i] = sink[i]
      /\ sink'[n + 1] = r
  BY <1>1, AppendGrows
<1> HIDE DEF n
<1>3. \A i \in DOMAIN sink : i \in DOMAIN sink' /\ sink'[i] = sink[i]
  BY <1>2
<1>4. n + 1 \in DOMAIN sink' /\ \A j \in DOMAIN sink' : j \in DOMAIN sink \/ j = n + 1
  BY <1>2
<1>5. \A i \in RecordsOf(p) : i \in DOMAIN sink /\ i \in RecordsOf(p)'
  BY <1>3 DEF RecordsOf, ActionId
<1>6. Corrected(p) => Corrected(p)'
  <2> SUFFICES ASSUME Corrected(p) PROVE Corrected(p)'
    OBVIOUS
  <2>1. PICK i \in RecordsOf(p), j \in DOMAIN sink :
           /\ sink[j].body = "check_failed" /\ sink[j].link = LinkTo(sink[i])
           /\ sink[j].key = sink[i].key
    BY DEF Corrected
  <2>2. sink'[i] = sink[i] /\ sink'[j] = sink[j] /\ j \in DOMAIN sink' /\ i \in RecordsOf(p)'
    BY <1>3, <1>5
  <2>3. QED
    BY <2>1, <2>2 DEF Corrected
<1>7. ASSUME r.body = "check_failed" => \A s : r.link = LinkTo(s) => s.id # ActionId(p),
             Uncorrected(p)
      PROVE  Uncorrected(p)'
  <2>1. ASSUME NEW j \in DOMAIN sink', sink'[j].body = "check_failed",
               NEW s, sink'[j].link = LinkTo(s)
        PROVE  s.id # ActionId(p)
    <3>1. CASE j \in DOMAIN sink
      BY <1>3, <1>7, <2>1, <3>1 DEF Uncorrected, IsCheckFailed
    <3>2. CASE j = n + 1
      BY <1>2, <1>7, <2>1, <3>2
    <3>3. QED
      BY <1>4, <3>1, <3>2
  <2>2. QED
    BY <2>1 DEF Uncorrected, IsCheckFailed, ActionId
<1>8. ASSUME NEW i \in RecordsOf(p),
             r.body = "check_failed" /\ r.link = LinkTo(sink[i]) /\ r.key = sink[i].key
      PROVE  Corrected(p)'
  <2>1. sink'[i] = sink[i] /\ i \in RecordsOf(p)' /\ n + 1 \in DOMAIN sink' /\ sink'[n + 1] = r
    BY <1>2, <1>3, <1>4, <1>5
  <2>2. QED
    BY <1>8, <2>1 DEF Corrected
<1>9. QED
  BY <1>6, <1>7, <1>8

\* Whom a step leaves alone, or leaves short of its correction.
LEMMA FixingKept ==
    ASSUME NEW p \in After, Fixing(p),
           Corrected(p) => Corrected(p)', Uncorrected(p) => Uncorrected(p)',
           \/ /\ stage'[p] = stage[p] /\ prior'[p] = prior[p] /\ key'[p] = key[p]
              /\ stage[p] \in {"correcting", "done"} => (p[2] \in erring' <=> p[2] \in erring)
           \/ /\ stage[p] \notin {"done", "failed", "killed"}
              /\ stage'[p] \notin {"correcting", "done"}
    PROVE  Fixing(p)'
BY DEF Fixing, ActionId

LEMMA FixQuiet ==
    ASSUME HooksInv, FixInv, NEW p \in Procs, UNCHANGED sink,
           Start(p) \/ LoadKey(p) \/ MintUnsaved(p) \/ OpenKeyFile(p) \/ WriteKeyFile(p)
           \/ ReadSidecar(p) \/ OpenSidecar(p) \/ WriteSidecar(p) \/ LookUp(p) \/ Raise(p)
           \/ Kill(p)
    PROVE  FixInv'
<1> SUFFICES ASSUME NEW q \in After PROVE Fixing(q)'
  BY DEF FixInv
<1> USE DEF HooksInv, Shapes, Goto, files, locals
<1>1. /\ Corrected(q) => Corrected(q)'
      /\ Uncorrected(q) => Uncorrected(q)'
  BY DEF Corrected, Uncorrected, RecordsOf, ActionId, IsCheckFailed
<1>2. Fixing(q) /\ q \in Procs
  BY DEF FixInv, Procs
<1>3. CASE q # p
  <2>1. /\ stage'[q] = stage[q] /\ prior'[q] = prior[q] /\ key'[q] = key[q]
        /\ erring' = erring \/ (Start(p) /\ p \in After /\ erring' \in {erring, erring \cup {p[2]}})
    BY <1>2, <1>3 DEF Start, LoadKey, MintUnsaved, OpenKeyFile, WriteKeyFile, ReadSidecar,
                      OpenSidecar, WriteSidecar, LookUp, Raise, Kill
  <2>2. p \in After => p[2] # q[2]
    BY <1>3 DEF After
  <2>3. QED
    BY <1>1, <1>2, <2>1, <2>2, FixingKept
<1>4. CASE q = p
  <2>1. stage[p] \notin {"done", "failed", "killed"}
    <3>1. stage[p] \in Keyless \cup {"recording", "reading", "opening sidecar", "writing sidecar",
                                     "looking up", "correcting"}
          \/ Kill(p)
      BY DEF Start, LoadKey, MintUnsaved, OpenKeyFile, WriteKeyFile, ReadSidecar, OpenSidecar,
             WriteSidecar, LookUp, Raise, Keyless
    <3>2. Kill(p) => stage[p] \notin {"done", "failed", "killed"}
      BY DEF Kill, Active, Ended
    <3>3. QED
      BY <3>1, <3>2 DEF Keyless
  <2>2. stage'[p] \notin {"correcting", "done"}
    <3>1. First(p) = "reading" /\ AfterSidecar(p) = "recording" /\ p \notin Flagging
      BY <1>4, HookOrder DEF After, Before, Flagging, First, AfterSidecar
    <3>2. ~LookUp(p)
      BY <3>1 DEF LookUp, Locals, Local
    <3>3. stage'[p] \in {"started", "minting", "failed", "writing key", "opening sidecar",
                         "writing sidecar", "killed", First(p), AfterSidecar(p)}
      BY <3>2 DEF Start, LoadKey, MintUnsaved, OpenKeyFile, WriteKeyFile, ReadSidecar,
                  OpenSidecar, WriteSidecar, Raise, Kill, AfterBadSidecar
    <3>4. QED
      BY <3>1, <3>3
  <2>3. QED
    BY <1>1, <1>2, <1>4, <2>1, <2>2, FixingKept
<1>5. QED
  BY <1>3, <1>4

LEMMA FixAppends ==
    ASSUME HooksInv, FixInv, NEW p \in Procs, AppendsReceipt(p) \/ AppendsCorrection(p)
    PROVE  FixInv'
<1> SUFFICES ASSUME NEW q \in After PROVE Fixing(q)'
  BY DEF FixInv
<1>1. Fixing(q) /\ q \in Procs /\ Shapes
  BY DEF FixInv, Procs, HooksInv
<1>2. q # p => stage'[q] = stage[q] /\ prior'[q] = prior[q]
  BY <1>1 DEF AppendsReceipt, AppendsCorrection
<1>3. key' = key /\ erring' = erring
  BY DEF AppendsReceipt, AppendsCorrection
<1>4. CASE AppendsReceipt(p)
  <2> DEFINE r == Receipt(p)
  <2>1. r.body = "supersede" /\ r.id = ActionId(p) /\ r.key = key[p]
    BY DEF Receipt, Sign
  <2>2. sink' = Append(sink, r) /\ (stage'[p] # "failed" => prior'[p] = r)
    BY <1>4, Zenon DEF AppendsReceipt
  <2> HIDE DEF r
  <2>3. (Corrected(q) => Corrected(q)') /\ (Uncorrected(q) => Uncorrected(q)')
    BY <1>1, <2>1, <2>2, FixAppended
  <2>4. CASE q # p
    BY <1>1, <1>2, <1>3, <2>3, <2>4, FixingKept
  <2>5. CASE q = p
    <3>1. Uncorrected(q)'
      BY <1>1, <1>4, <2>3, <2>5 DEF AppendsReceipt, Fixing
    <3>2. \/ stage'[q] = "failed"
          \/ stage'[q] = IF q[2] \in erring THEN "correcting" ELSE "done"
      BY <1>1, <1>4, <2>5 DEF AppendsReceipt, AfterRecord, Before, After
    <3>3. stage'[q] # "failed" => prior'[q] = r
      BY <2>2, <2>5
    <3>4. QED
      BY <1>3, <2>1, <2>5, <3>1, <3>2, <3>3 DEF Fixing, ActionId
  <2>6. QED
    BY <2>4, <2>5
<1>5. CASE AppendsCorrection(p)
  <2> DEFINE r == Correction(p)
  <2>1. r.body = Trigger(p) /\ r.link = LinkTo(prior[p]) /\ r.key = key[p]
    BY DEF Correction, Sign
  <2>2. sink' = Append(sink, r) /\ stage[p] = "correcting"
    BY <1>5, Zenon DEF AppendsCorrection
  <2> HIDE DEF r
  <2>3. p \in After => prior[p].id = ActionId(p) /\ prior[p].key = key[p] /\ p[2] \in erring
    BY <2>2 DEF FixInv, Fixing
  <2>4. CASE q # p
    <3>1. ASSUME r.body = "check_failed", NEW s, r.link = LinkTo(s) PROVE s.id # ActionId(q)
      <4>1. p \in After
        BY <2>1, <3>1 DEF Trigger
      <4>2. s.id = ActionId(p)
        BY <2>1, <2>3, <3>1, <4>1, LinkNamesId
      <4>3. QED
        BY <2>4, <4>2 DEF ActionId
    <3>2. Corrected(q) => Corrected(q)'
      BY <1>1, <2>2, FixAppended
    <3>3. Uncorrected(q) => Uncorrected(q)'
      BY <1>1, <2>2, <3>1, FixAppended
    <3>4. QED
      BY <1>1, <1>2, <1>3, <2>4, <3>2, <3>3, FixingKept
  <2>5. CASE q = p
    <3>1. PICK i \in DOMAIN sink : prior[p] = sink[i]
      BY <2>2 DEF HooksInv, Locals, Local
    <3>2. i \in RecordsOf(q)
      BY <2>3, <2>5, <3>1 DEF RecordsOf
    <3>3. r.body = "check_failed" /\ r.link = LinkTo(sink[i]) /\ r.key = sink[i].key
      BY <2>1, <2>3, <2>5, <3>1 DEF Trigger
    <3>4. Corrected(q)'
      BY <1>1, <2>2, <3>2, <3>3, FixAppended
    <3>5. stage'[q] \in {"done", "failed"}
      BY <1>5, <2>5 DEF AppendsCorrection
    <3>6. QED
      BY <1>3, <2>3, <2>5, <3>4, <3>5 DEF Fixing
  <2>6. QED
    BY <2>4, <2>5
<1>6. QED
  BY <1>4, <1>5

LEMMA FixStep == HooksInv /\ FixInv /\ [Next]_vars => FixInv'
<1> SUFFICES ASSUME HooksInv, FixInv, [Next]_vars PROVE FixInv'
  OBVIOUS
<1>1. CASE Next
  BY <1>1, StepsSplit, FixQuiet, FixAppends DEF Quiet
<1>2. CASE UNCHANGED vars
  BY <1>2 DEF vars, FixInv, Fixing, Corrected, Uncorrected, IsCheckFailed, RecordsOf, ActionId
<1>3. QED
  BY <1>1, <1>2

-----------------------------------------------------------------------------
(* Histories.                                                              *)

\* The record of a process and its correction, as they are signed.
Genuine(r) ==
    \E p \in Procs :
        \/ r = Sign(ActionId(p), NoLink, "receipt", "supersede", r.key)
        \/ r = Sign(<<p, "correction">>, r.link, "receipt", Trigger(p), r.key)

Ids ==
    /\ \A i \in DOMAIN sink : Genuine(sink[i])
    /\ \A i, j \in DOMAIN sink : sink[i].id = sink[j].id => i = j
    /\ \A p \in Procs : stage[p] \notin Ended =>
         \A i \in DOMAIN sink : sink[i].id # <<p, "correction">>

LEMMA IdsInit == Init => Ids
<1> SUFFICES ASSUME Init PROVE Ids
  OBVIOUS
<1>1. DOMAIN sink = {}
  BY EmptySeq, LenProperties DEF Init
<1>2. QED
  BY <1>1 DEF Ids

\* A record with an id of its own keeps ids apart.
LEMMA IdsAppended ==
    ASSUME Shapes, Ids, NEW r, sink' = Append(sink, r), Genuine(r),
           \A i \in DOMAIN sink : sink[i].id # r.id
    PROVE  /\ \A i \in DOMAIN sink' : Genuine(sink'[i])
           /\ \A i, j \in DOMAIN sink' : sink'[i].id = sink'[j].id => i = j
           /\ \A i \in DOMAIN sink' : (i \in DOMAIN sink /\ sink'[i] = sink[i]) \/ sink'[i] = r
<1> DEFINE n == Len(sink)
<1>1. PICK S : sink \in Seq(S)
  BY DEF Shapes
<1>2. /\ n \in Nat /\ DOMAIN sink = 1..n /\ DOMAIN sink' = 1..(n + 1)
      /\ \A i \in 1..n : sink'[i] = sink[i]
      /\ sink'[n + 1] = r
  BY <1>1, AppendGrows
<1> HIDE DEF n
<1>3. \A i \in DOMAIN sink' :
        \/ i \in DOMAIN sink /\ sink'[i] = sink[i]
        \/ i = n + 1 /\ sink'[i] = r
  BY <1>2
<1>4. \A i \in DOMAIN sink' : Genuine(sink'[i])
  BY <1>3 DEF Ids
<1>5. \A i, j \in DOMAIN sink' : sink'[i].id = sink'[j].id => i = j
  BY <1>3 DEF Ids
<1>6. QED
  BY <1>3, <1>4, <1>5

LEMMA IdsStep == HooksInv /\ Receipts /\ Ids /\ [Next]_vars => Ids'
<1> SUFFICES ASSUME HooksInv, Receipts, Ids, [Next]_vars PROVE Ids'
  OBVIOUS
<1>1. CASE UNCHANGED vars
  BY <1>1 DEF vars, Ids, Genuine
<1>2. ASSUME NEW p \in Procs, Quiet(p) PROVE Ids'
  <2>1. stage[p] \notin Ended
    BY <1>2 DEF Quiet, Start, LoadKey, MintUnsaved, OpenKeyFile, WriteKeyFile, ReadSidecar,
                OpenSidecar, WriteSidecar, LookUp, Raise, Kill, Active, Ended
  <2>2. \A q \in Procs : q # p => stage'[q] = stage[q]
    BY <1>2 DEF Quiet, Start, LoadKey, MintUnsaved, OpenKeyFile, WriteKeyFile, ReadSidecar,
                OpenSidecar, WriteSidecar, LookUp, Raise, Kill, Goto, HooksInv, Shapes
  <2>3. UNCHANGED sink
    BY <1>2 DEF Quiet
  <2>4. QED
    BY <2>1, <2>2, <2>3 DEF Ids, Genuine
<1>3. ASSUME NEW p \in Procs, AppendsReceipt(p) PROVE Ids'
  <2> DEFINE r == Receipt(p)
  <2>1. r.id = ActionId(p) /\ Genuine(r)
    BY DEF Receipt, Sign, Genuine
  <2>2. sink' = Append(sink, r)
    BY <1>3, Zenon DEF AppendsReceipt
  <2> HIDE DEF r
  <2>3. RecordsOf(p) = {}
    BY <1>3 DEF AppendsReceipt, HooksInv, Locals, Local, Receipts, Unrecorded
  <2>4. \A i \in DOMAIN sink : sink[i].id # r.id
    BY <2>1, <2>3 DEF RecordsOf
  <2>5. stage[p] \notin Ended /\ \A q \in Procs : q # p => stage'[q] = stage[q]
    BY <1>3 DEF AppendsReceipt, Ended
  <2>6. \A q \in Procs : r.id # <<q, "correction">>
    BY <2>1 DEF ActionId
  <2>7. /\ \A i \in DOMAIN sink' : Genuine(sink'[i])
        /\ \A i, j \in DOMAIN sink' : sink'[i].id = sink'[j].id => i = j
        /\ \A i \in DOMAIN sink' : (i \in DOMAIN sink /\ sink'[i] = sink[i]) \/ sink'[i] = r
    BY <2>1, <2>2, <2>4, IdsAppended DEF HooksInv
  <2>8. ASSUME NEW q \in Procs, stage'[q] \notin Ended, NEW i \in DOMAIN sink'
        PROVE  sink'[i].id # <<q, "correction">>
    BY <2>5, <2>6, <2>7, <2>8 DEF Ids
  <2>9. QED
    BY <2>7, <2>8 DEF Ids, Genuine
<1>4. ASSUME NEW p \in Procs, AppendsCorrection(p) PROVE Ids'
  <2> DEFINE r == Correction(p)
  <2>1. r.id = <<p, "correction">> /\ Genuine(r)
    BY DEF Correction, Sign, Genuine
  <2>2. sink' = Append(sink, r)
    BY <1>4, Zenon DEF AppendsCorrection
  <2> HIDE DEF r
  <2>3. stage[p] = "correcting" /\ stage[p] \notin Ended
    BY <1>4 DEF AppendsCorrection, Ended
  <2>4. \A i \in DOMAIN sink : sink[i].id # r.id
    BY <2>1, <2>3 DEF Ids
  <2>5. stage'[p] \in Ended /\ \A q \in Procs : q # p => stage'[q] = stage[q]
    BY <1>4 DEF AppendsCorrection, Ended
  <2>6. \A q \in Procs : q # p => r.id # <<q, "correction">>
    BY <2>1
  <2>7. /\ \A i \in DOMAIN sink' : Genuine(sink'[i])
        /\ \A i, j \in DOMAIN sink' : sink'[i].id = sink'[j].id => i = j
        /\ \A i \in DOMAIN sink' : (i \in DOMAIN sink /\ sink'[i] = sink[i]) \/ sink'[i] = r
    BY <2>1, <2>2, <2>4, IdsAppended DEF HooksInv
  <2>8. ASSUME NEW q \in Procs, stage'[q] \notin Ended, NEW i \in DOMAIN sink'
        PROVE  sink'[i].id # <<q, "correction">>
    BY <2>3, <2>5, <2>6, <2>7, <2>8 DEF Ids
  <2>9. QED
    BY <2>7, <2>8 DEF Ids, Genuine
<1>5. CASE Next
  <2>1. PICK p \in Procs : Quiet(p) \/ AppendsReceipt(p) \/ AppendsCorrection(p)
    BY <1>5, StepsSplit
  <2>2. QED
    BY <2>1, <1>2, <1>3, <1>4
<1>6. QED
  BY <1>1, <1>5

\* The record that the one at i corrects.
Parent(i) == CHOOSE j \in DOMAIN sink : sink[i].link = LinkTo(sink[j])

LEMMA ParentBefore ==
    ASSUME HooksInv, Ids, NEW i \in DOMAIN sink, sink[i].link # NoLink
    PROVE  /\ Parent(i) \in 1..(i - 1) /\ Parent(i) \in DOMAIN sink
           /\ sink[i].link = LinkTo(sink[Parent(i)])
<1>1. PICK n \in Nat : DOMAIN sink = 1..n
  BY LenProperties DEF HooksInv, Shapes
<1>2. PICK j \in 1..(i - 1) : sink[i].link = LinkTo(sink[j])
  BY DEF HooksInv, Appended, CorrectionsRooted
<1>3. j \in DOMAIN sink
  BY <1>1, <1>2
<1>4. ASSUME NEW k \in DOMAIN sink, sink[i].link = LinkTo(sink[k]) PROVE k = j
  <2>1. sink[k].id = sink[j].id
    BY <1>2, <1>4, LinkNamesId
  <2>2. QED
    BY <1>3, <2>1 DEF Ids
<1>5. Parent(i) = j
  BY <1>2, <1>3, <1>4 DEF Parent
<1>6. QED
  BY <1>2, <1>3, <1>5

\* Branch is what its definition says: the recursion ends.
LEMMA BranchUnfolds ==
    ASSUME HooksInv, Ids, NEW S, sink \in Seq(S)
    PROVE  \A i \in DOMAIN sink :
             Branch[i] = IF sink[i].link = NoLink THEN <<sink[i]>>
                         ELSE Append(Branch[Parent(i)], sink[i])
<1> DEFINE N == Len(sink)
           up == [i \in 1..N |-> IF sink[i].link = NoLink THEN 0 ELSE Parent(i)]
           h == [i \in 1..N |-> [s \in Seq(S) |-> Append(s, sink[i])]]
           Equation(f) == f = [i \in DOMAIN sink |->
                                 IF sink[i].link = NoLink THEN <<sink[i]>>
                                 ELSE Append(f[Parent(i)], sink[i])]
<1>1. N \in Nat /\ DOMAIN sink = 1..N /\ \A i \in 1..N : sink[i] \in S
  BY LenProperties
<1>2. \A i \in 1..N : up[i] \in Nat /\ up[i] < i
  <2> TAKE i \in 1..N
  <2>1. CASE sink[i].link = NoLink
    BY <2>1
  <2>2. CASE sink[i].link # NoLink
    BY <1>1, <2>2, ParentBefore
  <2>3. QED
    BY <2>1, <2>2
<1>3. up \in [1..N -> Nat]
  BY <1>2
<1>4. h \in [1..N -> [Seq(S) -> Seq(S)]]
  <2>1. ASSUME NEW i \in 1..N, NEW s \in Seq(S) PROVE Append(s, sink[i]) \in Seq(S)
    BY <1>1, AppendProperties
  <2>2. QED
    BY <2>1
<1>5. <<>> \in Seq(S)
  BY EmptySeq
<1> DEFINE V == Seq(S)
<1>6. PICK f \in [0..N -> V] :
        f[0] = <<>> /\ \A i \in 1..N : f[i] = h[i][f[up[i]]]
  <2>1. N \in Nat /\ <<>> \in V /\ Recursion(N, V, up, h)
    BY <1>1, <1>2, <1>3, <1>4, <1>5 DEF Recursion
  <2> HIDE DEF up, h, N, V
  <2>2. \E f : Recursive(f, N, V, <<>>, up, h)
    BY <2>1, RecursionBelow
  <2>3. QED
    BY <2>2 DEF Recursive
<1> HIDE DEF up, h, N
<1> DEFINE g == [i \in DOMAIN sink |-> f[i]]
<1>7. ASSUME NEW i \in DOMAIN sink
      PROVE  /\ g[i] \in Seq(S)
             /\ g[i] = IF sink[i].link = NoLink THEN <<sink[i]>>
                       ELSE Append(g[Parent(i)], sink[i])
  <2>1. i \in 1..N /\ up[i] \in Nat /\ up[i] < i
    BY <1>1, <1>2
  <2>2. up[i] \in 0..N
    BY <1>1, <2>1
  <2>3. f[i] \in V /\ f[up[i]] \in V
    BY <2>1, <2>2
  <2>4. f[i] = Append(f[up[i]], sink[i])
    <3>1. f[i] = h[i][f[up[i]]]
      BY <1>6, <2>1
    <3>2. h[i] = [s \in V |-> Append(s, sink[i])]
      BY <2>1 DEF h
    <3> HIDE DEF V
    <3>3. QED
      BY <2>3, <3>1, <3>2
  <2>5. g[i] = f[i] /\ g[i] \in Seq(S)
    BY <2>3
  <2>6. CASE sink[i].link = NoLink
    <3>1. up[i] = 0
      BY <2>1, <2>6 DEF up
    <3>2. Append(<<>>, sink[i]) = <<sink[i]>>
      OBVIOUS
    <3> HIDE DEF g
    <3>3. QED
      BY <1>6, <2>4, <2>5, <2>6, <3>1, <3>2
  <2>7. CASE sink[i].link # NoLink
    <3>1. up[i] = Parent(i) /\ Parent(i) \in DOMAIN sink
      BY <2>1, <2>7, ParentBefore DEF up
    <3>2. g[Parent(i)] = f[up[i]]
      BY <3>1
    <3> HIDE DEF g
    <3>3. QED
      BY <2>4, <2>5, <2>7, <3>2
  <2>8. QED
    BY <2>6, <2>7
<1>8. Equation(g)
  BY <1>7
<1>9. Equation(Branch)
  <2>1. Branch = CHOOSE b : Equation(b)
    BY DEF Branch, Parent
  <2> HIDE DEF g, Equation
  <2>2. QED
    BY <1>8, <2>1
<1>10. \A i \in DOMAIN sink :
         Branch[i] = IF sink[i].link = NoLink THEN <<sink[i]>>
                     ELSE Append(Branch[Parent(i)], sink[i])
  <2> HIDE DEF g
  <2>1. QED
    BY <1>9
<1>11. QED
  BY <1>10

\* Branch[i] holds the records at the places pos, which lead from a root to i.
Leads(i, n, pos) ==
    /\ pos \in [1..n -> 1..i] /\ pos[n] = i
    /\ \A j, k \in 1..n : j < k => pos[j] < pos[k]
    /\ sink[pos[1]].link = NoLink
    /\ \A k \in 2..n : sink[pos[k]].link = LinkTo(sink[pos[k - 1]])
    /\ Branch[i] = [k \in 1..n |-> sink[pos[k]]]

LEMMA BranchLeads ==
    ASSUME HooksInv, Ids, NEW i \in DOMAIN sink
    PROVE  \E n \in Nat \ {0} : \E pos : Leads(i, n, pos)
<1> DEFINE Astray == {k \in DOMAIN sink : ~\E n \in Nat \ {0} : \E pos : Leads(k, n, pos)}
<1>1. SUFFICES ASSUME Astray # {} PROVE FALSE
  OBVIOUS
<1>2. PICK S : sink \in Seq(S)
  BY DEF HooksInv, Shapes
<1>3. PICK N \in Nat : DOMAIN sink = 1..N /\ \A k \in 1..N : sink[k] \in S
  BY <1>2, LenProperties
<1>4. Astray \in SUBSET Nat
  BY <1>3
<1>5. PICK m \in Astray : \A k \in Astray : m <= k
  BY <1>1, <1>4, LeastElement
<1>6. m \in 1..N /\ m \in DOMAIN sink /\ ~\E n \in Nat \ {0} : \E pos : Leads(m, n, pos)
  BY <1>3, <1>5
<1>7. \A k \in 1..(m - 1) : \E n \in Nat \ {0} : \E pos : Leads(k, n, pos)
  <2> SUFFICES ASSUME NEW k \in 1..(m - 1) PROVE k \notin Astray
    BY <1>3, <1>6
  <2> HIDE DEF Astray
  <2>1. QED
    BY <1>5, <1>6
<1> HIDE DEF Astray
<1>8. Branch[m] = IF sink[m].link = NoLink THEN <<sink[m]>>
                  ELSE Append(Branch[Parent(m)], sink[m])
  BY <1>2, <1>6, BranchUnfolds
<1>9. CASE sink[m].link = NoLink
  <2> DEFINE pos == [k \in 1..1 |-> m]
  <2>1. Branch[m] = [k \in 1..1 |-> sink[pos[k]]]
    BY <1>8, <1>9
  <2>2. Leads(m, 1, pos)
    BY <1>6, <1>9, <2>1 DEF Leads
  <2>3. QED
    BY <1>6, <2>2
<1>10. CASE sink[m].link # NoLink
  <2> DEFINE p == Parent(m)
  <2>1. p \in 1..(m - 1) /\ sink[m].link = LinkTo(sink[p])
    BY <1>6, <1>10, ParentBefore
  <2> HIDE DEF p
  <2>2a. PICK n \in Nat \ {0} : \E old : Leads(p, n, old)
    BY <1>7, <2>1
  <2>2. PICK old : Leads(p, n, old)
    BY <2>2a
  <2> DEFINE pos == [k \in 1..(n + 1) |-> IF k = n + 1 THEN m ELSE old[k]]
             b == [k \in 1..n |-> sink[old[k]]]
  <2>3. ASSUME NEW k \in 1..n PROVE old[k] \in 1..p /\ old[k] \in 1..N
    <3>1. old[k] \in 1..p
      BY <2>2 DEF Leads
    <3>2. QED
      BY <1>6, <2>1, <3>1
  <2>4. b \in Seq(S) /\ Len(b) = n
    <3>1. b \in [1..n -> S]
      BY <1>3, <2>3
    <3> HIDE DEF b
    <3>2. QED
      BY <3>1, LenProperties
  <2>5. Branch[m] = Append(b, sink[m])
    BY <1>8, <1>10, <2>2 DEF Leads, p
  <2>6. \A k \in 1..n : pos[k] = old[k] /\ b[k] = sink[old[k]]
    OBVIOUS
  <2>7. pos[n + 1] = m
    OBVIOUS
  <2>8. Append(b, sink[m]) = [k \in 1..(n + 1) |-> sink[pos[k]]]
    <3> HIDE DEF b, pos
    <3>1. /\ Append(b, sink[m]) \in Seq(S)
          /\ Len(Append(b, sink[m])) = n + 1
          /\ \A k \in 1..n : Append(b, sink[m])[k] = b[k]
          /\ Append(b, sink[m])[n + 1] = sink[m]
      BY <1>3, <1>6, <2>4, AppendProperties
    <3>2. \A k \in 1..(n + 1) : Append(b, sink[m])[k] = sink[pos[k]]
      BY <2>6, <2>7, <3>1
    <3>3. QED
      BY <3>1, <3>2, LenProperties
  <2>9. pos \in [1..(n + 1) -> 1..m]
    BY <1>6, <2>1, <2>3
  <2> HIDE DEF b, pos
  <2>10. ASSUME NEW j \in 1..(n + 1), NEW k \in 1..(n + 1), j < k PROVE pos[j] < pos[k]
    <3>1. j \in 1..n /\ pos[j] = old[j] /\ old[j] \in 1..p
      BY <2>3, <2>6, <2>10
    <3>2. CASE k = n + 1
      BY <1>6, <2>1, <2>7, <3>1, <3>2
    <3>3. CASE k # n + 1
      <4>1. k \in 1..n /\ pos[k] = old[k]
        BY <2>6, <3>3
      <4>2. QED
        BY <2>2, <2>10, <3>1, <4>1 DEF Leads
    <3>4. QED
      BY <3>2, <3>3
  <2>11. sink[pos[1]].link = NoLink
    BY <2>2, <2>6 DEF Leads
  <2>12. ASSUME NEW k \in 2..(n + 1) PROVE sink[pos[k]].link = LinkTo(sink[pos[k - 1]])
    <3>1. CASE k = n + 1
      <4>1. pos[k - 1] = p
        BY <2>2, <2>6, <3>1 DEF Leads
      <4>2. QED
        BY <2>1, <2>7, <3>1, <4>1
    <3>2. CASE k # n + 1
      <4>1. k \in 2..n /\ k \in 1..n /\ k - 1 \in 1..n
        BY <3>2
      <4>2. QED
        BY <2>2, <2>6, <4>1 DEF Leads
    <3>3. QED
      BY <3>1, <3>2
  <2>13. Leads(m, n + 1, pos)
    BY <2>5, <2>7, <2>8, <2>9, <2>10, <2>11, <2>12 DEF Leads
  <2>14. QED
    BY <1>6, <2>13
<1>11. QED
  BY <1>9, <1>10

\* A record as it was signed passes verify.
LEMMA GenuineVerifies ==
    ASSUME NEW r, Genuine(r)
    PROVE  Verify(r, r.key)
BY DEF Genuine, Sign, Verify, Valid, Payload

LEMMA HistoriesVerify == HooksInv /\ Ids => BranchesVerify
<1> SUFFICES ASSUME HooksInv, Ids, NEW i \in DOMAIN sink,
                    \A j \in DOMAIN Branch[i] : Branch[i][j].key = sink[i].key
             PROVE  VerifyChain(Branch[i], sink[i].key, NoCheckpoint)
  BY DEF BranchesVerify
<1> DEFINE b == Branch[i]
<1>1. PICK N \in Nat : DOMAIN sink = 1..N
  BY LenProperties DEF HooksInv, Shapes
<1>2a. PICK n \in Nat \ {0} : \E pos : Leads(i, n, pos)
  BY BranchLeads
<1>2. PICK pos : Leads(i, n, pos)
  BY <1>2a
<1>3. b = [k \in 1..n |-> sink[pos[k]]]
  BY <1>2 DEF Leads
<1>4. \A k \in 1..n : pos[k] \in DOMAIN sink
  BY <1>1, <1>2 DEF Leads
<1>5. DOMAIN b = 1..n /\ \A k \in 1..n : b[k] = sink[pos[k]]
  BY <1>3
<1>6. Len(b) = n
  BY <1>3
<1>7. b # <<>>
  BY <1>6
<1> HIDE DEF b
<1>8. \A k \in DOMAIN b : Verify(b[k], sink[i].key)
  <2> TAKE k \in DOMAIN b
  <2>1. Genuine(b[k]) /\ b[k].key = sink[i].key
    BY <1>4, <1>5 DEF Ids, b
  <2>2. QED
    BY <2>1, GenuineVerifies
<1>9. DistinctIds(b)
  <2> SUFFICES ASSUME NEW j \in 1..n, NEW k \in 1..n, b[j].id = b[k].id PROVE j = k
    BY <1>5 DEF DistinctIds
  <2>1. pos[j] = pos[k]
    BY <1>4, <1>5 DEF Ids
  <2>2. ~(pos[j] < pos[k]) /\ ~(pos[k] < pos[j])
    BY <1>1, <1>4, <2>1
  <2>3. QED
    BY <1>2, <2>2 DEF Leads
<1>10. Linked(b)
  <2>1. b[1].link = NoLink
    BY <1>2, <1>5 DEF Leads
  <2>2. ASSUME NEW k \in 2..n PROVE b[k].link = LinkTo(b[k - 1])
    <3>1. k \in 1..n /\ k - 1 \in 1..n
      OBVIOUS
    <3>2. QED
      BY <1>2, <1>5, <3>1 DEF Leads
  <2>3. QED
    BY <1>6, <2>1, <2>2 DEF Linked
<1>11. QED
  BY <1>7, <1>8, <1>9, <1>10 DEF VerifyChain, NoCheckpoint, b

-----------------------------------------------------------------------------
(* Theorems.                                                               *)

\* The types of the files and of what processes hold, at each stage.
THEOREM HooksTypeCorrect == Spec => []TypeOK
<1>1. HooksInv => TypeOK
  BY DEF HooksInv, Shapes, Locals, Local, Appended, TypeOK, Keyed
<1>2. QED
  BY <1>1, HooksInvariant, PTL

\* Every correction in the sink stands behind the record it corrects, however
\* many hooks and flags race (main appends the receipt before its correction,
\* and looks a flagged record up in the sink).
THEOREM HooksCorrectionsRooted == Spec => []CorrectionsRooted
<1>1. HooksInv => CorrectionsRooted
  BY DEF HooksInv, Appended
<1>2. QED
  BY <1>1, HooksInvariant, PTL

\* All records of processes that have a path to a key file are signed with one
\* key, whichever process is killed or raises, in the creation of the key file
\* or later, and whatever keys processes with an empty path make, unless two
\* processes found no key file and were both about to create it.
THEOREM HooksOneKey == Spec => []OneKey
<1>1. MakerInv => OneKey
  <2>1. OneMaker => \A i, j \in DOMAIN sink :
                       Maker(sink[i]) \notin Pathless /\ Maker(sink[j]) \notin Pathless
                       => sink[i].key = sink[j].key
    BY DEF OneMaker
  <2>2. QED
    BY <2>1 DEF MakerInv, OneKey
<1>2. QED
  BY <1>1, HooksInvariant, MakerInit, MakerStep, PTL DEF Spec

\* A hook that got its key has left exactly one receipt when it ends, whatever
\* became of the sidecar under it (main swallows what the sidecar raises), unless
\* it was killed or its own record() or append raised; and no hook leaves two.
THEOREM HooksReceiptLeft == Spec => []ReceiptLeft
<1>1. HooksInv /\ Receipts => ReceiptLeft
  <2> SUFFICES ASSUME Receipts, NEW p \in Before \cup After
               PROVE  /\ Cardinality(RecordsOf(p)) <= 1
                      /\ key[p] # NoKey /\ stage[p] \in {"done", "failed"}
                         /\ <<p, "recording">> \notin raised
                         => Cardinality(RecordsOf(p)) = 1
    BY DEF ReceiptLeft
  <2>1. CASE RecordsOf(p) = {}
    <3>1. Cardinality(RecordsOf(p)) = 0
      BY <2>1, FS_EmptySet
    <3>2. ~Recorded(p)
      BY <2>1 DEF Receipts
    <3>3. stage[p] = "done" => Recorded(p)
      BY DEF Recorded, Unrecorded, Keyless, Keyed
    <3>4. ~(key[p] # NoKey /\ stage[p] \in {"done", "failed"} /\ <<p, "recording">> \notin raised)
      BY <3>2, <3>3 DEF Recorded
    <3>5. QED
      BY <3>1, <3>4
  <2>2. CASE RecordsOf(p) # {}
    <3>1. PICK i : RecordsOf(p) = {i}
      BY <2>2 DEF Receipts
    <3>2. QED
      BY <3>1, FS_Singleton
  <2>3. QED
    BY <2>1, <2>2
<1>2. QED
  BY <1>1, HooksInvariant, ReceiptsInit, ReceiptsStep, PTL DEF Spec

\* PostToolUse that ran to its end has corrected its own receipt exactly if the
\* result said error, whatever other hooks, flags and corrections came between.
THEOREM HooksErrorsCorrected == Spec => []ErrorsCorrected
<1>1. HooksInv /\ FixInv => ErrorsCorrected
  <2> SUFFICES ASSUME FixInv, NEW p \in After, stage[p] = "done"
               PROVE  p[2] \in erring <=> Corrected(p)
    BY DEF ErrorsCorrected, Corrected
  <2>1. Uncorrected(p) => ~Corrected(p)
    BY DEF Uncorrected, Corrected, IsCheckFailed, RecordsOf
  <2>2. QED
    BY <2>1 DEF FixInv, Fixing
<1>2. QED
  BY <1>1, HooksInvariant, FixInit, FixStep, PTL DEF Spec

\* verify_chain accepts the history of every record in the sink that is signed
\* with one key, however many hooks raced, repeated a flag or were killed.
THEOREM HooksBranchesVerify == Spec => []BranchesVerify
BY HooksInvariant, ReceiptsInit, ReceiptsStep, IdsInit, IdsStep, HistoriesVerify, PTL DEF Spec

\* Once the key file has been written and no process is about to create it, no
\* process ever creates or changes it again (_load_or_create_key).
THEOREM HooksKeyStays == Spec => KeyStays
<1> DEFINE A == KeySettled => KeySettled' /\ keyFile' = keyFile
                              /\ \A p \in Procs \ Pathless :
                                   key[p] # key'[p] => key'[p] = keyFile
<1>1. HooksInv /\ [Next]_vars => A
  <2> SUFFICES ASSUME HooksInv, [Next]_vars, KeySettled PROVE A
    OBVIOUS
  <2> USE DEF HooksInv, Shapes, KeySettled, Goto, files, locals
  <2>1. ASSUME NEW p \in Procs, Start(p) \/ Kill(p) \/ LookUp(p) PROVE A
    BY <2>1 DEF Start, Kill, LookUp
  <2>2. ASSUME NEW p \in Procs, LoadKey(p) \/ MintUnsaved(p) PROVE A
    BY <2>2, FilesAssumption DEF LoadKey, MintUnsaved, First
  <2>3. ASSUME NEW p \in Procs, OpenKeyFile(p) \/ WriteKeyFile(p) PROVE A
    BY <2>3 DEF OpenKeyFile, WriteKeyFile
  <2>4. ASSUME NEW p \in Procs, ReadSidecar(p) \/ OpenSidecar(p) \/ WriteSidecar(p) PROVE A
    BY <2>4 DEF ReadSidecar, OpenSidecar, WriteSidecar, AfterSidecar, AfterBadSidecar
  <2>5. ASSUME NEW p \in Procs, Record(p) \/ Correct(p) \/ Raise(p) PROVE A
    BY <2>5 DEF Record, Correct, Raise, AfterRecord
  <2>6. CASE UNCHANGED vars
    BY <2>6 DEF vars
  <2>7. QED
    BY <2>1, <2>2, <2>3, <2>4, <2>5, <2>6 DEF Next, Step
<1>2. QED
  BY <1>1, HooksInvariant, PTL DEF Spec, KeyStays
==============================================================================
