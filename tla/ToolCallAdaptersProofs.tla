----------------------- MODULE ToolCallAdaptersProofs -----------------------
(* What holds of any number of tool calls and calls of the application. *)
EXTENDS ToolCallAdapters, FiniteSetTheorems, LogLemmas

LEMMA ActionParts ==
    ASSUME NEW c
    PROVE  Action(c).key = Key /\ Action(c).link = NoLink /\ Action(c).id = ActionId(c)
BY DEF Action, Sign

LEMMA CorrectionParts ==
    ASSUME NEW p, NEW r, NEW t
    PROVE  Correction(p, r, t).key = Key /\ Correction(p, r, t).link = LinkTo(r)
BY DEF Correction, Sign

Shapes ==
    /\ TypeOK
    /\ pending = [p \in Procs |-> pending[p]]
    /\ inflight = [c \in CrewCalls |-> inflight[c]]
    /\ \E S : records \in Seq(S)

\* What a record is known to be whose pointer is about to go to the sink.
Backed(r) == r.link # NoLink => \E i \in DOMAIN records : r.link = LinkTo(records[i])

\* What has been recorded when a tool runs, or when its context has the id.
Local(p) ==
    /\ stage[p] \in {"appending", "storing"} => \A r \in pending[p] : Backed(r)
    /\ p \in Calls /\ stage[p] = "running" => Recorded(p) \/ (p \in CrewCalls /\ p \in raised)
    /\ p \in Calls \ CrewCalls /\ stage[p] \in {"running", "ran"}
       => pending[p] = {Action(p)} /\ Recorded(p)
    /\ p \in stashed => Recorded(p)

AdapterInv ==
    /\ Shapes
    /\ \A p \in Procs : Local(p)
    /\ CorrectionsRooted
    /\ ToolsRecorded

LEMMA AdapterInit == Init => AdapterInv
<1> SUFFICES ASSUME Init PROVE AdapterInv
  OBVIOUS
<1>1. records \in Seq({}) /\ DOMAIN records = {}
  BY EmptySeq, LenProperties DEF Init
<1>2. TypeOK
  BY ConstantsAssumption DEF Init, TypeOK
<1>3. Shapes
  BY <1>1, <1>2 DEF Init, Shapes
<1>4. \A p \in Procs : Local(p)
  BY DEF Init, Local
<1>5. CorrectionsRooted /\ ToolsRecorded
  BY <1>1 DEF Init, CorrectionsRooted, ToolsRecorded
<1>6. QED
  BY <1>3, <1>4, <1>5 DEF AdapterInv

\* While the sink keeps what it has, so do all whom a step leaves alone.
LEMMA OthersKept ==
    ASSUME AdapterInv, NEW p \in Procs,
           \A q \in Procs \ {p} : /\ stage'[q] = stage[q] /\ pending'[q] = pending[q]
                                  /\ (q \in stashed' <=> q \in stashed)
                                  /\ (q \in raised => q \in raised'),
           \A i \in DOMAIN records : i \in DOMAIN records' /\ records'[i] = records[i],
           Local(p)'
    PROVE  \A q \in Procs : Local(q)'
<1> SUFFICES ASSUME NEW q \in Procs, q # p PROVE Local(q)'
  OBVIOUS
<1>1. Local(q)
  BY DEF AdapterInv
<1>2. \A r \in pending[q] : Backed(r) => Backed(r)'
  BY DEF Backed
<1>3. Recorded(q) => Recorded(q)'
  BY DEF Recorded, Action, ActionId
<1>4. /\ stage'[q] = stage[q] /\ pending'[q] = pending[q]
      /\ (q \in stashed' <=> q \in stashed) /\ (q \in raised => q \in raised')
  OBVIOUS
<1>5. QED
  BY <1>1, <1>2, <1>3, <1>4 DEF Local

\* Steps of p that leave the sink and what the tools did alone.
LEMMA QuietStep ==
    ASSUME AdapterInv, NEW p \in Procs, UNCHANGED <<records, outcome>>, raised \subseteq raised',
           \A q \in Procs \ {p} : /\ stage'[q] = stage[q] /\ pending'[q] = pending[q]
                                  /\ (q \in stashed' <=> q \in stashed),
           Shapes', Local(p)'
    PROVE  AdapterInv'
<1>1. \A q \in Procs : Local(q)'
  BY OthersKept
<1>2. CorrectionsRooted'
  BY DEF AdapterInv, CorrectionsRooted
<1>3. \A c \in Calls : Recorded(c)' = Recorded(c)
  BY DEF Recorded
<1>4. ToolsRecorded'
  BY <1>3 DEF AdapterInv, ToolsRecorded
<1>5. QED
  BY <1>1, <1>2, <1>4 DEF AdapterInv

\* Something is signed and going to be appended, nothing else happens.
LEMMA SigningStep ==
    ASSUME AdapterInv, NEW p \in Procs, NEW r, r.key = Key, Backed(r),
           stage' = [stage EXCEPT ![p] = "appending"],
           pending' = [pending EXCEPT ![p] = {r}],
           UNCHANGED <<records, stashed, outcome, raised, faults>>,
           inflight' = [c \in CrewCalls |-> inflight'[c]],
           \A c \in CrewCalls : inflight'[c] \subseteq {Action(c)}
    PROVE  AdapterInv'
<1> USE DEF AdapterInv, Shapes
<1>1. /\ \A q \in Procs \ {p} : stage'[q] = stage[q] /\ pending'[q] = pending[q]
      /\ stage'[p] = "appending" /\ pending'[p] = {r}
  BY DEF TypeOK
<1>2. TypeOK'
  <2>1. stage' \in [Procs -> {"idle", "appending", "storing", "running", "ran", "over"}]
    BY DEF TypeOK
  <2>2. \A q \in Procs : stage'[q] # "idle" => \E s \in pending'[q] : pending'[q] = {s} /\ s.key = Key
    BY <1>1 DEF TypeOK
  <2>3. QED
    BY <2>1, <2>2 DEF TypeOK
<1>3. pending' = [q \in Procs |-> pending'[q]]
  OBVIOUS
<1>4. Shapes'
  BY <1>2, <1>3
<1>5. Backed(r)'
  BY DEF Backed
<1>6. Local(p)
  OBVIOUS
<1>7. Recorded(p)' = Recorded(p)
  BY DEF Recorded
<1>8. Local(p)'
  BY <1>1, <1>5, <1>6, <1>7 DEF Local
<1>9. QED
  BY <1>1, <1>4, <1>8, QuietStep

LEMMA BeginStep ==
    ASSUME AdapterInv, NEW c \in Calls, Begin(c)
    PROVE  AdapterInv'
<1> DEFINE r == Action(c)
<1>1. r.key = Key /\ r.link = NoLink
  BY ActionParts
<1>2. /\ stage' = [stage EXCEPT ![c] = "appending"]
      /\ pending' = [pending EXCEPT ![c] = {r}]
      /\ UNCHANGED <<records, stashed, outcome, raised, faults>>
  BY DEF Begin, Goto
<1>3. inflight' = [d \in CrewCalls |-> inflight'[d]]
  BY DEF Begin, AdapterInv, Shapes
<1>4. \A d \in CrewCalls : inflight'[d] \subseteq {Action(d)}
  BY DEF Begin, AdapterInv, Shapes, TypeOK
<1>5. c \in Procs
  BY DEF Procs
<1> HIDE DEF r
<1>6. Backed(r)
  BY <1>1 DEF Backed
<1>7. QED
  BY <1>1, <1>2, <1>3, <1>4, <1>5, <1>6, SigningStep

LEMMA AppSteps ==
    ASSUME AdapterInv, NEW a \in Apps, Submit(a) \/ MarkWrong(a)
    PROVE  AdapterInv'
<1>1. a \in Procs
  BY DEF Procs
<1>2. /\ inflight' = [d \in CrewCalls |-> inflight'[d]]
      /\ \A d \in CrewCalls : inflight'[d] \subseteq {Action(d)}
      /\ stage' = [stage EXCEPT ![a] = "appending"]
      /\ UNCHANGED <<records, stashed, outcome, raised, faults>>
  BY DEF Submit, MarkWrong, Goto, AdapterInv, Shapes, TypeOK
<1>3. PICK r : r.key = Key /\ Backed(r) /\ pending' = [pending EXCEPT ![a] = {r}]
  <2>1. CASE Submit(a)
    <3>1. AppRecord.key = Key /\ Backed(AppRecord)
      BY ActionParts DEF AppRecord, Backed
    <3>2. QED
      BY <2>1, <3>1 DEF Submit
  <2>2. CASE MarkWrong(a)
    <3>1. PICK i \in DOMAIN records :
            pending' = [pending EXCEPT ![a] = {Correction(a, records[i], "human_flagged")}]
      BY <2>2 DEF MarkWrong
    <3> DEFINE r == Correction(a, records[i], "human_flagged")
    <3>2. r.key = Key /\ r.link = LinkTo(records[i])
      BY CorrectionParts
    <3>3. pending' = [pending EXCEPT ![a] = {r}]
      BY <3>1
    <3> HIDE DEF r
    <3>4. QED
      BY <3>2, <3>3 DEF Backed
  <2>3. QED
    BY <2>1, <2>2
<1>4. QED
  BY <1>1, <1>2, <1>3, SigningStep

LEMMA AfterToolStep ==
    ASSUME AdapterInv, NEW c \in Calls, AfterTool(c)
    PROVE  AdapterInv'
<1> USE DEF AdapterInv, Shapes
<1>1. c \in Procs
  BY DEF Procs
<1>2. /\ inflight' = [d \in CrewCalls |-> inflight'[d]]
      /\ \A d \in CrewCalls : inflight'[d] \subseteq {Action(d)}
      /\ UNCHANGED <<records, stashed, outcome, raised, faults>>
  BY DEF AfterTool, TypeOK
<1>3. ASSUME NEW r \in Prior(c),
             pending' = [pending EXCEPT ![c] = {Correction(c, r, "check_failed")}],
             Goto(c, "appending")
      PROVE  AdapterInv'
  <2> DEFINE w == Correction(c, r, "check_failed")
  <2>1. w.key = Key /\ w.link = LinkTo(r)
    BY CorrectionParts
  <2>2. r = Action(c) /\ Recorded(c)
    <3>1. CASE c \in CrewCalls
      BY <1>1, <1>3, <3>1 DEF Prior, TypeOK, Local
    <3>2. CASE c \notin CrewCalls
      BY <1>1, <1>3, <3>2 DEF Prior, Local, AfterTool
    <3>3. QED
      BY <3>1, <3>2
  <2>3. pending' = [pending EXCEPT ![c] = {w}]
    BY <1>3
  <2> HIDE DEF w
  <2>4. Backed(w)
    BY <2>1, <2>2 DEF Backed, Recorded
  <2>5. QED
    BY <1>1, <1>2, <1>3, <2>1, <2>3, <2>4, SigningStep DEF Goto
<1>4. CASE Goto(c, "over") /\ UNCHANGED pending
  <2>1. TypeOK'
    BY <1>1, <1>2, <1>4 DEF Goto, TypeOK, AfterTool
  <2>2. Shapes'
    BY <1>2, <1>4, <2>1
  <2>3. Recorded(c)' = Recorded(c)
    BY <1>2 DEF Recorded
  <2>4. Local(c)'
    BY <1>1, <1>2, <1>4, <2>3 DEF Goto, TypeOK, Local
  <2>5. QED
    BY <1>1, <1>2, <1>4, <2>2, <2>4, QuietStep DEF Goto
<1>5. QED
  BY <1>3, <1>4 DEF AfterTool

LEMMA SkipAfterStep ==
    ASSUME AdapterInv, NEW c \in Calls, SkipAfter(c)
    PROVE  AdapterInv'
<1> USE DEF AdapterInv, Shapes, SkipAfter, Goto
<1>1. c \in Procs
  BY DEF Procs
<1>2. TypeOK'
  BY <1>1 DEF TypeOK
<1>3. Shapes'
  BY <1>2
<1>4. Recorded(c)' = Recorded(c)
  BY DEF Recorded
<1>5. Local(c)'
  BY <1>1, <1>4 DEF TypeOK, Local
<1>6. QED
  BY <1>1, <1>3, <1>5, QuietStep

LEMMA RunToolStep ==
    ASSUME AdapterInv, NEW c \in Calls, RunTool(c)
    PROVE  AdapterInv'
<1> USE DEF AdapterInv, Shapes, RunTool, Goto
<1>1. c \in Procs
  BY DEF Procs
<1>2. TypeOK'
  BY <1>1 DEF TypeOK
<1>3. Shapes'
  BY <1>2
<1>4. \A d : Recorded(d)' = Recorded(d)
  BY DEF Recorded, Action, ActionId
<1>5. Local(c)'
  BY <1>1, <1>4 DEF TypeOK, Local
<1>6. \A q \in Procs : Local(q)'
  BY <1>1, <1>5, OthersKept
<1>7. CorrectionsRooted'
  BY DEF CorrectionsRooted
<1>8. Recorded(c) \/ (c \in CrewCalls /\ c \in raised)
  BY <1>1 DEF Local
<1>9. ToolsRecorded'
  BY <1>4, <1>8 DEF ToolsRecorded, TypeOK
<1>10. QED
  BY <1>3, <1>6, <1>7, <1>9

LEMMA RaiseStep ==
    ASSUME AdapterInv, NEW p \in Procs, stage[p] = "appending", RaiseFrom(p),
           faults' \in 0..MaxFaults
    PROVE  AdapterInv'
<1> USE DEF AdapterInv, Shapes, RaiseFrom, Goto
<1>1. \/ stage' = [stage EXCEPT ![p] = "over"]
      \/ stage' = [stage EXCEPT ![p] = "running"] /\ p \in CrewCalls
  OBVIOUS
<1>2. TypeOK'
  BY <1>1 DEF TypeOK
<1>3. Shapes'
  BY <1>2
<1>4. Recorded(p)' = Recorded(p)
  BY DEF Recorded
<1>5. Local(p)'
  BY <1>1, <1>4 DEF TypeOK, Local
<1>6. \A q \in Procs \ {p} : stage'[q] = stage[q]
  BY <1>1 DEF TypeOK
<1>7. QED
  BY <1>3, <1>5, <1>6, QuietStep

LEMMA CheckStep ==
    ASSUME AdapterInv, NEW p \in Procs, CheckDuplicate(p) \/ AppendRaises(p)
    PROVE  AdapterInv'
<1>1. CASE RaiseFrom(p)
  <2>1. stage[p] = "appending"
    BY DEF CheckDuplicate, AppendRaises
  <2>2. faults' \in 0..MaxFaults
    BY ConstantsAssumption DEF CheckDuplicate, AppendRaises, AdapterInv, Shapes, TypeOK
  <2>3. QED
    BY <1>1, <2>1, <2>2, RaiseStep
<1>2. CASE ~RaiseFrom(p)
  <2> USE DEF AdapterInv, Shapes, Goto
  <2>1. /\ stage' = [stage EXCEPT ![p] = "storing"]
        /\ UNCHANGED <<records, pending, inflight, stashed, outcome, raised, faults>>
        /\ stage[p] = "appending"
    BY <1>2 DEF CheckDuplicate, AppendRaises
  <2>2. TypeOK'
    BY <2>1 DEF TypeOK
  <2>3. Shapes'
    BY <2>1, <2>2
  <2>4. Recorded(p)' = Recorded(p) /\ \A r : Backed(r)' = Backed(r)
    BY <2>1 DEF Recorded, Backed
  <2>5. Local(p)'
    BY <2>1, <2>4 DEF TypeOK, Local
  <2>6. QED
    BY <2>1, <2>3, <2>5, QuietStep
<1>3. QED
  BY <1>1, <1>2

LEMMA StoreStep ==
    ASSUME AdapterInv, NEW p \in Procs, Store(p)
    PROVE  AdapterInv'
<1> USE DEF AdapterInv, Shapes
<1>1. PICK r \in pending[p] : records' = Append(records, r)
  BY DEF Store
<1>2. pending[p] = {r} /\ Backed(r)
  BY DEF Store, TypeOK, Local
<1> DEFINE n == Len(records)
<1>3. PICK S : records \in Seq(S)
  OBVIOUS
<1>4. /\ records' \in Seq(S \cup {r})
      /\ n \in Nat /\ DOMAIN records = 1..n
      /\ DOMAIN records' = 1..(n + 1)
      /\ \A i \in 1..n : records'[i] = records[i]
      /\ records'[n + 1] = r
  BY <1>1, <1>3, AppendGrows
<1> HIDE DEF n
<1>5. \A i \in DOMAIN records : i \in DOMAIN records' /\ records'[i] = records[i]
  BY <1>4
<1>6. \E i \in DOMAIN records' : records'[i] = r
  BY <1>4
<1>7. /\ stage' = [stage EXCEPT ![p] = IF IsAction(p) THEN "running" ELSE "over"]
      /\ stashed' = stashed \/ (stashed' = stashed \cup {p} /\ p \in CrewCalls /\ IsAction(p))
      /\ UNCHANGED <<pending, inflight, outcome, raised, faults>>
  BY DEF Store, Goto
<1>8. TypeOK'
  <2>1. stage' \in [Procs -> {"idle", "appending", "storing", "running", "ran", "over"}]
    BY <1>7 DEF TypeOK
  <2>2. \A q \in Procs : stage'[q] # "idle" =>
                           \E s \in pending'[q] : pending'[q] = {s} /\ s.key = Key
    <3>1. stage[p] # "idle"
      BY DEF Store
    <3>2. \A q \in Procs \ {p} : stage'[q] = stage[q]
      BY <1>7 DEF TypeOK
    <3>3. QED
      BY <1>7, <3>1, <3>2 DEF TypeOK
  <2>3. stashed' \subseteq CrewCalls
    BY <1>7 DEF TypeOK
  <2>4. QED
    BY <1>7, <2>1, <2>2, <2>3 DEF TypeOK
<1>9. Shapes'
  BY <1>4, <1>7, <1>8
<1>10. \A d : Recorded(d) => Recorded(d)'
  BY <1>5 DEF Recorded, Action, ActionId
<1>11. IsAction(p) => Recorded(p)'
  <2>1. ASSUME IsAction(p) PROVE r = Action(p)
    BY <1>2, <2>1 DEF IsAction
  <2>2. QED
    BY <1>6, <2>1 DEF Recorded
<1>12. Local(p)'
  BY <1>7, <1>10, <1>11 DEF Local, TypeOK, IsAction
<1>13. \A q \in Procs : Local(q)'
  BY <1>5, <1>7, <1>12, OthersKept
<1>14. CorrectionsRooted'
  <2>1. ASSUME NEW i \in DOMAIN records', records'[i].link # NoLink
        PROVE  \E j \in 1..(i - 1) : records'[i].link = LinkTo(records'[j])
    <3>1. CASE i \in 1..n
      <4>1. PICK j \in 1..(i - 1) : records[i].link = LinkTo(records[j])
        BY <1>4, <2>1, <3>1 DEF CorrectionsRooted
      <4>2. j \in 1..n
        BY <1>4, <3>1
      <4>3. QED
        BY <1>4, <3>1, <4>1, <4>2
    <3>2. CASE i = n + 1
      <4>1. PICK j \in 1..n : r.link = LinkTo(records[j])
        BY <1>2, <1>4, <2>1, <3>2 DEF Backed
      <4>2. j \in 1..(i - 1) /\ records'[j] = records[j]
        BY <1>4, <3>2
      <4>3. QED
        BY <1>4, <3>2, <4>1, <4>2
    <3>3. QED
      BY <1>4, <2>1, <3>1, <3>2
  <2>2. QED
    BY <2>1, Zenon DEF CorrectionsRooted
<1>15. ToolsRecorded'
  BY <1>7, <1>10 DEF ToolsRecorded
<1>16. QED
  BY <1>9, <1>13, <1>14, <1>15

LEMMA AdapterStep == AdapterInv /\ [Next]_vars => AdapterInv'
<1> SUFFICES ASSUME AdapterInv, [Next]_vars PROVE AdapterInv'
  OBVIOUS
<1>1. ASSUME NEW c \in Calls, CallStep(c) PROVE AdapterInv'
  BY <1>1, BeginStep, RunToolStep, AfterToolStep, SkipAfterStep DEF CallStep
<1>2. ASSUME NEW a \in Apps, AppStep(a) PROVE AdapterInv'
  BY <1>2, AppSteps DEF AppStep
<1>3. ASSUME NEW p \in Procs, SinkStep(p) PROVE AdapterInv'
  BY <1>3, CheckStep, StoreStep DEF SinkStep
<1>4. CASE UNCHANGED vars
  <2>1. UNCHANGED <<records, stage, pending, inflight, stashed, outcome, raised, faults>>
    BY <1>4 DEF vars
  <2>2. Shapes'
    BY <2>1 DEF AdapterInv, Shapes, TypeOK
  <2>3. \A p \in Procs : Local(p)'
    BY <2>1 DEF AdapterInv, Local, Backed, Recorded
  <2>4. CorrectionsRooted' /\ ToolsRecorded'
    BY <2>1 DEF AdapterInv, CorrectionsRooted, ToolsRecorded, Recorded
  <2>5. QED
    BY <2>2, <2>3, <2>4 DEF AdapterInv
<1>5. QED
  BY <1>1, <1>2, <1>3, <1>4 DEF Next

LEMMA AdapterInvariant == Spec => []AdapterInv
BY AdapterInit, AdapterStep, PTL DEF Spec

-----------------------------------------------------------------------------
(* Coroutines of one loop.                                                 *)

Inside == {"appending", "storing", "ran"}

\* One call at most is between two awaits, and no other has come between the
\* look at the sink and the append.
LoopInv ==
    /\ \A p, q \in Procs : stage[p] \in Inside /\ stage[q] \in Inside => p = q
    /\ \A p \in Procs : stage[p] = "storing" => ~Duplicate(p)
    /\ NoDuplicates

LEMMA LoopInit == Init => LoopInv
<1> SUFFICES ASSUME Init PROVE LoopInv
  OBVIOUS
<1>1. DOMAIN records = {}
  BY EmptySeq, LenProperties DEF Init
<1>2. QED
  BY <1>1 DEF Init, LoopInv, Inside, NoDuplicates

\* Every step is of one call that may run.
LEMMA OneMoves ==
    ASSUME AdapterInv, Next, ~Threads
    PROVE  \E p \in Procs :
              /\ \A q \in Procs \ {p} : /\ stage[q] \notin Inside
                                        /\ stage'[q] = stage[q]
              /\ \/ Store(p) /\ stage[p] = "storing" /\ stage'[p] # "storing"
                 \/ UNCHANGED records /\ stage'[p] # "storing"
                 \/ UNCHANGED <<records, pending>> /\ ~Duplicate(p)
<1> USE DEF AdapterInv, Shapes, TypeOK, MayRun, Inside, Goto
<1>1. ASSUME NEW c \in Calls, CallStep(c)
      PROVE  /\ \A q \in Procs \ {c} : stage[q] \notin Inside /\ stage'[q] = stage[q]
             /\ UNCHANGED records /\ stage'[c] # "storing" /\ c \in Procs
  <2>1. c \in Procs
    BY DEF Procs
  <2>2. PICK s \in {"appending", "ran", "over"} : stage' = [stage EXCEPT ![c] = s]
    BY <1>1 DEF CallStep, Begin, RunTool, AfterTool, SkipAfter
  <2>3. MayRun(c) /\ UNCHANGED records
    BY <1>1 DEF CallStep, Begin, RunTool, AfterTool, SkipAfter
  <2>4. QED
    BY <2>1, <2>2, <2>3
<1>2. ASSUME NEW a \in Apps, AppStep(a)
      PROVE  /\ \A q \in Procs \ {a} : stage[q] \notin Inside /\ stage'[q] = stage[q]
             /\ UNCHANGED records /\ stage'[a] # "storing" /\ a \in Procs
  <2>1. a \in Procs
    BY DEF Procs
  <2>2. stage' = [stage EXCEPT ![a] = "appending"] /\ MayRun(a) /\ UNCHANGED records
    BY <1>2 DEF AppStep, Submit, MarkWrong
  <2>3. QED
    BY <2>1, <2>2
<1>3. ASSUME NEW p \in Procs, SinkStep(p)
      PROVE  /\ \A q \in Procs \ {p} : stage[q] \notin Inside /\ stage'[q] = stage[q]
             /\ \/ Store(p) /\ stage[p] = "storing" /\ stage'[p] # "storing"
                \/ UNCHANGED records /\ stage'[p] # "storing"
                \/ UNCHANGED <<records, pending>> /\ ~Duplicate(p)
  <2>1. MayRun(p)
    BY <1>3 DEF SinkStep, CheckDuplicate, AppendRaises, Store
  <2>2. CASE Store(p)
    <3>1. PICK s \in {"running", "over"} : stage' = [stage EXCEPT ![p] = s]
      BY <2>2 DEF Store
    <3>2. stage[p] = "storing"
      BY <2>2 DEF Store
    <3>3. QED
      BY <2>1, <2>2, <3>1, <3>2
  <2>3. CASE RaiseFrom(p)
    <3>1. PICK s \in {"running", "over"} : stage' = [stage EXCEPT ![p] = s]
      BY <2>3 DEF RaiseFrom
    <3>2. UNCHANGED records
      BY <2>3 DEF RaiseFrom
    <3>3. QED
      BY <2>1, <3>1, <3>2
  <2>4. CASE ~Store(p) /\ ~RaiseFrom(p)
    <3>1. /\ stage' = [stage EXCEPT ![p] = "storing"]
          /\ UNCHANGED <<records, pending>> /\ ~Duplicate(p)
      BY <1>3, <2>4 DEF SinkStep, CheckDuplicate, AppendRaises
    <3>2. QED
      BY <2>1, <3>1
  <2>5. QED
    BY <2>2, <2>3, <2>4
<1>4. QED
  BY <1>1, <1>2, <1>3 DEF Next

LEMMA StoreDistinct ==
    ASSUME AdapterInv, NoDuplicates, NEW p \in Procs, Store(p), ~Duplicate(p)
    PROVE  NoDuplicates'
<1>1. PICK r \in pending[p] : records' = Append(records, r)
  BY DEF Store
<1>2. \A i \in DOMAIN records : records[i].id # r.id
  BY <1>1 DEF Duplicate
<1> DEFINE n == Len(records)
<1>3. PICK S : records \in Seq(S)
  BY DEF AdapterInv, Shapes
<1>4. /\ n \in Nat /\ DOMAIN records = 1..n
      /\ DOMAIN records' = 1..(n + 1)
      /\ \A i \in 1..n : records'[i] = records[i]
      /\ records'[n + 1] = r
  BY <1>1, <1>3, AppendGrows
<1> HIDE DEF n
<1>5. \A i \in DOMAIN records' : i \in 1..n \/ i = n + 1
  BY <1>4
<1>6. QED
  BY <1>2, <1>4, <1>5 DEF NoDuplicates

LEMMA LoopStep ==
    ASSUME ~Threads
    PROVE  AdapterInv /\ LoopInv /\ [Next]_vars => LoopInv'
<1> SUFFICES ASSUME AdapterInv, LoopInv, [Next]_vars PROVE LoopInv'
  OBVIOUS
<1>1. CASE Next
  <2>1. PICK p \in Procs :
          /\ \A q \in Procs \ {p} : stage[q] \notin Inside /\ stage'[q] = stage[q]
          /\ \/ Store(p) /\ stage[p] = "storing" /\ stage'[p] # "storing"
             \/ UNCHANGED records /\ stage'[p] # "storing"
             \/ UNCHANGED <<records, pending>> /\ ~Duplicate(p)
    BY <1>1, OneMoves
  <2>2. \A q, r \in Procs : stage'[q] \in Inside /\ stage'[r] \in Inside => q = r
    BY <2>1
  <2>3. \A q \in Procs : stage'[q] = "storing" => ~Duplicate(q)'
    BY <2>1 DEF Inside, Duplicate
  <2>4. NoDuplicates'
    <3>1. CASE Store(p) /\ stage[p] = "storing"
      BY <3>1, StoreDistinct DEF LoopInv
    <3>2. CASE UNCHANGED records
      BY <3>2 DEF LoopInv, NoDuplicates
    <3>3. QED
      BY <2>1, <3>1, <3>2
  <2>5. QED
    BY <2>2, <2>3, <2>4 DEF LoopInv
<1>2. CASE UNCHANGED vars
  BY <1>2 DEF vars, LoopInv, Duplicate, NoDuplicates
<1>3. QED
  BY <1>1, <1>2

-----------------------------------------------------------------------------
(* Corrections of calls that failed.                                       *)

\* The one correction that the code behind the tool of c may make.
CheckFailed(c) == Correction(c, Action(c), "check_failed")

LEMMA CheckFailedParts ==
    ASSUME NEW c, NEW d
    PROVE  /\ CheckFailed(c).body.trigger = "check_failed"
           /\ CheckFailed(c).link = LinkTo(Action(c))
           /\ LinkTo(Action(c)) = LinkTo(Action(d)) => c = d
           /\ CheckFailed(c) = CheckFailed(d) => c = d
           /\ Action(c).body.trigger # "check_failed"
           /\ \A p, r : Correction(p, r, "human_flagged").body.trigger # "check_failed"
<1>1. /\ CheckFailed(c).body.trigger = "check_failed"
      /\ CheckFailed(c).link = LinkTo(Action(c))
      /\ CheckFailed(c).id = <<c, "correction">>
      /\ CheckFailed(d).id = <<d, "correction">>
      /\ Action(c).body.trigger = "supersede"
      /\ \A p, r : Correction(p, r, "human_flagged").body.trigger = "human_flagged"
  BY DEF CheckFailed, Correction, Action, Sign
<1>2. LinkTo(Action(c)) = LinkTo(Action(d)) => c = d
  <2>1. Action(c).id = <<c, "action">> /\ Action(d).id = <<d, "action">>
    BY ActionParts DEF ActionId
  <2> DEFINE p(r) == [receiptId |-> r.id, digest |-> Digest(r)]
  <2>2. \A r, s : {p(r)} = {p(s)} => p(r) = p(s)
    BY Zenon
  <2>3. \A r, s : p(r) = p(s) => r.id = s.id
    OBVIOUS
  <2>4. \A r : LinkTo(r) = {p(r)}
    BY DEF LinkTo
  <2> HIDE DEF p
  <2>5. QED
    BY <2>1, <2>2, <2>3, <2>4
<1>3. QED
  BY <1>1, <1>2

Missing(c) == \A i \in DOMAIN records : records[i] # CheckFailed(c)
Single(c) ==
    \E i \in DOMAIN records : \A j \in DOMAIN records : records[j] = CheckFailed(c) <=> j = i

Held(c) == c \in CrewCalls => inflight[c] = {Action(c)}

\* How a call comes to its correction, stage by stage.
Untried(c) == outcome[c] = "none" /\ c \notin stashed /\ c \notin raised /\ Missing(c)

Acting(c) == stage[c] \in {"appending", "storing"} /\ IsAction(c) /\ Held(c) /\ Untried(c)

AtTool(c) ==
    /\ stage[c] \in {"running", "ran"} /\ IsAction(c) /\ Held(c) /\ Missing(c)
    /\ c \in raised => c \in CrewCalls \ stashed

Correcting(c) ==
    /\ stage[c] \in {"appending", "storing"} /\ pending[c] = {CheckFailed(c)}
    /\ Failed(c) /\ Settled(c) /\ c \notin raised /\ Missing(c)

Ended(c) ==
    /\ stage[c] = "over"
    /\ IF Failed(c) /\ Settled(c) /\ c \notin raised THEN Single(c) ELSE Missing(c)

Course(c) ==
    \/ stage[c] = "idle" /\ Untried(c)
    \/ Acting(c)
    \/ AtTool(c)
    \/ Correcting(c)
    \/ Ended(c)

\* Nobody else makes a record that could be taken for such a correction.
OwnCorrections ==
    /\ \A i \in DOMAIN records :
          records[i].body.trigger = "check_failed" => \E c \in Calls : records[i] = CheckFailed(c)
    /\ \A a \in Apps : \A r \in pending[a] : r.body.trigger # "check_failed"

CourseInv == OwnCorrections /\ \A c \in Calls : Course(c)

LEMMA CourseInit == Init => CourseInv
<1> SUFFICES ASSUME Init PROVE CourseInv
  OBVIOUS
<1>1. DOMAIN records = {}
  BY EmptySeq, LenProperties DEF Init
<1>2. QED
  BY <1>1 DEF Init, CourseInv, OwnCorrections, Course, Untried, Missing, Procs

\* A call is where it was as long as nothing of it moves and no correction of it
\* comes to the sink.
LEMMA CourseKept ==
    ASSUME NEW c \in Calls, Course(c),
           stage'[c] = stage[c], pending'[c] = pending[c], outcome'[c] = outcome[c],
           c \in CrewCalls => inflight'[c] = inflight[c],
           c \in stashed' <=> c \in stashed, c \in raised' <=> c \in raised,
           Missing(c) => Missing(c)', Single(c) => Single(c)'
    PROVE  Course(c)'
<1>1. Held(c)' = Held(c) /\ IsAction(c)' = IsAction(c)
  BY DEF Held, IsAction, Action, ActionId
<1>2. Failed(c)' = Failed(c) /\ Settled(c)' = Settled(c)
  BY DEF Failed, Settled
<1>3. Untried(c) => Untried(c)'
  BY DEF Untried
<1>4. CheckFailed(c)' = CheckFailed(c)
  BY DEF CheckFailed, Action, ActionId
<1>5. QED
  BY <1>1, <1>2, <1>3, <1>4 DEF Course, Acting, AtTool, Correcting, Ended

\* Steps of p that leave the sink alone.
LEMMA CourseQuiet ==
    ASSUME AdapterInv, CourseInv, NEW p \in Procs, UNCHANGED records,
           \A q \in Procs \ {p} : /\ stage'[q] = stage[q] /\ pending'[q] = pending[q]
                                  /\ (q \in stashed' <=> q \in stashed)
                                  /\ (q \in raised' <=> q \in raised),
           \A c \in Calls \ {p} : outcome'[c] = outcome[c],
           \A c \in CrewCalls \ {p} : inflight'[c] = inflight[c],
           p \in Calls => Course(p)',
           p \in Apps => \A r \in pending'[p] : r.body.trigger # "check_failed"
    PROVE  CourseInv'
<1>1. \A c : Missing(c)' = Missing(c) /\ Single(c)' = Single(c)
  BY DEF Missing, Single, CheckFailed, Action, ActionId
<1>2. \A c \in Calls \ {p} : Course(c)'
  <2> TAKE c \in Calls \ {p}
  <2>1. c \in Procs /\ Course(c)
    BY DEF Procs, CourseInv
  <2>2. QED
    BY <1>1, <2>1, CourseKept
<1>3. OwnCorrections'
  <2>1. \A i \in DOMAIN records' : records'[i].body.trigger = "check_failed" =>
            \E c \in Calls : records'[i] = CheckFailed(c)
    BY DEF CourseInv, OwnCorrections
  <2>2. \A a \in Apps : \A r \in pending'[a] : r.body.trigger # "check_failed"
    BY DEF CourseInv, OwnCorrections, Procs
  <2>3. QED
    BY <2>1, <2>2 DEF OwnCorrections, CheckFailed, Action, ActionId
<1>4. QED
  BY <1>2, <1>3 DEF CourseInv

LEMMA CourseBegin ==
    ASSUME AdapterInv, CourseInv, NEW c \in Calls, Begin(c)
    PROVE  CourseInv'
<1> USE DEF AdapterInv, Shapes, TypeOK, Goto, Begin
<1>1. c \in Procs /\ c \notin Apps
  BY ConstantsAssumption DEF Procs
<1>2. Untried(c)
  BY DEF CourseInv, Course, Acting, AtTool, Correcting, Ended
<1>3. stage'[c] = "appending" /\ pending'[c] = {Action(c)}
  BY <1>1
<1>4. Held(c)' /\ IsAction(c)'
  BY <1>3 DEF Held, IsAction, Action, ActionId
<1>5. Untried(c)'
  BY <1>2 DEF Untried, Missing, CheckFailed, Action, ActionId
<1>6. Course(c)'
  BY <1>3, <1>4, <1>5 DEF Course, Acting
<1>7. QED
  BY <1>1, <1>6, CourseQuiet

LEMMA CourseApp ==
    ASSUME AdapterInv, CourseInv, NEW a \in Apps, AppStep(a)
    PROVE  CourseInv'
<1> USE DEF AdapterInv, Shapes, TypeOK, Goto
<1>1. a \in Procs /\ a \notin Calls
  BY ConstantsAssumption DEF Procs
<1>2. PICK r : pending' = [pending EXCEPT ![a] = {r}] /\ r.body.trigger # "check_failed"
  <2>1. CASE Submit(a)
    BY <2>1, CheckFailedParts DEF Submit, AppRecord
  <2>2. CASE MarkWrong(a)
    <3>1. PICK i \in DOMAIN records :
            pending' = [pending EXCEPT ![a] = {Correction(a, records[i], "human_flagged")}]
      BY <2>2 DEF MarkWrong
    <3> DEFINE r == Correction(a, records[i], "human_flagged")
    <3>2. pending' = [pending EXCEPT ![a] = {r}] /\ r.body.trigger # "check_failed"
      BY <3>1, CheckFailedParts
    <3> HIDE DEF r
    <3>3. QED
      BY <3>2
  <2>3. QED
    BY <2>1, <2>2 DEF AppStep
<1>3. /\ stage' = [stage EXCEPT ![a] = "appending"]
      /\ UNCHANGED <<records, inflight, stashed, outcome, raised>>
  BY DEF AppStep, Submit, MarkWrong
<1>4. QED
  BY <1>1, <1>2, <1>3, CourseQuiet

LEMMA CourseRunTool ==
    ASSUME AdapterInv, CourseInv, NEW c \in Calls, RunTool(c)
    PROVE  CourseInv'
<1> USE DEF AdapterInv, Shapes, TypeOK, Goto, RunTool
<1>1. c \in Procs /\ c \notin Apps
  BY ConstantsAssumption DEF Procs
<1>2. AtTool(c)
  BY DEF CourseInv, Course, Acting, AtTool, Correcting, Ended
<1>3. stage'[c] = "ran"
  BY <1>1
<1>4. AtTool(c)'
  BY <1>2, <1>3 DEF AtTool, Held, IsAction, Missing, CheckFailed, Action, ActionId
<1>5. Course(c)'
  BY <1>4 DEF Course
<1>6. QED
  BY <1>1, <1>5, CourseQuiet

LEMMA CourseSkip ==
    ASSUME AdapterInv, CourseInv, NEW c \in Calls, SkipAfter(c)
    PROVE  CourseInv'
<1> USE DEF AdapterInv, Shapes, TypeOK, Goto, SkipAfter
<1>1. c \in Procs /\ c \notin Apps
  BY ConstantsAssumption DEF Procs
<1>2. AtTool(c)
  BY DEF CourseInv, Course, Acting, AtTool, Correcting, Ended
<1>3. stage'[c] = "over"
  BY <1>1
<1>4. ~Settled(c)' /\ Missing(c)'
  BY <1>2 DEF AtTool, Held, Settled, Missing, CheckFailed, Action, ActionId
<1>5. Course(c)'
  BY <1>3, <1>4 DEF Course, Ended
<1>6. QED
  BY <1>1, <1>5, CourseQuiet

LEMMA CourseAfterTool ==
    ASSUME AdapterInv, CourseInv, NEW c \in Calls, AfterTool(c)
    PROVE  CourseInv'
<1> USE DEF AdapterInv, Shapes, TypeOK, Goto
<1>1. c \in Procs /\ c \notin Apps
  BY ConstantsAssumption DEF Procs
<1>2. AtTool(c) /\ stage[c] = "ran"
  BY DEF CourseInv, Course, Acting, AtTool, Correcting, Ended, AfterTool
<1>3. /\ UNCHANGED <<records, stashed, outcome, raised>>
      /\ c \in stashed => c \in CrewCalls /\ inflight' = [inflight EXCEPT ![c] = {}]
      /\ c \notin stashed => inflight' = inflight
  BY DEF AfterTool
<1>4. Missing(c)'
  BY <1>2, <1>3 DEF AtTool, Missing, CheckFailed, Action, ActionId
<1>5. Detected(c) <=> Failed(c)
  BY ConstantsAssumption DEF Detected, Failed
<1>6. Failed(c)' <=> Failed(c)
  BY <1>3 DEF Failed
<1>7. Course(c)' /\ \A q \in Procs \ {c} : stage'[q] = stage[q] /\ pending'[q] = pending[q]
  <2>1. ASSUME Detected(c), NEW r \in Prior(c),
               pending' = [pending EXCEPT ![c] = {Correction(c, r, "check_failed")}],
               stage' = [stage EXCEPT ![c] = "appending"]
        PROVE  Course(c)' /\ \A q \in Procs \ {c} : stage'[q] = stage[q] /\ pending'[q] = pending[q]
    <3>1. r = Action(c) /\ (c \in CrewCalls => c \in stashed)
      BY <1>2, <2>1 DEF Prior, AtTool, Held, IsAction
    <3>2. stage'[c] = "appending" /\ pending'[c] = {CheckFailed(c)}
      BY <1>1, <2>1, <3>1 DEF CheckFailed
    <3>3. CheckFailed(c)' = CheckFailed(c)
      BY DEF CheckFailed, Action, ActionId
    <3>4. Failed(c)'
      BY <1>5, <1>6, <2>1
    <3>5. Settled(c)'
      BY <1>3, <3>1 DEF Settled
    <3>6. c \notin raised'
      BY <1>2, <1>3, <3>1 DEF AtTool
    <3>7. Course(c)'
      BY <1>4, <3>2, <3>3, <3>4, <3>5, <3>6 DEF Course, Correcting
    <3>8. QED
      BY <2>1, <3>7
  <2>2. ASSUME ~Detected(c) \/ Prior(c) = {}, stage' = [stage EXCEPT ![c] = "over"],
               UNCHANGED pending
        PROVE  Course(c)' /\ \A q \in Procs \ {c} : stage'[q] = stage[q] /\ pending'[q] = pending[q]
    <3>1. Prior(c) = {} => c \in CrewCalls /\ c \notin stashed
      BY <1>2 DEF Prior, AtTool, Held, IsAction
    <3>2. ~Failed(c)' \/ ~Settled(c)'
      BY <1>3, <1>5, <1>6, <2>2, <3>1 DEF Settled
    <3>3. stage'[c] = "over"
      BY <1>1, <2>2
    <3>4. Course(c)'
      BY <1>4, <3>2, <3>3 DEF Course, Ended
    <3>5. QED
      BY <2>2, <3>4
  <2>3. QED
    BY <2>1, <2>2 DEF AfterTool
<1>8. QED
  BY <1>1, <1>3, <1>7, CourseQuiet

LEMMA CourseRaise ==
    ASSUME AdapterInv, CourseInv, NEW p \in Procs, stage[p] = "appending", RaiseFrom(p)
    PROVE  CourseInv'
<1> USE DEF AdapterInv, Shapes, TypeOK, Goto, RaiseFrom
<1>1. p \in Apps => \A r \in pending'[p] : r.body.trigger # "check_failed"
  BY DEF CourseInv, OwnCorrections
<1>2. /\ \/ stage' = [stage EXCEPT ![p] = "over"]
         \/ stage' = [stage EXCEPT ![p] = "running"] /\ p \in CrewCalls /\ IsAction(p)
      /\ raised' = raised \cup {p}
      /\ UNCHANGED <<records, pending, inflight, stashed, outcome>>
  OBVIOUS
<1>3. ASSUME p \in Calls PROVE Course(p)'
  <2>1. Acting(p) \/ Correcting(p)
    BY <1>3 DEF CourseInv, Course, AtTool, Ended
  <2>2. Missing(p)'
    BY <1>2, <2>1 DEF Acting, Correcting, Untried, Missing, CheckFailed, Action, ActionId
  <2>3. CASE stage'[p] = "over"
    BY <1>2, <2>2, <2>3 DEF Course, Ended
  <2>4. CASE stage'[p] = "running" /\ p \in CrewCalls /\ IsAction(p)
    <3>1. Acting(p)
      <4>1. ASSUME Correcting(p) PROVE FALSE
        <5>1. Action(p) = CheckFailed(p)
          BY <2>4, <4>1 DEF IsAction, Correcting
        <5>2. QED
          BY <5>1, CheckFailedParts
      <4>2. QED
        BY <2>1, <4>1
    <3>2. AtTool(p)'
      BY <1>2, <2>2, <2>4, <3>1 DEF AtTool, Acting, Untried, Held, IsAction, Action, ActionId
    <3>3. QED
      BY <3>2 DEF Course
  <2>5. QED
    BY <1>2, <2>3, <2>4
<1>4. \A q \in Procs \ {p} : stage'[q] = stage[q]
  BY <1>2
<1>5. QED
  BY <1>1, <1>2, <1>3, <1>4, CourseQuiet

LEMMA CourseCheck ==
    ASSUME AdapterInv, CourseInv, NEW p \in Procs, CheckDuplicate(p) \/ AppendRaises(p)
    PROVE  CourseInv'
<1>1. CASE RaiseFrom(p)
  BY <1>1, CourseRaise DEF CheckDuplicate, AppendRaises
<1>2. CASE ~RaiseFrom(p)
  <2> USE DEF AdapterInv, Shapes, TypeOK, Goto
  <2>1. /\ stage' = [stage EXCEPT ![p] = "storing"]
        /\ UNCHANGED <<records, pending, inflight, stashed, outcome, raised>>
        /\ stage[p] = "appending"
    BY <1>2 DEF CheckDuplicate, AppendRaises
  <2>2. ASSUME p \in Calls PROVE Course(p)'
    <3>1. Acting(p) \/ Correcting(p)
      BY <2>1, <2>2 DEF CourseInv, Course, AtTool, Ended
    <3>2. Acting(p)' \/ Correcting(p)'
      BY <2>1, <3>1 DEF Acting, Correcting, Untried, Missing, Held, IsAction, Failed, Settled,
                        CheckFailed, Action, ActionId
    <3>3. QED
      BY <3>2 DEF Course
  <2>3. p \in Apps => \A r \in pending'[p] : r.body.trigger # "check_failed"
    BY <2>1 DEF CourseInv, OwnCorrections
  <2>4. QED
    BY <2>1, <2>2, <2>3, CourseQuiet
<1>3. QED
  BY <1>1, <1>2

LEMMA CourseStore ==
    ASSUME AdapterInv, CourseInv, NEW p \in Procs, Store(p)
    PROVE  CourseInv'
<1> USE DEF AdapterInv, Shapes
<1>1. PICK r \in pending[p] : records' = Append(records, r)
  BY DEF Store
<1>2. pending[p] = {r} /\ stage[p] = "storing"
  BY DEF Store, TypeOK
<1> DEFINE n == Len(records)
<1>3. PICK S : records \in Seq(S)
  OBVIOUS
<1>4. /\ n \in Nat /\ DOMAIN records = 1..n
      /\ DOMAIN records' = 1..(n + 1)
      /\ \A i \in 1..n : records'[i] = records[i]
      /\ records'[n + 1] = r
  BY <1>1, <1>3, AppendGrows
<1> HIDE DEF n
<1>5. /\ stage' = [stage EXCEPT ![p] = IF IsAction(p) THEN "running" ELSE "over"]
      /\ stashed' = stashed \/ (stashed' = stashed \cup {p} /\ p \in CrewCalls /\ IsAction(p))
      /\ UNCHANGED <<pending, inflight, outcome, raised>>
  BY DEF Store, Goto
<1>6. \A c : CheckFailed(c)' = CheckFailed(c) /\ Action(c)' = Action(c)
  BY DEF CheckFailed, Action, ActionId
<1>7. ASSUME NEW c, r # CheckFailed(c)
      PROVE  (Missing(c) => Missing(c)') /\ (Single(c) => Single(c)')
  <2>1. \A i \in DOMAIN records' : i \in DOMAIN records \/ records'[i] = r
    BY <1>4
  <2>2. \A i \in DOMAIN records : i \in DOMAIN records' /\ records'[i] = records[i]
    BY <1>4
  <2>3. Missing(c) => Missing(c)'
    BY <1>6, <1>7, <2>1, <2>2 DEF Missing
  <2>4. ASSUME Single(c) PROVE Single(c)'
    <3>1. PICK i \in DOMAIN records :
            \A j \in DOMAIN records : records[j] = CheckFailed(c) <=> j = i
      BY <2>4 DEF Single
    <3>2. \A j \in DOMAIN records' : records'[j] = CheckFailed(c) <=> j = i
      <4> TAKE j \in DOMAIN records'
      <4>1. CASE j \in DOMAIN records
        BY <2>2, <3>1, <4>1
      <4>2. CASE j \notin DOMAIN records
        BY <1>7, <2>1, <3>1, <4>2
      <4>3. QED
        BY <4>1, <4>2
    <3>3. QED
      BY <1>6, <2>2, <3>1, <3>2 DEF Single
  <2>5. QED
    BY <2>3, <2>4
<1>8. ASSUME p \in Calls PROVE (Acting(p) /\ r = Action(p)) \/ (Correcting(p) /\ r = CheckFailed(p))
  <2>1. Acting(p) \/ Correcting(p)
    BY <1>2, <1>8 DEF CourseInv, Course, AtTool, Ended
  <2>2. QED
    BY <1>2, <2>1 DEF Acting, Correcting, IsAction
<1>9. ASSUME p \in Apps PROVE p \notin Calls /\ r.body.trigger # "check_failed"
  BY <1>9, ConstantsAssumption DEF CourseInv, OwnCorrections
<1>10. \A c \in Calls \ {p} : r # CheckFailed(c)
  BY <1>8, <1>9, CheckFailedParts DEF Procs
<1>11. \A c \in Calls \ {p} : Course(c)'
  <2> TAKE c \in Calls \ {p}
  <2>1. Course(c) /\ c \in Procs
    BY DEF CourseInv, Procs
  <2>2. stage'[c] = stage[c]
    BY <1>5, <2>1 DEF TypeOK
  <2>3. QED
    BY <1>5, <1>7, <1>10, <2>1, <2>2, CourseKept
<1>12. ASSUME p \in Calls PROVE Course(p)'
  <2>1. CASE Acting(p) /\ r = Action(p)
    <3>1. IsAction(p) /\ r # CheckFailed(p)
      BY <2>1, CheckFailedParts DEF Acting
    <3>2. stage'[p] = "running"
      BY <1>5, <3>1 DEF TypeOK
    <3>3. Missing(p)'
      BY <1>7, <2>1, <3>1 DEF Acting, Untried
    <3>4. AtTool(p)'
      BY <1>5, <1>6, <2>1, <3>2, <3>3 DEF AtTool, Acting, Untried, Held, IsAction
    <3>5. QED
      BY <3>4 DEF Course
  <2>2. CASE Correcting(p) /\ r = CheckFailed(p)
    <3>1. ~IsAction(p)
      BY <2>2, CheckFailedParts DEF Correcting, IsAction
    <3>2. stage'[p] = "over" /\ stashed' = stashed
      BY <1>5, <3>1 DEF TypeOK
    <3>3. Single(p)'
      <4>1. \A i \in 1..n : records'[i] # CheckFailed(p)
        BY <1>4, <2>2 DEF Correcting, Missing
      <4>2. \A j \in DOMAIN records' : records'[j] = CheckFailed(p) <=> j = n + 1
        BY <1>4, <2>2, <4>1
      <4>3. n + 1 \in DOMAIN records'
        BY <1>4
      <4>4. QED
        BY <1>6, <4>2, <4>3 DEF Single
    <3>4. Failed(p)' /\ Settled(p)' /\ p \notin raised'
      BY <1>5, <2>2, <3>2 DEF Correcting, Failed, Settled
    <3>5. QED
      BY <3>2, <3>3, <3>4 DEF Course, Ended
  <2>3. QED
    BY <1>8, <1>12, <2>1, <2>2
<1>13. OwnCorrections'
  <2>1. \A i \in DOMAIN records' : records'[i].body.trigger = "check_failed" =>
            \E c \in Calls : records'[i] = CheckFailed(c)
    <3> TAKE i \in DOMAIN records'
    <3>1. CASE i \in DOMAIN records
      BY <1>4, <3>1 DEF CourseInv, OwnCorrections
    <3>2. CASE i = n + 1
      BY <1>4, <1>8, <1>9, <3>2, CheckFailedParts DEF Procs
    <3>3. QED
      BY <1>4, <3>1, <3>2
  <2>2. \A a \in Apps : \A s \in pending'[a] : s.body.trigger # "check_failed"
    BY <1>5 DEF CourseInv, OwnCorrections
  <2>3. QED
    BY <1>6, <2>1, <2>2 DEF OwnCorrections
<1>14. QED
  BY <1>11, <1>12, <1>13 DEF CourseInv

LEMMA CourseStep == AdapterInv /\ CourseInv /\ [Next]_vars => CourseInv'
<1> SUFFICES ASSUME AdapterInv, CourseInv, [Next]_vars PROVE CourseInv'
  OBVIOUS
<1>1. ASSUME NEW c \in Calls, CallStep(c) PROVE CourseInv'
  BY <1>1, CourseBegin, CourseRunTool, CourseAfterTool, CourseSkip DEF CallStep
<1>2. ASSUME NEW a \in Apps, AppStep(a) PROVE CourseInv'
  BY <1>2, CourseApp
<1>3. ASSUME NEW p \in Procs, SinkStep(p) PROVE CourseInv'
  BY <1>3, CourseCheck, CourseStore DEF SinkStep
<1>4. CASE UNCHANGED vars
  <2>1. UNCHANGED <<records, stage, pending, inflight, stashed, outcome, raised, faults>>
    BY <1>4 DEF vars
  <2>2. \A c : CheckFailed(c)' = CheckFailed(c) /\ Missing(c)' = Missing(c) /\ Single(c)' = Single(c)
    BY <2>1 DEF CheckFailed, Action, ActionId, Missing, Single
  <2>3. OwnCorrections'
    BY <2>1, <2>2 DEF CourseInv, OwnCorrections
  <2>4. \A c \in Calls : Course(c)'
    BY <2>1, <2>2, CourseKept DEF CourseInv
  <2>5. QED
    BY <2>3, <2>4 DEF CourseInv
<1>5. QED
  BY <1>1, <1>2, <1>3, <1>4 DEF Next

LEMMA Counted == CourseInv => FailuresCorrected
<1> SUFFICES ASSUME CourseInv, NEW c \in Calls, stage[c] = "over"
             PROVE  Cardinality({i \in DOMAIN records :
                                   /\ records[i].link = LinkTo(Action(c))
                                   /\ records[i].body.trigger = "check_failed"})
                      = IF Failed(c) /\ Settled(c) /\ c \notin raised THEN 1 ELSE 0
  BY DEF FailuresCorrected
<1> DEFINE corrections == {i \in DOMAIN records : /\ records[i].link = LinkTo(Action(c))
                                                  /\ records[i].body.trigger = "check_failed"}
<1>1. Ended(c)
  BY DEF CourseInv, Course, Acting, AtTool, Correcting
<1>2. corrections = {i \in DOMAIN records : records[i] = CheckFailed(c)}
  <2>1. \A i \in DOMAIN records : records[i].link = LinkTo(Action(c))
                                  /\ records[i].body.trigger = "check_failed"
                                  => records[i] = CheckFailed(c)
    BY CheckFailedParts DEF CourseInv, OwnCorrections
  <2>2. QED
    BY <2>1, CheckFailedParts
<1>3. Missing(c) => Cardinality(corrections) = 0
  <2>1. Missing(c) => corrections = {}
    BY <1>2 DEF Missing
  <2>2. QED
    BY <2>1, FS_EmptySet
<1>4. Single(c) => Cardinality(corrections) = 1
  <2>1. ASSUME Single(c) PROVE \E i : corrections = {i}
    <3>1. PICK i \in DOMAIN records :
            \A j \in DOMAIN records : records[j] = CheckFailed(c) <=> j = i
      BY <2>1 DEF Single
    <3> HIDE DEF corrections
    <3>2. corrections = {i}
      BY <1>2, <3>1
    <3>3. QED
      BY <3>2
  <2>2. QED
    BY <2>1, FS_Singleton
<1>5. QED
  BY <1>1, <1>3, <1>4 DEF Ended

-----------------------------------------------------------------------------
(* Theorems.                                                               *)

\* The types of what each call holds.
THEOREM AdaptersTypeCorrect == Spec => []TypeOK
<1>1. AdapterInv => TypeOK
  BY DEF AdapterInv, Shapes
<1>2. QED
  BY <1>1, AdapterInvariant, PTL

\* Whatever overlaps and whichever append raises, a tool runs only with its
\* action in the sink, but for CrewAI's after an append raised.
THEOREM AdaptersToolsRecorded == Spec => []ToolsRecorded
<1>1. AdapterInv => ToolsRecorded
  BY DEF AdapterInv
<1>2. QED
  BY <1>1, AdapterInvariant, PTL

\* A correction stands behind the record it corrects.
THEOREM AdaptersCorrectionsRooted == Spec => []CorrectionsRooted
<1>1. AdapterInv => CorrectionsRooted
  BY DEF AdapterInv
<1>2. QED
  BY <1>1, AdapterInvariant, PTL

\* A call that failed where its adapter can see it leaves one correction of its
\* action, and no other leaves any, however calls and raising appends mix.
THEOREM AdaptersFailuresCorrected == Spec => []FailuresCorrected
<1>1. QED
  BY AdapterInvariant, CourseInit, CourseStep, Counted, PTL DEF Spec

\* Among coroutines of one loop the memory sink never holds an id twice, though
\* append looks and stores in two steps: nothing else runs between them.
THEOREM LoopNoDuplicates ==
    ASSUME ~Threads
    PROVE  Spec => []NoDuplicates
<1>1. LoopInv => NoDuplicates
  BY DEF LoopInv
<1>2. AdapterInv /\ LoopInv /\ [Next]_vars => LoopInv'
  BY LoopStep
<1>3. QED
  BY <1>1, <1>2, AdapterInvariant, LoopInit, PTL DEF Spec
==============================================================================
