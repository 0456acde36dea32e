-------------------------- MODULE ToolCallAdapters --------------------------
(***************************************************************************)
(* corrlog_langchain, corrlog_crewai and corrlog_autogen around tool calls *)
(* that share one MemorySink, and an application that appends a record of  *)
(* its own and marks records wrong.                                        *)
(*                                                                         *)
(* Calls run in threads, or as coroutines of one loop, which switches only *)
(* where one of them awaits its tool.  An append may raise, which stands   *)
(* for the faults of other sinks.  All correctionIds are fresh (uuid4).    *)
(***************************************************************************)
EXTENDS AcrRecords, FiniteSets

CONSTANTS
    Calls,          \* tool calls
    AdapterOf,      \* the adapter around each call
    Apps,           \* calls of the application: one append or one mark_wrong each
    Key,            \* the key all of them sign with
    Threads,        \* calls run in threads
    MaxFaults       \* bound: appends that raise

ASSUME ConstantsAssumption ==
    /\ AdapterOf \in [Calls -> {"langchain", "crewai", "autogen"}]
    /\ Threads \in BOOLEAN /\ MaxFaults \in Nat /\ Calls \cap Apps = {}

VARIABLES
    records,        \* MemorySink._records
    stage,          \* how far each call is
    pending,        \* the record a call has signed last, if any
    inflight,       \* CrewAICorrectionLog._inflight: the record of each call, if any
    stashed,        \* the calls whose context took the action_id
    outcome,        \* what the tool did
    raised,         \* the calls an append of which raised
    faults          \* counted against the bound

vars == <<records, stage, pending, inflight, stashed, outcome, raised, faults>>

Procs == Calls \cup Apps
Of(adapter) == {c \in Calls : AdapterOf[c] = adapter}
CrewCalls == Of("crewai")

-----------------------------------------------------------------------------
(* Records.                                                                *)

ActionId(c) == <<c, "action">>

\* The record of an action; of the call only the input is hashed.
Action(c) == Sign(ActionId(c), NoLink, "receipt",
                  [trigger |-> "supersede", hashes |-> {"inputHash"}], Key)

Correction(p, prior, trigger) ==
    Sign(<<p, "correction">>, LinkTo(prior), "receipt", [trigger |-> trigger, hashes |-> {}], Key)

\* The one record the application has made and appends itself, in whichever call.
AppRecord == Action("application")

-----------------------------------------------------------------------------
Init ==
    /\ records = <<>>
    /\ stage = [p \in Procs |-> "idle"]
    /\ pending = [p \in Procs |-> {}]
    /\ inflight = [c \in CrewCalls |-> {}]
    /\ stashed = {}
    /\ outcome = [c \in Calls |-> "none"]
    /\ raised = {} /\ faults = 0

Goto(p, s) == stage' = [stage EXCEPT ![p] = s]

\* A coroutine runs on until it awaits its tool.
MayRun(p) ==
    Threads \/ \A q \in Procs \ {p} : stage[q] \notin {"appending", "storing", "ran"}

BeginStashed(c) ==
    /\ stage[c] = "idle"
    /\ MayRun(c)
    /\ pending' = [pending EXCEPT ![c] = {Action(c)}]
    /\ inflight' = IF c \in CrewCalls THEN [inflight EXCEPT ![c] = {Action(c)}] ELSE inflight
    /\ stashed' = stashed \cup ({c} \cap CrewCalls)
    /\ Goto(c, "appending")
    /\ UNCHANGED <<records, outcome, raised, faults>>

BeginOneSlot(c) ==
    /\ stage[c] = "idle"
    /\ MayRun(c)
    /\ pending' = [pending EXCEPT ![c] = {Action(c)}]
    /\ inflight' = [d \in CrewCalls |-> IF c \in CrewCalls THEN {Action(c)} ELSE inflight[d]]
    /\ Goto(c, "appending")
    /\ UNCHANGED <<records, stashed, outcome, raised, faults>>

\* record(): before the tool runs, the action is signed (and put in flight).  A
\* record() that raises, on arguments that cannot be signed, leaves the adapter
\* with nothing appended, as AppendRaises does.
Begin(c) ==
    /\ stage[c] = "idle"
    /\ MayRun(c)
    /\ pending' = [pending EXCEPT ![c] = {Action(c)}]
    /\ inflight' = IF c \in CrewCalls THEN [inflight EXCEPT ![c] = {Action(c)}] ELSE inflight
    /\ Goto(c, "appending")
    /\ UNCHANGED <<records, stashed, outcome, raised, faults>>

IsAction(p) == p \in Calls /\ pending[p] = {Action(p)}

RaiseSwallowed(p) ==
    /\ raised' = raised \cup {p}
    /\ Goto(p, IF IsAction(p) THEN "running" ELSE "over")
    /\ UNCHANGED <<records, pending, inflight, stashed, outcome>>

\* An append raises: the exception leaves the adapter.  What CrewAI makes of
\* an exception of a hook is its own affair: it may run the tool.
RaiseFrom(p) ==
    /\ raised' = raised \cup {p}
    /\ \/ Goto(p, "over")
       \/ p \in CrewCalls /\ IsAction(p) /\ Goto(p, "running")
    /\ UNCHANGED <<records, pending, inflight, stashed, outcome>>

NoDuplicate(p) == FALSE
Duplicate(p) == \E i \in DOMAIN records, r \in pending[p] : records[i].id = r.id

\* MemorySink.append, its first line: is the id there already?
CheckDuplicate(p) ==
    /\ stage[p] = "appending"
    /\ MayRun(p)
    /\ IF Duplicate(p) THEN RaiseFrom(p)
       ELSE /\ Goto(p, "storing")
            /\ UNCHANGED <<records, pending, inflight, stashed, outcome, raised>>
    /\ UNCHANGED faults

\* Another sink raises for a reason of its own.
AppendRaises(p) ==
    /\ stage[p] = "appending"
    /\ MayRun(p)
    /\ faults < MaxFaults
    /\ faults' = faults + 1
    /\ RaiseFrom(p)

\* The second line: a copy is stored.  CrewAI's context takes the action_id
\* then, or silently refuses it.
Store(p) ==
    /\ stage[p] = "storing"
    /\ MayRun(p)
    /\ \E r \in pending[p] : records' = Append(records, r)
    /\ Goto(p, IF IsAction(p) THEN "running" ELSE "over")
    /\ stashed' \in {stashed} \cup (IF p \in CrewCalls /\ IsAction(p) THEN {stashed \cup {p}} ELSE {})
    /\ UNCHANGED <<pending, inflight, outcome, raised, faults>>

\* The tool ends: with a result, which may be an error, or an exception.
RunTool(c) ==
    /\ stage[c] = "running"
    /\ MayRun(c)
    /\ \E o \in {"fine", "error", "exception", "cancelled"} : outcome' = [outcome EXCEPT ![c] = o]
    /\ Goto(c, "ran")
    /\ UNCHANGED <<records, pending, inflight, stashed, raised, faults>>

PriorAny(c) == IF c \notin CrewCalls THEN pending[c] ELSE UNION {inflight[d] : d \in CrewCalls}

\* The record the code behind the tool would correct: the local variable of the
\* wrappers, the entry of the table that the context names.
Prior(c) == IF c \notin CrewCalls THEN pending[c] ELSE IF c \in stashed THEN inflight[c] ELSE {}

DetectedResult(c) == outcome[c] = "error"

\* What counts as an error: a result that says so; for AutoGen also an
\* exception, but not CancelledError; for CrewAI what is in the context.
Detected(c) ==
    \/ outcome[c] = "error"
    \/ AdapterOf[c] \in {"autogen", "crewai"} /\ outcome[c] = "exception"

\* The code behind the tool; CrewAI's hook takes the entry out of the table.
AfterTool(c) ==
    /\ stage[c] = "ran"
    /\ MayRun(c)
    /\ inflight' = IF c \in stashed THEN [inflight EXCEPT ![c] = {}] ELSE inflight
    /\ \/ /\ Detected(c)
          /\ \E r \in Prior(c) : pending' = [pending EXCEPT ![c] = {Correction(c, r, "check_failed")}]
          /\ Goto(c, "appending")
       \/ /\ ~Detected(c) \/ Prior(c) = {}
          /\ Goto(c, "over")
          /\ UNCHANGED pending
    /\ UNCHANGED <<records, stashed, outcome, raised, faults>>

\* CrewAI does not call the after hook, or with a context without a result.
SkipAfter(c) ==
    /\ stage[c] = "ran" /\ c \in CrewCalls
    /\ MayRun(c)
    /\ Goto(c, "over")
    /\ UNCHANGED <<records, pending, inflight, stashed, outcome, raised, faults>>

\* The application appends its record, perhaps in two calls at once.
Submit(a) ==
    /\ stage[a] = "idle"
    /\ MayRun(a)
    /\ pending' = [pending EXCEPT ![a] = {AppRecord}]
    /\ Goto(a, "appending")
    /\ UNCHANGED <<records, inflight, stashed, outcome, raised, faults>>

\* mark_wrong, of a record read from the sink; the code takes any record, and so
\* corrects also what was never in it.
MarkWrong(a) ==
    /\ stage[a] = "idle"
    /\ MayRun(a)
    /\ \E i \in DOMAIN records :
          pending' = [pending EXCEPT ![a] = {Correction(a, records[i], "human_flagged")}]
    /\ Goto(a, "appending")
    /\ UNCHANGED <<records, inflight, stashed, outcome, raised, faults>>

CallStep(c) == Begin(c) \/ RunTool(c) \/ AfterTool(c) \/ SkipAfter(c)
AppStep(a) == Submit(a) \/ MarkWrong(a)
SinkStep(p) == CheckDuplicate(p) \/ AppendRaises(p) \/ Store(p)

Next ==
    \/ \E c \in Calls : CallStep(c)
    \/ \E a \in Apps : AppStep(a)
    \/ \E p \in Procs : SinkStep(p)

Spec == Init /\ [][Next]_vars

-----------------------------------------------------------------------------
(* Properties.                                                             *)

TypeOK ==
    /\ stage \in [Procs -> {"idle", "appending", "storing", "running", "ran", "over"}]
    /\ \A p \in Procs : stage[p] # "idle" => \E r \in pending[p] : pending[p] = {r} /\ r.key = Key
    /\ outcome \in [Calls -> {"none", "fine", "error", "exception", "cancelled"}]
    /\ \A c \in CrewCalls : inflight[c] \subseteq {Action(c)}
    /\ stashed \subseteq CrewCalls /\ raised \subseteq Procs /\ faults \in 0..MaxFaults

Recorded(c) == \E i \in DOMAIN records : records[i] = Action(c)

\* A tool that ran has its record in the sink, however many calls overlap and
\* whichever appends raise: wrap_tool_call and run_json let none run unrecorded,
\* the hooks of CrewAI only when the append raised.
ToolsRecorded ==
    \A c \in Calls : outcome[c] # "none" => Recorded(c) \/ (c \in CrewCalls /\ c \in raised)

\* A correction stands behind the record it corrects.  An append that raises
\* between the record and its correction must not leave the correction alone.
CorrectionsRooted ==
    \A i \in DOMAIN records :
        records[i].link # NoLink =>
            \E j \in 1..(i - 1) : records[i].link = LinkTo(records[j])

\* The after hook of CrewAI ran, and knew its record.
Settled(c) == c \in CrewCalls => c \in stashed /\ inflight[c] = {}

\* The failures an adapter sees: of results those that say error, of exceptions
\* only AutoGen's wrapper, which a cancellation escapes, and CrewAI's context.
Failed(c) ==
    CASE AdapterOf[c] = "langchain" -> outcome[c] = "error"
      [] AdapterOf[c] = "autogen" -> outcome[c] \in {"error", "exception"}
      [] AdapterOf[c] = "crewai" -> outcome[c] \in {"error", "exception"}

\* When a call is over there is one check_failed correction of its action if it
\* failed, and none otherwise, whatever the other calls in flight did; only an
\* append that raised can be the reason for a missing one.
FailuresCorrected ==
    \A c \in Calls : stage[c] = "over" =>
        LET corrections == {i \in DOMAIN records :
                              /\ records[i].link = LinkTo(Action(c))
                              /\ records[i].body.trigger = "check_failed"}
        IN  Cardinality(corrections) = IF Failed(c) /\ Settled(c) /\ c \notin raised THEN 1 ELSE 0

\* "duplicate correctionId": the memory sink never holds an id twice, as long as
\* append is not called by two threads at once, which may both miss it.
NoDuplicates ==
    \A i, j \in DOMAIN records : records[i].id = records[j].id => i = j

\* "after a tool call: hashes the result": so say the adapters of LangChain and
\* CrewAI.  The sink has the hash of the result of a call that went well.
ResultsHashed ==
    \A c \in Calls \ Of("autogen") : stage[c] = "over" /\ outcome[c] = "fine" =>
        \E i \in DOMAIN records : records[i].id = ActionId(c)
                                  /\ "outputHash" \in records[i].body.hashes
==============================================================================
