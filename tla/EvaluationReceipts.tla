-------------------------- MODULE EvaluationReceipts --------------------------
(***************************************************************************)
(* Receipts of failed evaluations: the Inspect hook of                     *)
(* corrlog_inspect/hooks.py, which signs one for every failing sample, and *)
(* the ProofAgent bridge of corrlog_proofagent/__init__.py, which signs    *)
(* one for every gate that says review or block; the operator keeps both   *)
(* in one file.                                                            *)
(*                                                                         *)
(* Inspect constructs the hook when it loads its entry points and asks     *)
(* enabled() of the class before each event.  Both read the environment,   *)
(* which the process may change in between.  A handler has no await in it: *)
(* events of evals that run at the same time interleave between handlers.  *)
(***************************************************************************)
EXTENDS GateDecisions, FiniteSets

CONSTANTS
    Evals,        \* evaluations of the run
    Samples,      \* samples of an eval, epochs apart
    Scorers,      \* scorers of a sample
    Agents,       \* names an agent goes by in a receipt
    ModelOf,      \* the evaluated model of each eval
    PointerTo,    \* the reference "inspect:eval/sample" of each sample
    Gates,        \* results of gates the bridge is handed
    Seeds,        \* what CORRLOG_SIGNING_KEY may be
    MaxChanges,   \* bound: changes of the environment
    MaxGates      \* bound: results handed to the bridge

NoAgent == "none"
ASSUME AgentsAssumption ==
    /\ NoAgent \notin Agents
    /\ ModelOf \in [Evals -> Agents]
    /\ PointerTo \in [Evals \X Samples -> Agents]
ASSUME GatesAssumption == Gates \subseteq Results
ASSUME SeedsAssumption == Seeds \subseteq {"unset", "blank", "bad", "good"}
ASSUME BoundsAssumption == MaxChanges \in Nat /\ MaxGates \in Nat

VARIABLES
    env,          \* CORRLOG_SIGNING_KEY, CORRLOG_RECEIPTS_PATH, corrlog-core importable
    hook,         \* the constructed hook: its signer and its sink
    models,       \* _model_by_eval
    warned,       \* _sign_warned, _persist_warned
    errors,       \* lines logged at ERROR while samples end, by cause
    started,      \* history: evals whose task has started
    ended,        \* history: samples that have ended
    settled,      \* history: the environment is what it was at construction
    judged,       \* history: results handed to the bridge
    file,         \* the receipts
    changes       \* counted against the bound

vars == <<env, hook, models, warned, errors, started, ended, settled, judged, file, changes>>
ends == <<ended, errors, warned>>

Causes == {"sign", "persist"}
Environments ==
    [key : Seeds, path : {"unset", "blank", "set"}, core : BOOLEAN]
NoHook == [signer |-> "unborn", sink |-> "unborn"]

Receipt(e, s, agent, failing) ==
    [source |-> "inspect", eval |-> e, sample |-> s, agent |-> agent, says |-> failing]
GateReceipt(g) ==
    [source |-> "gate", eval |-> g, sample |-> g, agent |-> NoAgent, says |-> Outcome(g)]

-----------------------------------------------------------------------------
(* The hook and the bridge.                                                *)

Init ==
    /\ env \in Environments
    /\ hook = NoHook
    /\ models = [e \in Evals |-> NoAgent]
    /\ warned = [c \in Causes |-> FALSE]
    /\ errors = [c \in Causes |-> 0]
    /\ started = {} /\ ended = {} /\ judged = {}
    /\ settled = TRUE
    /\ file = <<>>
    /\ changes = 0

\* The process sets or unsets a variable.
Configure(key, path) ==
    /\ changes < MaxChanges
    /\ changes' = changes + 1
    /\ env' = [env EXCEPT !.key = key, !.path = path]
    /\ env' # env
    /\ settled' = (hook = NoHook)
    /\ UNCHANGED <<hook, models, started, judged, file, ends>>

\* A variant of the next definition with a plausible bug in it.
SignerUnparsed(v) == IF v.core THEN v.key ELSE "none"

\* load_private_key: base64url or hex of 32 bytes, stripped; all else raises.
Loadable(seed) == seed = "good"

\* What __init__ makes of the environment; blank values are taken as they are.
SignerFrom(v) ==
    IF v.key = "unset" \/ ~v.core THEN "none" ELSE IF Loadable(v.key) THEN "good" ELSE "bad"
SinkFrom(v) == IF v.path = "unset" \/ ~v.core THEN "none" ELSE "file"

\* __init__.
Construct ==
    /\ hook = NoHook
    /\ hook' = [signer |-> SignerFrom(env), sink |-> SinkFrom(env)]
    /\ UNCHANGED <<env, models, started, judged, settled, file, changes, ends>>

\* A variant of the next definition with a plausible bug in it.
EnabledByKey == env.key \notin {"unset", "blank"} /\ env.core

\* enabled: strips what it reads.
Enabled == env.key \notin {"unset", "blank"} /\ env.path = "set" /\ env.core

\* Inspect hands an event to the hook.
Delivered == hook # NoHook /\ Enabled

\* A variant of the next definition with a plausible bug in it.
TaskStartOne(e) ==
    /\ hook # NoHook
    /\ e \notin started
    /\ started' = started \cup {e}
    /\ models' = IF Delivered THEN [d \in Evals |-> ModelOf[e]] ELSE models
    /\ UNCHANGED <<env, hook, judged, settled, file, changes, ends>>

\* on_task_start.
TaskStart(e) ==
    /\ hook # NoHook
    /\ e \notin started
    /\ started' = started \cup {e}
    /\ models' = IF Delivered THEN [models EXCEPT ![e] = ModelOf[e]] ELSE models
    /\ UNCHANGED <<env, hook, judged, settled, file, changes, ends>>

\* The agent of a receipt: the model, or the sample itself when no start was seen.
AgentOf(e, s) == IF models[e] # NoAgent THEN models[e] ELSE PointerTo[<<e, s>>]

\* A variant of the next definition with a plausible bug in it.
LogEach(c) ==
    /\ errors' = [errors EXCEPT ![c] = @ + 1]
    /\ UNCHANGED warned

\* A failure is logged at ERROR the first time and at DEBUG from then on.
LogOnce(c) ==
    /\ errors' = IF warned[c] THEN errors ELSE [errors EXCEPT ![c] = @ + 1]
    /\ warned' = [warned EXCEPT ![c] = TRUE]

Quiet == UNCHANGED <<errors, warned>>

\* A variant of the next definition with a plausible bug in it.
AppendEach(e, s, failing) ==
    \E order \in [1..Cardinality(failing) -> failing] :
        /\ \A c \in failing : \E i \in DOMAIN order : order[i] = c
        /\ file' = file \o [i \in DOMAIN order |-> Receipt(e, s, AgentOf(e, s), {order[i]})]
        /\ Quiet

\* The sink keeps the receipt, or its append raises.
AppendReceipt(e, s, failing) ==
    \/ file' = Append(file, Receipt(e, s, AgentOf(e, s), failing)) /\ Quiet
    \/ LogOnce("persist") /\ UNCHANGED file

\* on_sample_end with the scorers that returned INCORRECT: a signer without a
\* usable key raises, and without a signer or a sink nothing is said.
Respond(e, s, failing) ==
    IF failing = {} \/ hook.signer = "none"
    THEN Quiet /\ UNCHANGED file
    ELSE IF hook.signer = "bad"
    THEN LogOnce("sign") /\ UNCHANGED file
    ELSE IF hook.sink = "none"
    THEN Quiet /\ UNCHANGED file
    ELSE AppendReceipt(e, s, failing)

\* A sample of a task that has started ends.
SampleEnd(e, s, failing) ==
    /\ e \in started
    /\ \A x \in ended : <<x.eval, x.sample>> # <<e, s>>
    /\ ended' = ended \cup {[eval |-> e, sample |-> s, failing |-> failing, seen |-> Delivered]}
    /\ IF Delivered THEN Respond(e, s, failing) ELSE Quiet /\ UNCHANGED file
    /\ UNCHANGED <<env, hook, models, started, judged, settled, changes>>

\* gate_to_acr and report_to_acr, and the operator who keeps what they return.
\* The metadata can be signed: a NaN in it would raise, and nothing be kept.
Judge(g) ==
    /\ Cardinality(judged) < MaxGates
    /\ g \notin judged
    /\ judged' = judged \cup {g}
    /\ file' = IF Outcome(g) \in {"review", "block"} THEN Append(file, GateReceipt(g)) ELSE file
    /\ UNCHANGED <<env, hook, models, started, settled, changes, ends>>

Next ==
    \/ \E key \in Seeds, path \in {"unset", "blank", "set"} : Configure(key, path)
    \/ Construct
    \/ \E e \in Evals : TaskStart(e)
    \/ \E e \in Evals, s \in Samples, failing \in SUBSET Scorers : SampleEnd(e, s, failing)
    \/ \E g \in Gates : Judge(g)
    \/ \E d \in Words \cup {Missing} : Judge(ReportResult(d))

Spec == Init /\ [][Next]_vars

-----------------------------------------------------------------------------
(* Properties.                                                             *)

Inspected == {i \in DOMAIN file : file[i].source = "inspect"}
IsReceiptOf(r, x) == r.source = "inspect" /\ r.eval = x.eval /\ r.sample = x.sample

\* The shape of the state.
TypeOK ==
    /\ env \in Environments
    /\ hook = NoHook \/ (hook.signer \in {"none", "bad", "good"} /\ hook.sink \in {"none", "file"})
    /\ models \in [Evals -> Agents \cup {NoAgent}]
    /\ warned \in [Causes -> BOOLEAN] /\ errors \in [Causes -> Nat]
    /\ started \subseteq Evals
    /\ \A x \in ended : x.eval \in started /\ x.sample \in Samples /\ x.failing \subseteq Scorers
    /\ \A i \in DOMAIN file : file[i].source \in {"inspect", "gate"}
    /\ settled \in BOOLEAN /\ changes \in 0..MaxChanges

\* Every inspect receipt is of one sample that failed while the hook was
\* enabled and names all scorers that failed it: one per failing sample, "not
\* one receipt per scorer".
OnePerSample ==
    /\ \A i \in Inspected : \E x \in ended :
         IsReceiptOf(file[i], x) /\ x.seen /\ x.failing # {} /\ file[i].says = x.failing
    /\ \A i, j \in Inspected :
         file[i].eval = file[j].eval /\ file[i].sample = file[j].sample => i = j

\* An enabled hook does not pass over a failing sample: it has a receipt, or
\* an ERROR says why receipts are missing.
Landed ==
    \A x \in ended :
        x.seen /\ x.failing # {} =>
            \/ \E i \in DOMAIN file : IsReceiptOf(file[i], x)
            \/ \E c \in Causes : errors[c] > 0

\* Landed holds as long as the environment stays what it was when the hook was
\* constructed.
NothingSilent == settled => Landed

\* One ERROR for each cause, however many samples meet it, and none without it.
ErrorsOnce == \A c \in Causes : errors[c] = IF warned[c] THEN 1 ELSE 0

\* A receipt names the model its own eval evaluated, also while other evals
\* run; only a sample whose task started unseen is named by its reference.
AgentIsModel ==
    \A i \in Inspected :
        LET r == file[i]
        IN  \/ r.agent = ModelOf[r.eval]
            \/ ~settled /\ r.agent = PointerTo[<<r.eval, r.sample>>]

\* The bridge signs for the results that state review or block, and for what
\* they state, wherever in the result it stands.
GateFaithful ==
    /\ \A i \in DOMAIN file \ Inspected :
         file[i].eval \in judged /\ file[i].says = Stated(file[i].eval)
    /\ \A g \in judged : Stated(g) \in {"review", "block"} =>
         \E i \in DOMAIN file \ Inspected : file[i].eval = g
    /\ \A i \in DOMAIN file \ Inspected : file[i].says \in {"review", "block"}
==============================================================================
