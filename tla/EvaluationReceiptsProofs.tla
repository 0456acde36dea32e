----------------------- MODULE EvaluationReceiptsProofs -----------------------
(***************************************************************************)
(* What receipts of failed evaluations can be relied on for, with any      *)
(* number of evals, samples, scorers, gates and changes of the             *)
(* environment.                                                            *)
(***************************************************************************)
EXTENDS EvaluationReceipts, TLAPS

\* Appending keeps what a sequence has and adds one position.
LEMMA AppendedFile ==
    ASSUME NEW S, NEW q \in Seq(S), NEW r \in S
    PROVE  /\ Append(q, r) \in Seq(S)
           /\ DOMAIN Append(q, r) = DOMAIN q \cup {Len(q) + 1}
           /\ Len(q) + 1 \notin DOMAIN q
           /\ Append(q, r)[Len(q) + 1] = r
           /\ \A i \in DOMAIN q : Append(q, r)[i] = q[i]
  OBVIOUS

-----------------------------------------------------------------------------
(* The inductive invariant.                                                *)

InspectReceipts ==
    [source : {"inspect"}, eval : Evals, sample : Samples, agent : Agents, says : SUBSET Scorers]
GateReceipts ==
    {GateReceipt(g) : g \in Gates \cup {ReportResult(d) : d \in Words \cup {Missing}}}
FileShape == file \in Seq(InspectReceipts \cup GateReceipts)

\* Nothing happens before the hook is there, and while the environment is what
\* it was then, the hook is what the environment says and has seen every start.
Constructed ==
    /\ hook = NoHook => started = {} /\ ended = {} /\ settled
    /\ settled /\ hook # NoHook =>
         hook = [signer |-> SignerFrom(env), sink |-> SinkFrom(env)]
    /\ \A e \in Evals : models[e] \in {NoAgent, ModelOf[e]}
    /\ settled /\ Enabled => \A e \in started : models[e] = ModelOf[e]

EvalInv ==
    /\ TypeOK /\ FileShape /\ Constructed
    /\ OnePerSample /\ NothingSilent /\ ErrorsOnce /\ AgentIsModel

\* The types of an inspect receipt and of a gate's.
LEMMA ReceiptShapes ==
    /\ \A e \in Evals, s \in Samples, a \in Agents, f \in SUBSET Scorers :
         /\ Receipt(e, s, a, f) \in InspectReceipts
         /\ Receipt(e, s, a, f).source = "inspect" /\ Receipt(e, s, a, f).eval = e
         /\ Receipt(e, s, a, f).sample = s /\ Receipt(e, s, a, f).agent = a
         /\ Receipt(e, s, a, f).says = f
    /\ \A g : GateReceipt(g).source = "gate"
  BY DEF Receipt, GateReceipt, InspectReceipts

\* Respond leaves one of two things behind a failing sample: its receipt and no
\* log, or no receipt; and the second without a log only where the hook has no
\* signer or no sink.
LEMMA RespondCases ==
    ASSUME NEW e, NEW s, NEW failing, Respond(e, s, failing)
    PROVE  \/ /\ file' = Append(file, Receipt(e, s, AgentOf(e, s), failing))
              /\ Quiet /\ failing # {}
           \/ file' = file /\ \E c \in Causes : LogOnce(c)
           \/ /\ file' = file /\ Quiet
              /\ failing = {} \/ hook.signer = "none" \/ hook.sink = "none"
  BY DEF Respond, AppendReceipt, Causes

\* The log of ERROR lines holds one line for each cause that was met.
LEMMA LoggedOnce ==
    ASSUME TypeOK, ErrorsOnce, NEW c \in Causes, LogOnce(c)
    PROVE  /\ warned' \in [Causes -> BOOLEAN] /\ errors' \in [Causes -> Nat]
           /\ errors'[c] > 0 /\ ErrorsOnce'
<1>1. /\ warned \in [Causes -> BOOLEAN] /\ errors \in [Causes -> Nat]
      /\ \A d \in Causes : errors[d] = IF warned[d] THEN 1 ELSE 0
  BY DEF TypeOK, ErrorsOnce
<1>2. warned' = [warned EXCEPT ![c] = TRUE]
  BY DEF LogOnce
<1>3. \A d \in Causes : warned'[d] = IF d = c THEN TRUE ELSE warned[d]
  BY <1>1, <1>2
<1>4. CASE warned[c]
  <2>1. errors' = errors
    BY <1>4 DEF LogOnce
  <2>2. QED
    BY <1>1, <1>2, <1>3, <1>4, <2>1 DEF ErrorsOnce
<1>5. CASE ~warned[c]
  <2>1. errors' = [errors EXCEPT ![c] = errors[c] + 1]
    BY <1>5 DEF LogOnce
  <2>2. \A d \in Causes : errors'[d] = IF d = c THEN 1 ELSE errors[d]
    BY <1>1, <1>5, <2>1
  <2>3. errors' \in [Causes -> Nat]
    BY <1>1, <2>1
  <2>4. \A d \in Causes : errors'[d] = IF warned'[d] THEN 1 ELSE 0
    BY <1>1, <1>3, <2>2
  <2>5. warned' \in [Causes -> BOOLEAN]
    BY <1>1, <1>2
  <2>6. QED
    BY <2>2, <2>3, <2>4, <2>5 DEF ErrorsOnce
<1>6. QED
  BY <1>4, <1>5

\* What the properties say of the receipts is kept while the file and the
\* samples stay.
LEMMA SameFile ==
    ASSUME EvalInv, file' = file, ended' = ended, UNCHANGED <<errors, warned>>, settled' => settled
    PROVE  FileShape' /\ OnePerSample' /\ NothingSilent' /\ ErrorsOnce' /\ AgentIsModel'
<1>1. FileShape' /\ OnePerSample'
  BY DEF EvalInv, FileShape, OnePerSample, Inspected, IsReceiptOf
<1>2. NothingSilent' /\ ErrorsOnce'
  BY DEF EvalInv, NothingSilent, Landed, ErrorsOnce, IsReceiptOf
<1>3. AgentIsModel'
  BY DEF EvalInv, AgentIsModel, Inspected
<1>4. QED
  BY <1>1, <1>2, <1>3

\* A gate's receipt is not one of the hook's: it bears on none of their properties.
LEMMA JudgePreserves ==
    ASSUME EvalInv, NEW g \in Gates \cup {ReportResult(d) : d \in Words \cup {Missing}}, Judge(g)
    PROVE  EvalInv'
<1>1. /\ UNCHANGED <<env, hook, models, started, settled, changes, ended, errors, warned>>
      /\ file' = file \/ file' = Append(file, GateReceipt(g))
  BY DEF Judge, ends
<1>2. TypeOK' /\ Constructed'
  <2>1. Constructed'
    BY <1>1 DEF EvalInv, Constructed, Enabled
  <2>2. CASE file' = file
    BY <1>1, <2>1, <2>2 DEF EvalInv, TypeOK
  <2>3. CASE file' = Append(file, GateReceipt(g))
    <3>1. \A i \in DOMAIN file' : file'[i].source \in {"inspect", "gate"}
      <4>1. GateReceipt(g) \in InspectReceipts \cup GateReceipts
        BY DEF GateReceipts
      <4>2. QED
        BY <2>3, <4>1, AppendedFile, ReceiptShapes DEF EvalInv, TypeOK, FileShape
    <3>2. QED
      BY <1>1, <2>1, <3>1 DEF EvalInv, TypeOK
  <2>4. QED
    BY <1>1, <2>1, <2>2, <2>3
<1>3. CASE file' = file
  BY <1>1, <1>2, <1>3, SameFile DEF EvalInv
<1>4. CASE file' = Append(file, GateReceipt(g))
  <2> DEFINE r == GateReceipt(g)
             n == Len(file) + 1
  <2>1. r \in InspectReceipts \cup GateReceipts /\ r.source = "gate"
    BY ReceiptShapes DEF GateReceipts
  <2>2. file' = Append(file, r)
    BY <1>4
  <2> HIDE DEF r
  <2>3. /\ FileShape' /\ DOMAIN file' = DOMAIN file \cup {n} /\ n \notin DOMAIN file
        /\ file'[n] = r /\ \A i \in DOMAIN file : file'[i] = file[i]
    BY <2>1, <2>2, AppendedFile DEF EvalInv, FileShape
  <2> HIDE DEF n
  <2>4. Inspected' = Inspected /\ \A i \in Inspected : file'[i] = file[i]
    BY <2>1, <2>3 DEF Inspected
  <2>5. OnePerSample' /\ AgentIsModel'
    <3>1. OnePerSample'
      BY <1>1, <2>4 DEF EvalInv, OnePerSample, IsReceiptOf
    <3>2. AgentIsModel'
      BY <1>1, <2>4 DEF EvalInv, AgentIsModel
    <3>3. QED
      BY <3>1, <3>2
  <2>6. NothingSilent' /\ ErrorsOnce'
    BY <1>1, <2>3 DEF EvalInv, NothingSilent, Landed, ErrorsOnce, IsReceiptOf
  <2>7. QED
    BY <1>2, <2>3, <2>5, <2>6 DEF EvalInv
<1>5. QED
  BY <1>1, <1>3, <1>4

\* A change of the environment, the construction of the hook and the start of a
\* task write nothing.
LEMMA SetupPreserves ==
    ASSUME EvalInv,
           \/ \E key \in Seeds, path \in {"unset", "blank", "set"} :
                Configure(key, path)
           \/ Construct
           \/ \E e \in Evals : TaskStart(e)
    PROVE  EvalInv'
<1>1. UNCHANGED <<file, errors, warned, ended>> /\ (settled' => settled)
  <2>1. UNCHANGED <<file, errors, warned, ended>>
    BY DEF Configure, Construct, TaskStart, ends
  <2>2. hook = NoHook => settled
    BY DEF EvalInv, Constructed
  <2>3. ASSUME NEW key, NEW path, Configure(key, path)
        PROVE  settled' => settled
    <3>1. settled' = (hook = NoHook)
      BY <2>3 DEF Configure
    <3>2. QED
      BY <2>2, <3>1, Zenon
  <2>4. ASSUME Construct
        PROVE  settled' => settled
    BY <2>4 DEF Construct
  <2>5. ASSUME NEW e, TaskStart(e)
        PROVE  settled' => settled
    BY <2>5 DEF TaskStart
  <2>6. QED
    BY <2>1, <2>3, <2>4, <2>5
<1>2. FileShape' /\ OnePerSample' /\ NothingSilent' /\ ErrorsOnce' /\ AgentIsModel'
  BY <1>1, SameFile
<1>3. ASSUME NEW key \in Seeds, NEW path \in {"unset", "blank", "set"},
             Configure(key, path)
      PROVE  TypeOK' /\ Constructed'
  <2>1. /\ UNCHANGED <<hook, models, started>> /\ changes < MaxChanges /\ changes' = changes + 1
        /\ settled' = (hook = NoHook) /\ env' = [env EXCEPT !.key = key, !.path = path]
    BY <1>3 DEF Configure
  <2>2. env' \in Environments
    <3>1. env \in Environments
      BY DEF EvalInv, TypeOK
    <3>2. QED
      BY <2>1, <3>1 DEF Environments
  <2>3. settled' \in BOOLEAN
    BY <2>1, Zenon
  <2>4. TypeOK'
    <3>1. changes' \in 0..MaxChanges
      BY <2>1, BoundsAssumption DEF EvalInv, TypeOK
    <3>2. QED
      BY <1>1, <2>1, <2>2, <2>3, <3>1 DEF EvalInv, TypeOK
  <2>5. settled' => hook = NoHook
    BY <2>1, Zenon
  <2>6. hook = NoHook => settled'
    BY <2>1, Zenon
  <2>7. Constructed'
    BY <1>1, <2>1, <2>5, <2>6 DEF EvalInv, Constructed
  <2>8. QED
    BY <2>4, <2>7
<1>4. ASSUME Construct
      PROVE  TypeOK' /\ Constructed'
  <2>1. /\ UNCHANGED <<env, models, started, judged, settled, changes>>
        /\ hook = NoHook /\ hook' = [signer |-> SignerFrom(env), sink |-> SinkFrom(env)]
    BY <1>4 DEF Construct
  <2>2. hook'.signer \in {"none", "bad", "good"} /\ hook'.sink \in {"none", "file"}
    BY <2>1 DEF SignerFrom, Loadable, SinkFrom
  <2>3. TypeOK'
    BY <1>1, <2>1, <2>2 DEF EvalInv, TypeOK
  <2>4. hook' # NoHook
    BY <2>2 DEF NoHook
  <2>5. Constructed'
    BY <1>1, <2>1, <2>4 DEF EvalInv, Constructed, Enabled, SignerFrom, Loadable, SinkFrom
  <2>6. QED
    BY <2>3, <2>5
<1>5. ASSUME NEW e \in Evals, TaskStart(e)
      PROVE  TypeOK' /\ Constructed'
  <2>1. /\ UNCHANGED <<env, hook, judged, settled, changes>>
        /\ hook # NoHook /\ started' = started \cup {e}
        /\ models' = IF Delivered THEN [models EXCEPT ![e] = ModelOf[e]] ELSE models
    BY <1>5 DEF TaskStart
  <2>2. /\ models \in [Evals -> Agents \cup {NoAgent}] /\ ModelOf[e] \in Agents
        /\ \A d \in Evals : models[d] \in {NoAgent, ModelOf[d]}
    BY AgentsAssumption DEF EvalInv, TypeOK, Constructed
  <2>3. /\ models' \in [Evals -> Agents \cup {NoAgent}]
        /\ \A d \in Evals : models'[d] = IF d = e /\ Delivered THEN ModelOf[e] ELSE models[d]
    BY <2>1, <2>2
  <2>4. TypeOK'
    BY <1>1, <2>1, <2>3 DEF EvalInv, TypeOK
  <2>5. Constructed'
    <3>1. \A d \in Evals : models'[d] \in {NoAgent, ModelOf[d]}
      BY <2>2, <2>3
    <3>2. settled' /\ Enabled' => \A d \in started' : models'[d] = ModelOf[d]
      BY <2>1, <2>3 DEF EvalInv, TypeOK, Constructed, Enabled, Delivered
    <3>3. QED
      BY <1>1, <2>1, <3>1, <3>2 DEF EvalInv, Constructed, SignerFrom, Loadable, SinkFrom
  <2>6. QED
    BY <2>4, <2>5
<1>6. QED
  BY <1>2, <1>3, <1>4, <1>5 DEF EvalInv

\* The end of a sample: what Respond leaves behind it.
LEMMA EndPreserves ==
    ASSUME EvalInv, NEW e \in Evals, NEW s \in Samples, NEW failing \in SUBSET Scorers,
           SampleEnd(e, s, failing)
    PROVE  EvalInv'
<1> DEFINE x == [eval |-> e, sample |-> s, failing |-> failing, seen |-> Delivered]
           r == Receipt(e, s, AgentOf(e, s), failing)
           n == Len(file) + 1
<1>1. /\ UNCHANGED <<env, hook, models, started, judged, settled, changes>>
      /\ e \in started /\ ended' = ended \cup {x}
      /\ \A y \in ended : <<y.eval, y.sample>> # <<e, s>>
      /\ IF Delivered THEN Respond(e, s, failing) ELSE Quiet /\ UNCHANGED file
  BY DEF SampleEnd
<1>2. /\ x.eval = e /\ x.sample = s /\ x.failing = failing /\ x.seen = Delivered
  OBVIOUS
<1>3. hook # NoHook
  BY <1>1 DEF EvalInv, Constructed
<1>4. \/ /\ Delivered /\ file' = Append(file, r)
         /\ Quiet /\ failing # {}
      \/ file' = file /\ \E c \in Causes : LogOnce(c)
      \/ /\ file' = file /\ Quiet
         /\ ~Delivered \/ failing = {} \/ hook.signer = "none" \/ hook.sink = "none"
  BY <1>1, RespondCases
<1>5. AgentOf(e, s) \in Agents /\ AgentOf(e, s) \in {ModelOf[e], PointerTo[<<e, s>>]}
  BY AgentsAssumption DEF AgentOf, EvalInv, Constructed
<1>6. settled /\ Delivered => AgentOf(e, s) = ModelOf[e]
  BY <1>1, AgentsAssumption DEF AgentOf, EvalInv, Constructed, Delivered
<1>7. r \in InspectReceipts /\ r.source = "inspect" /\ r.eval = e /\ r.sample = s
      /\ r.agent = AgentOf(e, s) /\ r.says = failing
  BY <1>5, ReceiptShapes
<1>8. settled /\ Delivered => hook.signer # "none" /\ hook.sink # "none"
  BY <1>3 DEF EvalInv, Constructed, Delivered, Enabled, SignerFrom, Loadable, SinkFrom
<1> HIDE DEF x, r
<1>9. Constructed'
  BY <1>1, <1>3 DEF EvalInv, Constructed, Enabled, SignerFrom, Loadable, SinkFrom
<1>10. file \in Seq(InspectReceipts \cup GateReceipts)
  BY DEF EvalInv, FileShape
<1>11. ASSUME file' = file, ErrorsOnce', warned' \in [Causes -> BOOLEAN], errors' \in [Causes -> Nat],
              \A c \in Causes : errors[c] > 0 => errors'[c] > 0,
              settled /\ Delivered /\ failing # {} => \E c \in Causes : errors'[c] > 0
       PROVE  EvalInv'
  <2>1. TypeOK'
    BY <1>1, <1>2, <1>11 DEF EvalInv, TypeOK
  <2>2. FileShape' /\ AgentIsModel'
    BY <1>1, <1>11 DEF EvalInv, FileShape, AgentIsModel, Inspected
  <2>3. OnePerSample'
    BY <1>1, <1>11 DEF EvalInv, OnePerSample, Inspected, IsReceiptOf
  <2>4. NothingSilent'
    <3> SUFFICES ASSUME settled, NEW y \in ended', y.seen, y.failing # {}
                 PROVE  \/ \E i \in DOMAIN file : IsReceiptOf(file[i], y)
                        \/ \E c \in Causes : errors'[c] > 0
      BY <1>1, <1>11 DEF NothingSilent, Landed, IsReceiptOf
    <3>1. CASE y \in ended
      BY <1>11, <3>1 DEF EvalInv, NothingSilent, Landed
    <3>2. CASE y = x
      BY <1>2, <1>11, <3>2
    <3>3. QED
      BY <1>1, <3>1, <3>2
  <2>5. QED
    BY <1>9, <1>11, <2>1, <2>2, <2>3, <2>4 DEF EvalInv
<1>12. CASE file' = file /\ Quiet
            /\ (~Delivered \/ failing = {} \/ hook.signer = "none" \/ hook.sink = "none")
  BY <1>8, <1>11, <1>12 DEF Quiet, EvalInv, TypeOK, ErrorsOnce
<1>13. CASE file' = file /\ \E c \in Causes : LogOnce(c)
  <2>1. PICK c \in Causes : LogOnce(c)
    BY <1>13
  <2>2. /\ warned' \in [Causes -> BOOLEAN] /\ errors' \in [Causes -> Nat]
        /\ errors'[c] > 0 /\ ErrorsOnce'
    BY <2>1, LoggedOnce DEF EvalInv
  <2>3. \A d \in Causes : errors[d] > 0 => errors'[d] > 0
    BY <2>1 DEF LogOnce, EvalInv, TypeOK
  <2>4. QED
    BY <1>11, <1>13, <2>2, <2>3
<1>14. CASE Delivered /\ file' = Append(file, r) /\ Quiet /\ failing # {}
  <2>1. /\ file' \in Seq(InspectReceipts \cup GateReceipts)
        /\ DOMAIN file' = DOMAIN file \cup {n} /\ n \notin DOMAIN file
        /\ file'[n] = r /\ \A i \in DOMAIN file : file'[i] = file[i]
    BY <1>7, <1>10, <1>14, AppendedFile
  <2> HIDE DEF n
  <2>2. Inspected' = Inspected \cup {n}
    BY <1>7, <2>1 DEF Inspected
  <2>3. TypeOK'
    BY <1>1, <1>2, <1>7, <1>14, <2>1 DEF EvalInv, TypeOK, Quiet
  <2>4. FileShape' /\ ErrorsOnce'
    BY <1>14, <2>1 DEF EvalInv, FileShape, ErrorsOnce, Quiet
  <2>5. AgentIsModel'
    <3>1. \/ r.agent = ModelOf[r.eval]
          \/ ~settled /\ r.agent = PointerTo[<<r.eval, r.sample>>]
      BY <1>5, <1>6, <1>7, <1>14
    <3>2. \A i \in Inspected : i \in DOMAIN file
      BY DEF Inspected
    <3>3. QED
      BY <1>1, <2>1, <2>2, <3>1, <3>2 DEF EvalInv, AgentIsModel
  <2>6. \A i \in Inspected : <<file[i].eval, file[i].sample>> # <<e, s>>
    BY <1>1 DEF EvalInv, OnePerSample, IsReceiptOf
  <2>7. OnePerSample'
    <3>1. ASSUME NEW i \in Inspected'
          PROVE  \E y \in ended' :
                   IsReceiptOf(file'[i], y) /\ y.seen /\ y.failing # {} /\ file'[i].says = y.failing
      <4>1. CASE i \in Inspected
        BY <1>1, <2>1, <4>1 DEF EvalInv, OnePerSample, Inspected
      <4>2. CASE i = n
        <5>1. IsReceiptOf(file'[i], x)
          BY <1>2, <1>7, <2>1, <4>2 DEF IsReceiptOf
        <5>2. x.seen /\ x.failing # {} /\ file'[i].says = x.failing
          BY <1>2, <1>7, <1>14, <2>1, <4>2, Zenon
        <5>3. QED
          BY <1>1, <5>1, <5>2
      <4>3. QED
        BY <2>2, <4>1, <4>2
    <3>2. ASSUME NEW i \in Inspected', NEW j \in Inspected',
                 file'[i].eval = file'[j].eval, file'[i].sample = file'[j].sample
          PROVE  i = j
      <4>1. Inspected \subseteq DOMAIN file
        BY DEF Inspected
      <4>2. CASE i \in Inspected /\ j \in Inspected
        BY <2>1, <3>2, <4>1, <4>2 DEF EvalInv, OnePerSample
      <4>3. CASE i = n \/ j = n
        BY <1>7, <2>1, <2>2, <2>6, <3>2, <4>1, <4>3
      <4>4. QED
        BY <2>2, <4>2, <4>3
    <3>3. QED
      BY <3>1, <3>2 DEF OnePerSample
  <2>8. NothingSilent'
    <3> SUFFICES ASSUME settled, NEW y \in ended', y.seen, y.failing # {}
                 PROVE  \/ \E i \in DOMAIN file' : IsReceiptOf(file'[i], y)
                        \/ \E c \in Causes : errors[c] > 0
      BY <1>1, <1>14 DEF NothingSilent, Landed, Quiet
    <3>1. CASE y \in ended
      BY <2>1, <3>1 DEF EvalInv, NothingSilent, Landed
    <3>2. CASE y = x
      BY <1>2, <1>7, <2>1, <3>2 DEF IsReceiptOf
    <3>3. QED
      BY <1>1, <3>1, <3>2
  <2>9. QED
    BY <1>9, <2>3, <2>4, <2>5, <2>7, <2>8 DEF EvalInv
<1>15. QED
  BY <1>4, <1>12, <1>13, <1>14

-----------------------------------------------------------------------------
(* The theorems.                                                           *)

LEMMA EvalInit == Init => EvalInv
<1> SUFFICES ASSUME Init PROVE EvalInv
  OBVIOUS
<1>1. /\ env \in Environments /\ hook = NoHook /\ models = [e \in Evals |-> NoAgent]
      /\ warned = [c \in Causes |-> FALSE] /\ errors = [c \in Causes |-> 0]
      /\ started = {} /\ ended = {} /\ file = <<>> /\ changes = 0
  BY DEF Init
<1>2. settled = TRUE
  BY DEF Init
<1>3. TypeOK
  <2>1. settled \in BOOLEAN
    BY <1>2, Zenon
  <2>2. warned \in [Causes -> BOOLEAN] /\ errors \in [Causes -> Nat]
    BY <1>1
  <2>3. QED
    BY <1>1, <2>1, <2>2, BoundsAssumption DEF TypeOK
<1>4. FileShape /\ OnePerSample /\ AgentIsModel
  BY <1>1 DEF FileShape, OnePerSample, AgentIsModel, Inspected
<1>5. Constructed
  BY <1>1, <1>2 DEF Constructed
<1>6. NothingSilent /\ ErrorsOnce
  BY <1>1 DEF NothingSilent, Landed, ErrorsOnce
<1>7. QED
  BY <1>3, <1>4, <1>5, <1>6 DEF EvalInv

LEMMA EvalStep == EvalInv /\ [Next]_vars => EvalInv'
<1> SUFFICES ASSUME EvalInv, [Next]_vars PROVE EvalInv'
  OBVIOUS
<1>1. CASE \/ \E key \in Seeds, path \in {"unset", "blank", "set"} :
                Configure(key, path)
           \/ Construct
           \/ \E e \in Evals : TaskStart(e)
  BY <1>1, SetupPreserves
<1>2. CASE \E e \in Evals, s \in Samples, failing \in SUBSET Scorers : SampleEnd(e, s, failing)
  BY <1>2, EndPreserves
<1>3. CASE \/ \E g \in Gates : Judge(g)
           \/ \E d \in Words \cup {Missing} : Judge(ReportResult(d))
  BY <1>3, JudgePreserves
<1>4. CASE UNCHANGED vars
  <2>1. UNCHANGED <<env, hook, models, warned, errors, started, ended, settled, file, changes>>
    BY <1>4 DEF vars
  <2>2. TypeOK' /\ Constructed'
    BY <2>1 DEF EvalInv, TypeOK, Constructed, Enabled, SignerFrom, Loadable, SinkFrom
  <2>3. QED
    BY <2>1, <2>2, SameFile DEF EvalInv
<1>5. QED
  BY <1>1, <1>2, <1>3, <1>4 DEF Next

LEMMA EvalInvariant == Spec => []EvalInv
  BY EvalInit, EvalStep, PTL DEF Spec

-----------------------------------------------------------------------------
(* The loop over the alternatives.                                         *)

\* The body of the loop.
Keep(d, a) == IF Readable(d) \/ a = NotADict THEN d ELSE a

\* What f must be to be the loop over the entries at a set of places.
Loop(g, f) ==
    f = [s \in SUBSET (1..3) |->
           IF s = {} THEN Missing ELSE Keep(f[s \ {Max(s)}], g.alternatives[Max(s)])]

\* What it is: each entry has its turn, in order.
Turn(g, i, s, d) == IF i \in s THEN Keep(d, g.alternatives[i]) ELSE d
Turns(g) ==
    [s \in SUBSET (1..3) |-> Turn(g, 3, s, Turn(g, 2, s, Turn(g, 1, s, Missing)))]

\* The greatest of some places.
LEMMA GreatestPlace ==
    ASSUME NEW s \in SUBSET (1..3), NEW i \in s, \A j \in s : j <= i
    PROVE  Max(s) = i
<1>1. \A m \in s : (\A j \in s : m >= j) => m = i
  OBVIOUS
<1>2. i \in s /\ \A j \in s : i >= j
  OBVIOUS
<1>3. QED
  BY <1>1, <1>2 DEF Max

LEMMA TurnsLoop == ASSUME NEW g PROVE Loop(g, Turns(g))
<1>1. ASSUME NEW s \in SUBSET (1..3), s # {}
      PROVE  Turns(g)[s] = Keep(Turns(g)[s \ {Max(s)}], g.alternatives[Max(s)])
  <2> DEFINE T(i, t, d) == Turn(g, i, t, d)
  <2>0. \A t \in SUBSET (1..3) : Turns(g)[t] = T(3, t, T(2, t, T(1, t, Missing)))
    BY DEF Turns
  <2>1. CASE 3 \in s
    <3>1. Max(s) = 3
      BY <2>1, GreatestPlace
    <3>2. T(3, s \ {3}, T(2, s \ {3}, T(1, s \ {3}, Missing))) = T(2, s, T(1, s, Missing))
      BY DEF Turn
    <3>3. QED
      BY <2>0, <2>1, <3>1, <3>2 DEF Turn
  <2>2. CASE 3 \notin s /\ 2 \in s
    <3>1. Max(s) = 2
      BY <2>2, GreatestPlace
    <3>2. T(3, s \ {2}, T(2, s \ {2}, T(1, s \ {2}, Missing))) = T(1, s, Missing)
      BY <2>2 DEF Turn
    <3>3. QED
      BY <2>0, <2>2, <3>1, <3>2 DEF Turn
  <2>3. CASE 3 \notin s /\ 2 \notin s
    <3>0. \A i \in s : i = 1
      BY <2>3
    <3>1. s = {1} /\ s \ {1} = {}
      BY <1>1, <3>0
    <3>2. Max(s) = 1
      BY <3>1, GreatestPlace
    <3>3. QED
      BY <2>0, <3>1, <3>2 DEF Turn
  <2>4. QED
    BY <2>1, <2>2, <2>3
<1>2. Turns(g)[{}] = Missing
  BY DEF Turns, Turn
<1>3. QED
  BY <1>1, <1>2 DEF Loop, Turns

\* The loop has the first entry, then the second, then the third.
LEMMA AlternativeInTurn ==
    ASSUME NEW g \in Results
    PROVE  Alternative(g) =
             Keep(Keep(Keep(Missing, g.alternatives[1]), g.alternatives[2]), g.alternatives[3])
<1>1. Alternative(g) = (CHOOSE f : Loop(g, f))[1..3]
  <2>1. DOMAIN g.alternatives = 1..3
    BY DEF Results
  <2>2. QED
    BY <2>1 DEF Alternative, FoldLeft, MapThenFoldSet, Keep, Loop
<1>2. PICK f : f = (CHOOSE h : Loop(g, h)) /\ Loop(g, f)
  BY TurnsLoop
<1>3. \A s \in SUBSET (1..3) :
        f[s] = IF s = {} THEN Missing ELSE Keep(f[s \ {Max(s)}], g.alternatives[Max(s)])
  BY <1>2 DEF Loop
<1>4. Max(1..3) = 3 /\ Max(1..2) = 2 /\ Max(1..1) = 1
  BY GreatestPlace
<1>5. (1..3) \ {3} = 1..2 /\ (1..2) \ {2} = 1..1 /\ (1..1) \ {1} = {}
  OBVIOUS
<1>6. f[{}] = Missing
  BY <1>3
<1>7. f[1..1] = Keep(f[{}], g.alternatives[1])
  <2>1. 1..1 \in SUBSET (1..3) /\ 1..1 # {}
    OBVIOUS
  <2>2. QED
    BY <1>3, <1>4, <1>5, <2>1
<1>8. f[1..2] = Keep(f[1..1], g.alternatives[2])
  <2>1. 1..2 \in SUBSET (1..3) /\ 1..2 # {}
    OBVIOUS
  <2>2. QED
    BY <1>3, <1>4, <1>5, <2>1
<1>9. f[1..3] = Keep(f[1..2], g.alternatives[3])
  <2>1. 1..3 \in SUBSET (1..3) /\ 1..3 # {}
    OBVIOUS
  <2>2. QED
    BY <1>3, <1>4, <1>5, <2>1
<1>10. QED
  BY <1>1, <1>2, <1>6, <1>7, <1>8, <1>9

Signable == {"review", "block"}

\* The loop finds the first alternative that can be read, and nothing to sign
\* for when there is none.
LEMMA FirstReadable ==
    ASSUME NEW g \in Results, g.dict, g.decision = Missing
    PROVE  LET a == Alternative(g)
           IN  Stated(g) = Normal(a) \/ (Stated(g) = Missing /\ ~Readable(a))
<1> DEFINE a == g.alternatives
           found == {i \in 1..3 : g.dict /\ a[i] \in Words \ {""}}
<1>1. \A i \in 1..3 : a[i] \in Words \cup {Missing, NotADict}
  BY DEF Results
<1>2. \A i \in 1..3 : i \in found <=> Readable(a[i]) /\ a[i] # NotADict
  <2> TAKE i \in 1..3
  <2>1. i \in found <=> a[i] \in Words \ {""}
    OBVIOUS
  <2>2. \A w \in Words \cup {Missing, NotADict} :
          w \in Words \ {""} <=> Readable(w) /\ w # NotADict
    BY DEF Readable, Words, Missing, NotADict
  <2>3. QED
    BY <1>1, <2>1, <2>2
<1>3. Alternative(g) = Keep(Keep(Keep(Missing, a[1]), a[2]), a[3])
  BY AlternativeInTurn
<1>4. \A i \in found : (\A j \in found : i <= j) => Stated(g) = Normal(a[i])
  <2> TAKE i \in found
  <2> HAVE \A j \in found : i <= j
  <2>1. \A k \in found : (\A j \in found : k <= j) => k = i
    <3>1. found \subseteq 1..3
      OBVIOUS
    <3> HIDE DEF found
    <3>2. QED
      BY <3>1
  <2>2. (CHOOSE k \in found : \A j \in found : k <= j) = i
    BY <2>1
  <2>3. found # {}
    OBVIOUS
  <2>4. QED
    BY <2>2, <2>3 DEF Stated
<1>5. found = {} => Stated(g) = Missing
  BY DEF Stated
<1>6. found \subseteq 1..3
  OBVIOUS
<1>0. Missing # NotADict /\ ~Readable(Missing) /\ 1 \in 1..3 /\ 2 \in 1..3 /\ 3 \in 1..3
  BY DEF Missing, NotADict, Readable
<1> HIDE DEF found, a
<1>7. CASE 1 \in found
  <2>1. Stated(g) = Normal(a[1])
    <3>1. \A j \in found : 1 <= j
      BY <1>6, <1>7
    <3>2. QED
      BY <1>4, <1>7, <3>1
  <2>2. Alternative(g) = a[1]
    BY <1>0, <1>2, <1>3, <1>7 DEF Keep
  <2>3. QED
    BY <2>1, <2>2
<1>8. CASE 1 \notin found /\ 2 \in found
  <2>1. Stated(g) = Normal(a[2])
    <3>1. \A j \in found : 2 <= j
      BY <1>6, <1>8
    <3>2. QED
      BY <1>4, <1>8, <3>1
  <2>2. Alternative(g) = a[2]
    BY <1>0, <1>2, <1>3, <1>8 DEF Keep
  <2>3. QED
    BY <2>1, <2>2
<1>9. CASE 1 \notin found /\ 2 \notin found /\ 3 \in found
  <2>1. Stated(g) = Normal(a[3])
    <3>1. \A j \in found : 3 <= j
      BY <1>6, <1>9
    <3>2. QED
      BY <1>4, <1>9, <3>1
  <2>2. Alternative(g) = a[3]
    BY <1>0, <1>2, <1>3, <1>9 DEF Keep
  <2>3. QED
    BY <2>1, <2>2
<1>10. CASE 1 \notin found /\ 2 \notin found /\ 3 \notin found
  <2>1. Stated(g) = Missing
    BY <1>5, <1>6, <1>10
  <2>2. ~Readable(Alternative(g))
    BY <1>0, <1>2, <1>3, <1>10 DEF Keep
  <2>3. QED
    BY <2>1, <2>2
<1>11. QED
  BY <1>7, <1>8, <1>9, <1>10

\* The bridge signs for what the result states.
LEMMA OutcomeStated ==
    ASSUME NEW g \in Results
    PROVE  /\ Outcome(g) \in Signable => Outcome(g) = Stated(g)
           /\ Stated(g) \in Signable => Outcome(g) = Stated(g)
<1>1. CASE g.decision # Missing
  <2>1. Decision(g) = Stated(g)
    BY <1>1 DEF Decision, Stated
  <2>2. QED
    BY <2>1 DEF Outcome, Signable
<1>2. CASE g.decision = Missing /\ ~g.dict
  <2>1. Decision(g) = Missing /\ Stated(g) = Missing
    BY <1>2 DEF Decision, Stated, Normal, Missing
  <2>2. QED
    BY <2>1 DEF Outcome, Signable, Missing
<1>3. CASE g.decision = Missing /\ g.dict
  <2>1. Decision(g) = Normal(Alternative(g))
    BY <1>3 DEF Decision
  <2>2. \A d : ~Readable(d) => Normal(d) = d /\ d \notin Signable \cup {"pass"}
    BY DEF Readable, Normal, Missing, Signable
  <2>3. CASE Stated(g) = Normal(Alternative(g))
    BY <2>1, <2>3 DEF Outcome, Signable
  <2>4. CASE Stated(g) = Missing /\ ~Readable(Alternative(g))
    BY <2>1, <2>2, <2>4 DEF Outcome, Signable, Missing
  <2>5. QED
    BY <1>3, <2>3, <2>4, FirstReadable
<1>4. g.dict \in BOOLEAN
  BY DEF Results
<1>5. QED
  BY <1>1, <1>2, <1>3

-----------------------------------------------------------------------------
(* The bridge's receipts.                                                  *)

\* What the bridge is handed.
Handed == Gates \cup {ReportResult(d) : d \in Words \cup {Missing}}

\* A receipt that is not the hook's is of a result that was judged, and a result
\* that calls for one has it.
IsGateReceipt(f, i) == i \in DOMAIN f /\ f[i].source # "inspect"
GateInv ==
    /\ judged \subseteq Handed
    /\ \A i : IsGateReceipt(file, i) =>
         \E g \in judged : file[i] = GateReceipt(g) /\ Outcome(g) \in Signable
    /\ \A g \in judged : Outcome(g) \in Signable =>
         \E i : IsGateReceipt(file, i) /\ file[i] = GateReceipt(g)

LEMMA HandedResults == Handed \subseteq Results
<1>1. \A d \in Words \cup {Missing} : ReportResult(d) \in Results
  BY DEF ReportResult, Results
<1>2. QED
  BY <1>1, GatesAssumption DEF Handed

\* Receipts of the hook are not among those of the bridge.
LEMMA GateKept ==
    ASSUME EvalInv, GateInv, judged' = judged, NEW r \in InspectReceipts \cup GateReceipts,
           file' = Append(file, r), r.source = "inspect"
    PROVE  GateInv'
<1>1. /\ DOMAIN file' = DOMAIN file \cup {Len(file) + 1}
      /\ file'[Len(file) + 1] = r /\ \A i \in DOMAIN file : file'[i] = file[i]
  BY AppendedFile DEF EvalInv, FileShape
<1>2. \A i : IsGateReceipt(file', i) <=> IsGateReceipt(file, i)
  BY <1>1 DEF IsGateReceipt
<1>3. \A i : IsGateReceipt(file, i) => file'[i] = file[i]
  BY <1>1 DEF IsGateReceipt
<1>4. QED
  BY <1>2, <1>3 DEF GateInv

\* A judged result brings its receipt, if it is to have one.
LEMMA GateJudged ==
    ASSUME EvalInv, GateInv, NEW g \in Handed, Judge(g)
    PROVE  GateInv'
<1>1. judged' = judged \cup {g} /\ judged' \subseteq Handed
  BY DEF Judge, GateInv
<1>2. CASE Outcome(g) \in Signable
  <2> DEFINE r == GateReceipt(g)
             n == Len(file) + 1
  <2>1. r \in InspectReceipts \cup GateReceipts /\ r.source # "inspect"
    BY ReceiptShapes DEF GateReceipts, Handed
  <2>2. file' = Append(file, r)
    BY <1>2 DEF Judge, Signable
  <2> HIDE DEF r
  <2>3. /\ DOMAIN file' = DOMAIN file \cup {n}
        /\ file'[n] = r /\ \A i \in DOMAIN file : file'[i] = file[i]
    BY <2>1, <2>2, AppendedFile DEF EvalInv, FileShape
  <2>4. \A i : IsGateReceipt(file', i) <=> i = n \/ IsGateReceipt(file, i)
    BY <2>1, <2>3, AppendedFile DEF IsGateReceipt, EvalInv, FileShape
  <2>5. \A i : IsGateReceipt(file, i) => file'[i] = file[i]
    BY <2>3 DEF IsGateReceipt
  <2>6. \A i : IsGateReceipt(file', i) =>
          \E h \in judged' : file'[i] = GateReceipt(h) /\ Outcome(h) \in Signable
    BY <1>1, <1>2, <2>3, <2>4, <2>5 DEF GateInv, r
  <2>7. \A h \in judged' : Outcome(h) \in Signable =>
          \E i : IsGateReceipt(file', i) /\ file'[i] = GateReceipt(h)
    BY <1>1, <2>3, <2>4, <2>5 DEF GateInv, r
  <2>8. QED
    BY <1>1, <2>6, <2>7 DEF GateInv
<1>3. CASE Outcome(g) \notin Signable
  <2>1. file' = file
    BY <1>3 DEF Judge, Signable
  <2>2. QED
    BY <1>1, <1>3, <2>1 DEF GateInv, IsGateReceipt
<1>4. QED
  BY <1>2, <1>3

LEMMA GateStep == EvalInv /\ GateInv /\ [Next]_vars => GateInv'
<1> SUFFICES ASSUME EvalInv, GateInv, [Next]_vars PROVE GateInv'
  OBVIOUS
<1>1. CASE UNCHANGED <<judged, file>>
  BY <1>1 DEF GateInv, IsGateReceipt
<1>2. ASSUME NEW e \in Evals, NEW s \in Samples, NEW failing \in SUBSET Scorers,
             SampleEnd(e, s, failing)
      PROVE  GateInv'
  <2> DEFINE r == Receipt(e, s, AgentOf(e, s), failing)
  <2>1. judged' = judged /\ (file' = file \/ file' = Append(file, r))
    BY <1>2, RespondCases DEF SampleEnd
  <2>2. AgentOf(e, s) \in Agents
    BY AgentsAssumption DEF AgentOf, EvalInv, TypeOK
  <2>3. r \in InspectReceipts /\ r.source = "inspect"
    BY <2>2, ReceiptShapes
  <2> HIDE DEF r
  <2>4. QED
    BY <1>1, <2>1, <2>3, GateKept
<1>3. ASSUME NEW g \in Handed, Judge(g) PROVE GateInv'
  BY <1>3, GateJudged
<1>4. \/ UNCHANGED <<judged, file>>
      \/ \E e \in Evals, s \in Samples, failing \in SUBSET Scorers : SampleEnd(e, s, failing)
      \/ \E g \in Handed : Judge(g)
  BY DEF Next, vars, Configure, Construct, TaskStart, Handed
<1>5. QED
  BY <1>1, <1>2, <1>3, <1>4

LEMMA GateFaithfully == GateInv => GateFaithful
<1> SUFFICES ASSUME GateInv PROVE GateFaithful
  OBVIOUS
<1>1. \A i \in DOMAIN file \ Inspected : IsGateReceipt(file, i)
  BY DEF Inspected, IsGateReceipt
<1>2. \A i : IsGateReceipt(file, i) => i \in DOMAIN file \ Inspected
  BY DEF Inspected, IsGateReceipt
<1>3. \A g : GateReceipt(g).eval = g /\ GateReceipt(g).says = Outcome(g)
  BY DEF GateReceipt
<1>4. \A g \in judged : g \in Results
  BY HandedResults DEF GateInv
<1>5. ASSUME NEW i \in DOMAIN file \ Inspected
      PROVE  /\ file[i].eval \in judged /\ file[i].says = Stated(file[i].eval)
             /\ file[i].says \in Signable
  <2>1. PICK g \in judged : file[i] = GateReceipt(g) /\ Outcome(g) \in Signable
    BY <1>1, <1>5 DEF GateInv
  <2>2. QED
    BY <1>3, <1>4, <2>1, OutcomeStated
<1>6. ASSUME NEW g \in judged, Stated(g) \in Signable
      PROVE  \E i \in DOMAIN file \ Inspected : file[i].eval = g
  <2>1. Outcome(g) \in Signable
    BY <1>4, <1>6, OutcomeStated
  <2>2. QED
    BY <1>2, <1>3, <2>1 DEF GateInv
<1>7. QED
  BY <1>5, <1>6 DEF GateFaithful, Signable

\* The types of the hook, its tables and the receipts.
THEOREM EvalTypeCorrect == Spec => []TypeOK
  BY EvalInvariant, PTL DEF EvalInv

\* Whatever evals, samples and gates interleave: one receipt for each failing
\* sample at most, with all scorers that failed it.
THEOREM EvalOnePerSample == Spec => []OnePerSample
  BY EvalInvariant, PTL DEF EvalInv

\* No failing sample is passed over in silence while the environment is what it
\* was when the hook was constructed.
THEOREM EvalNothingSilent == Spec => []NothingSilent
  BY EvalInvariant, PTL DEF EvalInv

\* One line at ERROR for each cause of missing receipts.
THEOREM EvalErrorsOnce == Spec => []ErrorsOnce
  BY EvalInvariant, PTL DEF EvalInv

\* A receipt names the model of its own eval.
THEOREM EvalAgentIsModel == Spec => []AgentIsModel
  BY EvalInvariant, PTL DEF EvalInv

\* The bridge signs for the results that state review or block, wherever in the
\* result that stands, and for no other; the loop of _decision finds the same
\* decision a reader does.
THEOREM EvalGateFaithful == Spec => []GateFaithful
<1>1. Init => GateInv
  <2> SUFFICES ASSUME Init PROVE GateInv
    OBVIOUS
  <2>1. DOMAIN file = {} /\ judged = {}
    BY DEF Init
  <2>2. QED
    BY <2>1 DEF GateInv, IsGateReceipt
<1>2. QED
  BY <1>1, EvalInvariant, GateStep, GateFaithfully, PTL DEF Spec
==============================================================================
