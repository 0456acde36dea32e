# Formal models of corrlog

corrlog writes signed records of what an agent did ("receipts"), signed records
that correct earlier ones, and lets a consumer check both. This directory holds
TLA+ models of its core, TLC configurations that check them on small instances,
and proofs, checked by TLAPS, of the properties that matter most.

## 1. The system

| Part | Source | State it keeps | Operations |
|---|---|---|---|
| Records and chains | `corrlog_core/__init__.py` 286-635 | none: pure functions over dicts | `record`, `unknown`, `retract`, `verify`, `verify_trusted`, `chain_checkpoint`, `verify_chain` |
| JCS canonicalization, keys | same file, 43-284 | none | `canonical_json`, key encoding |
| `MemorySink` | same file, 647-665 | a list in memory | `append`, `get`, `all` |
| `JsonlSink` | same file, 668-734 | a file, `damaged_lines` | `append`, `get`, `all` |
| `ReplayGuard` | `corrlog_core/replay.py` | a SQLite table of admitted ids | `accept` |
| Schema | `corrlog_core/schema/acr-v1.json` | none | `validate_record` |
| Tool-call adapters | `corrlog_langchain`, `corrlog_crewai`, `corrlog_autogen` | actions in flight | wrap or hook a tool call |
| Claude Code hooks | `corrlog_claude_code/cli.py` | key file, sidecar file, sink file | one process per hook event, `human-flag` |
| Inspect AI hooks | `corrlog_inspect` | signer and sink made at construction, models by eval, log-once flags | `enabled`, `on_task_start`, `on_sample_end` |
| ProofAgent bridge | `corrlog_proofagent` | none | `gate_to_acr`, `report_to_acr` |
| Standalone verifier | `verifier/standalone.py` | none | `verify_record`, `verify_chain` |
| Independent verifier, JCS candidate | `validation/harness` | none | `verify_record`, `verify_chain`, `canonical_json` |

How they interact: an evaluation hook or the bridge turns a failed sample or gate
into one signed correction for a file of receipts. An adapter calls `record` before a tool call and `retract`
after a failed one, and appends both to a sink. The sink's file travels through
parties nobody trusts. A consumer reads it with `all()`, groups the records into
chains, hands each list to `verify_chain` with a pinned key (and the checkpoint a
trusted party kept), and passes what it acts on through `ReplayGuard.accept`. An
auditor does the same with a verifier that shares no code with the core.

What is hard in it, and where: writers of one file race, and die in the middle of
a line (`append`); consumers race for one id, die between a commit and a return,
and share the record they check with the threads of their caller (`accept`);
hook processes race for the key file and the sidecar and are killed between two
writes (`cli.py`); tool calls overlap in threads or on one loop, fail, are
cancelled, and share one table of actions in flight (the adapters);
signers reuse ids, correct one record twice, correct altered or foreign records,
and the transport reorders, drops, changes and adds (`verify_chain`); two more
verifiers implement the same rules a second and a third time; a number changes
its spelling and its type from parser to parser, and must mean the same under one
signature; evals that run at once share one hook, which was configured from an
environment that may change under it. Each is an entry under `hazards` in
`PROJECT.json`, at its line, with the properties that would fail if the code got
it wrong.

What makes each part correct:

- the sink: what was acknowledged can be read again; a torn line costs itself and
  nothing else; readers see a log that only grows at its end;
- the guard: at most one `True` for an id, for content the producer signed; a
  refusal of an untouched trusted record means its id is taken;
- chains: a list is accepted exactly when its records were made by the pinned
  signer, each as the correction of the one before it;
- the adapters: no tool runs unrecorded, and every failure an adapter sees has
  one correction, of the record of its own call;
- the verifiers: the standalone one and the core agree on every list, and what the
  independent one accepts beyond them is known exactly;
- numbers: a signature is good for the number that was signed, however it is
  spelled, and for no other;
- evaluation receipts: one for each failing sample, naming the model that failed,
  or an ERROR that says why there is none.

## 2. Modules

| Module | What it is |
|---|---|
| `RecordLog` | abstract: a log of records that grows at its end, may lose a suffix with the power, and its last record to a race |
| `JsonlSink` | the sink at the granularity of its reads and `write(2)` calls; implements `RecordLog` |
| `JsonlSinkProofs` | its theorems |
| `Admission` | abstract: at-most-once admission of trusted records |
| `ReplayGuard` | `accept` step by step over SQLite; implements `Admission` |
| `ReplayGuardProofs` | its theorems, the refinement among them |
| `AcrRecords` | signed records, `verify`, `verify_chain`, `chain_checkpoint` as operators |
| `Verifiers` | the standalone and the independent verifier, as operators over `AcrRecords` |
| `CorrectionChain` | the constructors and the transport, over `AcrRecords` and `Verifiers` |
| `CorrectionChainProofs` | its theorems |
| `ClaudeCodeHooks` | the processes of `cli.py` over key file, sidecar and sink, with `AcrRecords` |
| `ClaudeCodeHooksProofs` | its theorems |
| `ToolCallAdapters` | the three tool-call adapters around calls that share a `MemorySink`, with `AcrRecords` |
| `ToolCallAdaptersProofs` | its theorems |
| `GateDecisions` | what the ProofAgent bridge reads from a gate's result |
| `EvaluationReceipts` | the Inspect hook and the bridge, over `GateDecisions` |
| `EvaluationReceiptsProofs` | its theorems |
| `JcsNumbers` | a signed number on its way through texts and parsers |
| `JcsNumbersProofs` | its theorems |
| `LogLemmas` | lemmas the other proof modules share: lists that grow at their end, the least element of a set of positions, and that a recursion on places below the present one has a solution |
| `MCJsonlSink`, `MCReplayGuard`, `MCCorrectionChain`, `MCClaudeCodeHooks`, `MCToolCallAdapters`, `MCEvaluationReceipts`, `MCJcsNumbers` | the small instances TLC checks |

Definitions whose name extends that of the definition below them
(`TerminatedAlways` above `Terminated`) are what a plausible bug would make of
it. No specification uses them; they are listed under `mutants` in
`PROJECT.json`, where each property is shown to fail for at least one.

### JsonlSink

The file is a sequence of *pieces*; a line is `Opening(r) Closing(r) Newline`,
where the opening is any proper prefix of the JSON text. That is all the
properties can tell apart: a cut JSON object does not parse, and neither does one
with other bytes on its line, so a line is readable exactly when it is an opening
and its closing. `append` is three steps, because it touches the file three
times: `Open` (encode, open: lines 698-699), `CheckTail` (`seek(-1, 2)` fixes the
byte that `read(1)` returns, then newline and line go to the file object's
buffer: 702-708) and `WriteLine` (the flush on close). A line longer than the
buffer behind a pending newline makes two `write(2)` calls, `CloseTail` first.
`Interrupt` lets a writer die, or a write fail, after any number of pieces of its
next write; `PowerLoss` keeps any prefix of the file, as there is no fsync.

`races` is a history variable: it counts the writes that were torn while another
writer had looked at the tail and was about to rely on what it saw. That is the
one thing that goes wrong in this sink, so the properties say what holds without
it and what each occurrence costs, and one run covers writers that take turns
and writers that race. `RecordLog` has the same counter: a race may spoil the
last record a reader saw, never an earlier one, and a loss of power that cuts off
what spoiled it may bring it back.

`missing` is another: the acknowledged records that the last `all()` did not
return, to be compared with `damaged_lines`, which is what it reported.

Assumed of the environment: a `write(2)` that is not cut short puts its bytes
contiguously at the end of the file (O_APPEND on one local file system); `all()`
sees one state of the file; a file that survives a loss of power is a prefix of
what was written (no zero-filled blocks). A loss of power also ends all writers.

### ReplayGuard

`accept` is: `Copy` field by field (line 23), `Verify` or `Reject` (24-28),
`Insert`, which takes SQLite's write lock and learns whether the id has a row
(31), `Commit` (end of the `with`), `Return` (35 or 34). `Mutate` is another
thread of the caller assigning to the record at any time, `CopyFails` an
exception of `deepcopy`, `Busy` the lock time-out, `Fail` any other database
error, `Crash` the death of the consumer. A trusted record is one whose seal is
the producer's over this id and body. Rollback of a dead process's transaction
and one writer at a time are SQLite's promises; that nobody deletes or restores
the database is the docstring's condition (replay.py 9-11).

### AcrRecords and CorrectionChain

Cryptography is symbolic: a seal names its key and its payload, a digest names
its record. The text of `signature.sig` is not itself signed, so a seal also has a
`spelling`: the text that `_b64url` gives for its bytes, or another one that a lax
decoder takes for the same bytes (`Respellings`; no verifier tells two of them
apart, so one is enough). `agent.publicKey` may be absent (`NoKey`). `Record`, `Unknown`, `Retract` are calls of the constructors by any
signer with any id and body, new or reused; `retract` takes any record in
circulation, altered ones too, as the code does. The transport alters a record
in place (`Alter`), seals it with its own key (`Reseal`), does so and leaves the
agent's name in it or takes the key out of it (`Impersonate`), or spells its
signature in another way (`Respell`). `verify_chain` reads
nothing but its arguments, so the properties quantify over all lists of known
records rather than over a separate reading step. `Checkpoint` keeps the result
of `chain_checkpoint` for the rest of the behaviour.

`Verifiers` has the other two implementations of the same rules, each translated
from its own source: `standalone.py` compares the pointer of a record with the
one before it by id and digest, `independent_verifier.py` by digest alone, and
without the schema, the agent's key, the ids or a rule about the empty list. The
core and `standalone.py` decode base64url exactly (543-549; 59-63), while
`_b64url_decode` of `independent_verifier.py` (33-34) passes over characters
and bits that do not count, so it takes a signature in any spelling. They
are compared with `VerifyChain` over all lists in circulation. (The docstring of
the independent verifier, line 90, calls itself "stricter than corrlog's own
verify_chain". With the rule it names, a rooted first record, it is not: the core
has that rule too. `IndependentExtent` says where it is laxer.)

### ClaudeCodeHooks

Claude Code spawns one process of `cli.py` per event, so what the operations
share is files: `keyFile`, `sidecar`, `sink`. A process is a pair of a kind and
a call, flag or event; `stage` says how far it is, `key`, `inflight` and `prior`
are its local variables `priv`, `inflight` and `prior` (or `rec`).

| Step | Lines | Remark |
|---|---|---|
| `Start` | 56-92 | spawned; PostToolUse after PreToolUse of its call is over |
| `LoadKey` | 29-33 | loads the key, finds no file, or fails at a file without a key |
| `MintUnsaved` | 30-41 | `CORRLOG_KEY_PATH` is set and empty (`Pathless`): a key of the process's own, and no file |
| `OpenKeyFile`, `WriteKeyFile` | 34-41 | `open(.., "wb")` truncates; the text arrives at the close |
| `Record` | 95-100, 121-126 | `record` and `sink.append` |
| `ReadSidecar` | 104-105, 116-117 | an unreadable sidecar is passed over (107, 119) |
| `OpenSidecar`, `WriteSidecar` | 106, 118 | as for the key file; the text of a slower, shorter writer leaves a rest of the other's |
| `LookUp` | 69-72 | `sink.get`; no such receipt ends the process |
| `Correct` | 73-78, 131-136 | `retract` and `sink.append` |
| `Raise` | 73-77, 95-100, 121-126, 131-136 | `record`, `retract` or `sink.append` raises, and `main` does not catch it; the line may be in the file or not |
| `Kill` | any | what was written stays |

`os.path.exists` and the read behind it are one step, since nothing ever removes
these files. An append to the sink is one step, since `JsonlSink` has the
finer ones; CPython closes an unnamed file as soon as `json.dump` returns; all
PEM files of Ed25519 keys have one length, so of two writers of the key file
the later wins whole. A process killed between `OpenKeyFile` and `WriteKeyFile`
leaves an empty key file, at which every later process with that path fails: no
record is signed with a second key, and none at all by such a process until
someone removes the file.

Exceptions: those of `record`, `retract` and `append`, on payloads that cannot be
signed (NaN, an integer that is no double, a lone surrogate) and on files that
cannot be written, are `Raise`. Of those inside the `try` around the sidecar, a file
that cannot be parsed is a branch of `ReadSidecar`; a sidecar that is in order but
may not be opened is left out, since it leaves the file as it is and goes on to the
same step. Those before a process has anything to sign (an
event that is no JSON object, a key file it may not open) leave no more than a
kill does, and count as one. `Raise` and `Kill` share the bound `MaxCrashes`.

`raised` is a history variable: which processes raised, and whether at `record`
or at `retract`; `ReceiptLeft` exempts the former, and nobody else.

`contended` is a history variable: it becomes true when a process finds no key
file while another is already about to create it. Only then can two keys come
into use among processes with a path, so `OneKey` holds for them up to that
moment, racing or not. A process whose `CORRLOG_KEY_PATH` is empty signs with a
key nobody else ever has, by design of the code (30, 34); `OneKey` and `KeyStays`
say that it leaves the file and the others alone.

### ToolCallAdapters

A process is a tool call, with the adapter around it, or a call of the
application. `records` is `MemorySink._records`; `inflight` is the table
`CrewAICorrectionLog._inflight`, seen by call; `stashed` holds the calls whose
context took the `action_id`; `stage` and `pending` say how far a call is and
which record it has signed. (`_inflight` of the LangChain adapter is never used.)

| Step | Lines | Remark |
|---|---|---|
| `Begin` | langchain 57-64, crewai 48-62, autogen 57-64 | the action is signed, for CrewAI put in flight |
| `CheckDuplicate` | core 654-655 | the id is looked for; a raise leaves the adapter (`RaiseFrom`) |
| `Store` | core 656, crewai 65-68 | a copy is stored; CrewAI's context takes the id or refuses it |
| `AppendRaises` | | another sink fails for its own reasons |
| `RunTool` | langchain 68, 109, autogen 68 | fine, an error in the result, an exception, or a cancellation |
| `AfterTool` | langchain 71-88, crewai 79-100, autogen 69-95 | a detected failure is corrected |
| `SkipAfter` | crewai 73-77 | no after hook, or a context without a result |
| `Submit`, `MarkWrong` | core 653, `mark_wrong` of the three | the application's own calls |

With `Threads` any two calls interleave everywhere. Without, they are coroutines
of one loop, which switches where a call awaits its tool and nowhere else. That
is one code with two schedulers, and `NoDuplicates` holds under one of them only.
All `correctionId`s the adapters make are fresh (`uuid4`), so a duplicate needs
an application that appends one record twice. A `record` that raises on arguments
that cannot be signed leaves the adapter as an append that raises does, with
nothing stored, and is not a step of its own; `mark_wrong` takes any record, and
the model hands it those of the sink. What CrewAI does after a hook that
raised is not in this repository; the model lets it run the tool or not.

### EvaluationReceipts and GateDecisions

| Step | Lines | Remark |
|---|---|---|
| `Configure` | | the process changes `CORRLOG_SIGNING_KEY` or `CORRLOG_RECEIPTS_PATH` |
| `Construct` | hooks 84-122 | signer and sink are made of the environment, or left out |
| `Delivered`, `Enabled` | hooks 125-135 | asked of the class before each event, of the environment as it is then |
| `TaskStart` | hooks 137-139 | the model of the eval is noted |
| `SampleEnd` | hooks 141-201 | the failing scorers, the signature, the append, and what is logged |
| `Judge` | proofagent 80-202 | a gate's result becomes a receipt, nothing, or `ValueError` |

Inspect itself is external; of it is assumed what the hook's use shows: one
instance, `enabled()` before each event, a task's samples end after its start.
The handlers contain no `await`, so each is one step and evals interleave between
them. A key is unset, blank (which `__init__` takes and `enabled` does not), bad
(`load_private_key` raises, so every signature does) or good; the sink's append
may raise each time. `settled` records whether the environment is still what it
was at construction. A file of receipts is a sequence; `JsonlSink` has the rest.

`GateDecisions` follows `_decision` through all shapes of a result: a dict or an
object, a decision of its own or in one of three nested entries that may be
missing, no dict, empty, or without one. The module docstring of the bridge says
fix_type "review" or "block" (lines 20-21); the code writes "other" (line 43) and
puts the decision into the metadata, which is what the model has as `says`. The
metadata of the caller can be signed; `gate_to_acr` raises otherwise (a
`final_score` that is NaN), and nothing is there to keep.

### JcsNumbers

A number is signed, written, read, rewritten by a program in ECMAScript, altered,
and verified at every stage by every implementation in the repository. binary64
is scaled down: significands of `P` bits, exponents `EMin..EMax`, the notation
bounds `Plain` (21) and `Small` (-6) of ES6 scaled with it. Rounding is to nearest,
ties to even; the shortest spelling is computed from its definition (the fewest
digits that are read back as the same double); nothing is taken from Python's or
JavaScript's documentation but these two. Every quantity is an integer that
counts units of `10^-Frac`, so all arithmetic is exact. `PlacesAssumption` says
that these units and `Width` digits are enough to write every number of the
format, and that an integer that fits a significand is written plainly; it holds
for binary64 (`Frac` 1074, `Width` 1383, `Plain` 21) and TLC evaluates it for the
instance. The powers are recursive functions and not operators, for the proofs.

What makes the matter delicate is in the code's own comment (77-84): a shortest
spelling such as `295147905179352830000` is an integer literal that no double
equals, Python reads it as an int of arbitrary length, and `_jcs_integer` must
take it back to the double without the exactness check that
`_check_application_numbers` must make. The mutants `JcsExact` (the check in the
wrong place) and `AdmittedFinite` (no check) each break one property.

Strings, object keys and base64 are not modelled. `Payload` and `Digest` in
`AcrRecords` take the encoding to be injective up to the value of numbers.

## 3. Runs

| Run | Instance | What it shows |
|---|---|---|
| `sink` | 2 writers, 2 records, torn writes, 1 loss of power | a race costs one acknowledged record at most and `damaged_lines` tells; without one, earlier lines stay readable and `get` is stable; `RecordLog` is implemented |
| `sink_glued` | 2 writers, 1 torn write | expected violation, see section 5 |
| `guard` | 2 consumers, fair, 1 id with 2 signed bodies, a crash, a failure, an assignment to a record under way | at most one `True`, of what was verified; refusals are justified; every call ends, the lock is always given back; `Admission` is implemented |
| `chain_lists` | 2 signers, 3 ids, 3 records made, 1 altered or respelled, lists up to 3 | what a transport can pass off as a history: nothing; forks, foreign corrections, reused ids and respelled signatures are sorted out; the three verifiers agree as far as they should |
| `hooks` | hooks of 2 calls of 1 tool, PreToolUse without a key path, 1 flag, any 2 at once, 1 kill or exception | one key without contention, corrections stay rooted, histories verify, receipts and corrections are complete, a written key stays |
| `hooks_stash` | hooks of 2 calls of 1 tool, one process at a time | expected violation, see section 5 |
| `calls_loop` | a LangChain and an AutoGen call, 2 calls of the application, one loop, 1 append that raises | no tool runs unrecorded, failures are corrected once, no id is stored twice |
| `calls_threads` | 2 CrewAI calls, 2 calls of the application, threads, 1 append that raises | each correction is of its own call's record and stands behind it |
| `calls_unhashed` | a LangChain and an AutoGen call | expected violation, see section 5 |
| `evals` | 2 evals of a sample and 2 scorers each, all environments, 1 change, 1 gate of any shape | a receipt for each failing sample, of the right model, or an ERROR; the bridge signs what the gate states |
| `inspect_late` | the same without gates, a good key | expected violation, see section 5 |
| `jcs` | 3-bit significands, all doubles, integers around 8, 48, 240, two hops, one alteration | a signature binds its number, all spellings agree |

Why the bounds suffice: losing an acknowledged record takes two writers, of
which one dies; a third only repeats either part. Two consumers are enough for a
race for an id and for the lock, whichever of them crashes; with two bodies signed
under the id, one assignment is enough to make either record the other or an
untrusted one. Ids do not meet in the guard's code: a second id would double the
table and nothing else, and the theorems have any number. A list of three has
a first, an inner and a last position, so every swap, gap, fork and duplicate
that can concern neighbours occurs, and a substitution that a checkpoint must
catch by its digests or by the links between. Two hook processes at once are
enough for every race over a file, as each reads and writes it once; two flags
make a fork, and two calls of one tool share a place in the sidecar. In `hooks`
the PreToolUse hooks have an empty key path, and PostToolUse and the flag share a
key file: two of them may create it at once, and records under a file's key and
under keys of their own meet in one sink, one chain and one sidecar. The
theorems have any set `Pathless`. Two tool
calls and two calls of the application are enough for a call to find another's
record in the table, and for two appends of one record to overlap. An event of
another name only loads or makes the key, as a hook does that is killed right
after, so `hooks` has none of them. Two evals are enough for one to write over the
model of the other; one sample of each, because a second meets the same flags
that the other eval's sample meets; one change of the environment separates
construction from an event. With 3-bit significands the format has subnormals, a
binade in which doubles are further apart than integers (32 to 56 in steps of 8),
one in which the shortest spelling differs from the value (48 is spelled `5e1` or
`50`), a largest double and integers that round to infinity (240), and powers of
ten on both sides of both notation bounds; two hops are a write, a rewrite and a
second write. The theorems
of section 4 remove these bounds for what they state.

`TypeOK` of the sink, the guard, the chains and the numbers is not among the runs' invariants
but proved (section 4). `FirstStands`, which `ImplementsAdmission` implies, is
proved as well.

Deadlock: in every model the bounded counters stop the system in the end, so the
configurations of the chains, the hooks, the adapters, the evaluations and the
numbers, whose processes end, say `CHECK_DEADLOCK FALSE`; the sink can always be read again, and a consumer of
the guard can always call again.

Fairness: `FairSpec` of the guard assumes weak fairness of each consumer's own
steps and nothing of its caller, of crashes or of failures. A thread inside
`accept` is never blocked for good by the code: its only wait is SQLite's, which
`timeout=30` turns into an exception (`Busy`). No strong fairness is assumed, so
a consumer may lose every race for the lock; it then leaves by the time-out.

## 4. Proofs

All theorems hold for every value of the constants that meets the named
assumptions in the modules.

**JsonlSink.** Acknowledged records that can no longer be read are a debt, and
`races` is what it may amount to. `BlastRadius` alone is not inductive: at a race
the counter goes up while the record is still fine, and it is lost later, when
the writer that relied on the tail writes. `SafeInv` therefore books one more for
as long as `TailGuarded` fails, that is, while a writer relies on a tail that is
no longer there; `BlastInv` adds what shows that one is enough (a tail torn under
a writer lies behind all acknowledged lines). From the same invariant
`HistoryStaysReadable`, and `AckedStaysReadable`, which assumes `MaxOpen = 1 \/
MaxTears = 0`; run `sink_glued` shows that it needs an assumption.
`GetAnswersStable`: a file that grows keeps its readable places, and a place that
becomes readable is the last one of the old file or behind it, so the least place
of an id stays the least. `LossesReported` rests on `AckedWhole`, an acknowledged line is whole to
its right whatever raced: a lost one can only have been glued behind something,
each on a line of its own, which gives an injection of the lost records into the
lines that `all()` counts. Between two reads neither side of it changes.

`SinkImplementsLog` is the refinement of `RecordLog`, from `BlastInv` and `FileInv`:
a record glued behind an opening is there only after a race. What `all()` reads is defined
position by position (`ReadTo`), and the proof compares two files from the left:
where they agree, the same has been read (`ReadAlike`), and each piece adds one
record or nothing. A write therefore appends one record (`Extend`), or none, or
glues its opening behind the last line (`Race`, `Spoil`); a loss of power leaves
what was read up to the cut (`Lose`), with the one record besides that the
spoiling bytes had hidden.

**ReplayGuard.** `GuardInv` adds to the types: who passed the check holds a
trusted copy, a pending insert is of an id without a row, a winner's id has a
row and no grant, and there is one winner to an id. From it follow `AtMostOnce`,
`StoredTrusted`, `FirstStands` and the refinement of `Admission`, where `Commit`
maps to `Admit`, `Return` to `Grant`, and the rest to stuttering.
`RefusalsJustified` needs `RefusalInv` besides: the copy of an untouched record
agrees with it as far as it has been made, and who lost the insert found a row
under the id it copied. `AdmissionsStrandedByCrash` compares two cardinalities; both sides
move at `Commit`, `Return` and `Crash` only.

**CorrectionChain.** `HistoryInv` says that what carries a signer's seal was made
by a constructor, and made right. From it, `AcceptedExactly` in both directions.
`OrderDetermined` and `CheckpointExact` need an induction over the positions of
a list; it takes the form of a least counterexample (lemma `LeastElement`), going
forward from the root in the one and backward from the head in the other. The
second is why a checkpoint can make do with a length and two digests.
`ChainVerifiersAgree` compares record by record and link by link: the one rule
the standalone verifier states differently, the order of its early returns and
the comparison with the previous record only, makes no difference because a
first record without a pointer and distinct ids are checked on the way.
`ChainIndependentExtent` uses `HistoryInv` again, as digests determine records. A
record that the independent verifier takes under a signer's key is, but for the
spelling of its signature, one that signer made (`AsMade`); the next one in the
list links to it as it is there, spelling included, since the digest covers it.
Hence `IsStraightRespelt`.

**ClaudeCodeHooks.** `HooksInv` adds to the types that a process at `correcting`
holds a record *that is in the sink*, which the append-only sink keeps true, and
from which `CorrectionsRooted` follows at each append. `Receipts` counts the
records of each hook by its stage and by whether it raised at `record`, for
`ReceiptLeft`. `OneMaker`,
the core of `HooksOneKey`, says that one process at most is creating the key file
and knows what is in it (nothing, then an empty file), and that every key in use
by a process with a path is that of the file: a key for the file is
made only while no such process has one. It is
preserved until `contended`. `FixInv`, for `HooksErrorsCorrected`, follows a
PostToolUse to its correction: before it no correction carries the id of its
action, at it the record it holds is its own receipt. With two at it, `KeyStays` says what is left: from
the moment that nobody is about to create the file, it never changes again.

`HooksBranchesVerify` speaks of a history: a record, the one it corrects, and so on
back to a receipt. `Ids`, its invariant, says that every record in the sink is
of some process, with the id that process gave it, and that no two share an id;
`HooksCorrectionsRooted` adds that a correction stands behind what it corrects.
`Branch` is a recursive function over the sink. That it has values at all
is lemma `RecursionBelow`, as each record points below itself (`ParentBefore`);
`BranchLeads` then follows it by a least counterexample to a list that starts at a
root and links each record to the one before, and `GenuineVerifies` goes through
`VerifyChain` with such a list. Forks and repeated flags need no case of their
own, as a history never contains two corrections of one record.

**ToolCallAdapters.** `AdapterInv` says of each call what its stage entitles it
to: who is at its tool has its action in the sink, unless it is CrewAI's and its
append raised; a correction about to be appended is of a record that is there.
Both are about a sink that others append to meanwhile, hence the lemma
`OthersKept`. `CourseInv`, for `AdaptersFailuresCorrected`, names the five
places a call can be at and what is known of its outcome at each; only a call
that failed where its adapter sees it is ever at a correction, and nobody else
makes a record that could be taken for it. `LoopInv`, for coroutines, adds that one call at a time is between
two awaits and that the id it is about to store is still missing; from it
`NoDuplicates`. Threads that append one record at once may both find its id
missing, so the assumption is needed; the class is documented "for demos/tests"
and promises nothing to threads.

**EvaluationReceipts.** `EvalInv` says that the hook is what the environment at
construction made of it as long as `settled`, that each cause was logged once if
its flag is set and not at all otherwise, that the model of an eval is noted when
it has started, and, of the file, that each receipt of the hook is of an ended
sample and no two are of one. From it `OnePerSample`, `NothingSilent`,
`ErrorsOnce` and `AgentIsModel`, for any evals, samples, scorers and environments.

`EvalGateFaithful` needs that the receipts of the bridge are those of the results
it judged (`GateInv`) and, for the loop of `_decision` over the entries of a result,
that its outcome is the first readable entry's: the fold is unfolded over its
three entries, which are all there are.

**JcsNumbers.** The theorems are for every number format that meets
`FormatAssumption` and `PlacesAssumption`, binary64 among them. `NumbersInv` says
that a signed record was signed over the canonical text of an admitted value, and
that until someone alters it, what is held or wired *means* what was signed:
the same double, or the same word. That the steps keep it, and that it implies
the four properties, comes down to three facts about the format. Rounding does
not cross a double (`NearestBetween`), hence it leaves doubles alone. The shortest
text of a double exists and is read back as that double (`ShortestIs`,
`ReprReads`), so two doubles never share a canonical text (`JcsTellsMeanings`).
And a safe integer is its own shortest text (`SafeVerbatim`): a text with fewer
digits would lie below a power of ten that is a safe integer, too, and rounds to
it at most. This is why a verifier may write safe integers verbatim, as the
harness's candidate does. `LayoutIs` turns the digit counts of
`_jcs_double` (`k <= n <= 21`) into the bounds on the quantity that ECMAScript
states, whence `SpellingsAlwaysAgree`.

Only model-checked: liveness (`CallEnds`, `LockFreed`), which is beyond the
prover. All other properties of the passing runs are proved.

## 5. Disagreements between code and documentation

**The glued record.** The docstring of `JsonlSink` (lines 678-679) says that "a
new record is never glued onto a damaged tail". Between `read(1)` (704) and the
write of the line (708) another process may die in the middle of its own write.
The first writer has found nothing to close (in the run, an empty file; a newline
does as well), so its record lands on the torn line; its
`append` returns and no reader ever sees the record. Run `sink_glued` finds the
shortest such behaviour. `BlastRadius` and `LossReported` say what is left of
the promise: one acknowledged record to each such race, never silently.

**The stash.** PreToolUse is commented to "stash the action id in a sidecar file
for PostToolUse" (cli.py 101). The sidecar has one place for each tool name
(105), so of two calls of one tool in flight the second replaces the first: run
`hooks_stash` runs PreToolUse of both calls and then PostToolUse of the first,
each process after the other, and PostToolUse finds the id of the second call.
(A race for the file itself, which the run leaves out, may besides leave it
nothing to find.) No record is wrong for it, as the id that PostToolUse takes
out (117) is not used: its receipt gets an id of its own, and nothing links the
two records of one call.

**The result that is not hashed.** The adapters of LangChain (line 5: "after a
tool call: hashes the result, signs the action record") and of CrewAI (line 4:
"hash the result after") sign and append the record *before* the tool runs,
without an `action_result`. Run `calls_unhashed` shows a call that went well and
left no `outputHash`.

**Enabled and mute.** A comment in `enabled()` of the Inspect hook says "fully
configured means the receipts actually land somewhere" (hooks.py 128). `enabled()`
reads the environment at the event; the signer and the sink were made of it at
construction. Run `inspect_late` constructs the hook with a good key and without a
path, sets the path, and ends a failing sample: the hook is enabled, signs a
receipt, has no sink to put it in, and logs nothing. `NothingSilent` says that it
takes such a change: while the environment stays as it was, the comment is right.

## 6. Not modelled

In JCS the escaping of strings and the order of keys: code that works character
by character, for which the repository carries published vectors and a comparison
with another implementation. The rest of the schema. The constructors' refusal of
unknown enumeration values, an early exit without an effect. Base64 (but for the
spelling of a signature), time stamps
and metadata are part of a record's body. The `main` of the two verifiers, which
applies them to files and changes nothing. Tests, examples, scripts and the rest
of the validation harness call the system and compare its answers; they have no
behaviour of their own to model.

## 7. Plan

A consumer that composes the sink, `verify_chain` and the guard: what one acts on
when a torn line takes a record out of the middle of a chain.
