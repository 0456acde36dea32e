--------------------------- MODULE ClaudeCodeHooks ---------------------------
(***************************************************************************)
(* The processes of corrlog_claude_code/cli.py: one for each PreToolUse    *)
(* and PostToolUse event of a tool call, for each event of another name,   *)
(* and for each human-flag command.  They share a key file, a sidecar file *)
(* and a sink, without any lock, and any of them may be killed at any      *)
(* time, or end with an exception.                                         *)
(*                                                                         *)
(* Opening a file for writing truncates it; its text is written when it is *)
(* closed.  Appending to the sink is one step here: JsonlSink has the rest.*)
(* Every process makes fresh correctionIds (uuid4).                        *)
(***************************************************************************)
EXTENDS AcrRecords, FiniteSets

CONSTANTS
    Calls,          \* tool calls
    ToolOf,         \* the tool of each call
    Flags,          \* human-flag commands
    Others,         \* events of other names
    None,           \* no value
    NoFile,         \* the file does not exist
    Empty,          \* the file has been opened for writing and holds no text
    Garbled,        \* the file holds the text of one writer and a rest of another's
    Pathless,       \* the processes for which CORRLOG_KEY_PATH is set, and empty
    MaxOpen,        \* bound: processes at the same time
    MaxCrashes      \* bound: processes that are killed or ended by an exception

Before == {"PreToolUse"} \X Calls
After == {"PostToolUse"} \X Calls
Flagging == {"human-flag"} \X Flags
Ignoring == {"other event"} \X Others
Procs == Before \cup After \cup Flagging \cup Ignoring

ASSUME FilesAssumption ==
    NoFile \notin Procs /\ Empty \notin Procs /\ NoFile # Empty /\ MaxCrashes \in Nat

VARIABLES
    keyFile,        \* the key in the key file, named after the process that made it
    sidecar,        \* the sidecar file: the id in flight for each tool
    sink,           \* the records in the sink
    stage,          \* how far each process is
    key,            \* the key each process signs with
    inflight,       \* the contents a process is going to write to the sidecar
    prior,          \* the record a process corrects; until it is found, its id alone
    erring,         \* the tool calls whose result says error
    crashes,        \* counted against the bound
    contended,      \* history: two processes were about to create the key file
    raised          \* history: the processes that raised, and what they were at

vars == <<keyFile, sidecar, sink, stage, key, inflight, prior, erring, crashes, contended,
          raised>>
files == <<keyFile, sidecar, sink>>
locals == <<key, inflight, prior>>

-----------------------------------------------------------------------------
Tools == {ToolOf[c] : c \in Calls}
ActionId(p) == <<p, "action">>
Entries == [Tools -> {None} \cup {ActionId(p) : p \in Before}]

Ended == {"done", "failed", "killed"}
Active == {p \in Procs : stage[p] \notin Ended \cup {"waiting"}}

Init ==
    /\ keyFile = NoFile /\ sidecar = NoFile /\ sink = <<>>
    /\ stage = [p \in Procs |-> "waiting"]
    /\ key = [p \in Procs |-> NoKey]
    /\ inflight = [p \in Procs |-> None]
    /\ prior = [p \in Procs |-> None]
    /\ erring = {} /\ crashes = 0 /\ contended = FALSE /\ raised = {}

Goto(p, s) == stage' = [stage EXCEPT ![p] = s]

\* The order of the work once the key is there.
First(p) ==
    IF p \in Before THEN "recording" ELSE IF p \in After THEN "reading"
    ELSE IF p \in Flagging THEN "looking up" ELSE "done"
AfterSidecar(p) == IF p \in Before THEN "done" ELSE "recording"
UncaughtSidecar(p) == "failed"
AfterBadSidecar(p) == AfterSidecar(p)
AfterRecordDone(p) == IF p \in Before THEN "reading" ELSE "done"
AfterRecord(p) ==
    IF p \in Before THEN "reading" ELSE IF p[2] \in erring THEN "correcting" ELSE "done"

\* A process is spawned: PreToolUse first, PostToolUse when that one is over,
\* with a result that says error or not; human-flag with an id someone read in
\* the sink, or with another.
Start(p) ==
    /\ stage[p] = "waiting"
    /\ Cardinality(Active) < MaxOpen
    /\ p \in After => stage[<<"PreToolUse", p[2]>>] \in Ended
    /\ Goto(p, "started")
    /\ IF p \in After THEN erring' \in {erring, erring \cup {p[2]}} ELSE UNCHANGED erring
    /\ IF p \in Flagging
       THEN \E id \in {r.id : r \in {sink[i] : i \in DOMAIN sink}} \cup {None} :
              prior' = [prior EXCEPT ![p] = [id |-> id]]
       ELSE UNCHANGED prior
    /\ UNCHANGED <<files, key, inflight, crashes, contended, raised>>

Minting == {p \in Procs : stage[p] = "minting"}

LoadAlwaysMints(p) ==
    /\ stage[p] = "started" /\ p \notin Pathless
    /\ Goto(p, "minting")
    /\ contended' = (contended \/ (keyFile = NoFile /\ Minting # {}))
    /\ UNCHANGED <<files, locals, erring, crashes, raised>>

LoadIgnoresEmpty(p) ==
    /\ stage[p] = "started" /\ p \notin Pathless
    /\ \/ keyFile = NoFile /\ Goto(p, "minting") /\ UNCHANGED key
       \/ keyFile # NoFile /\ Goto(p, First(p))
          /\ key' = [key EXCEPT ![p] = IF keyFile = Empty THEN NoKey ELSE keyFile]
    /\ contended' = (contended \/ (keyFile = NoFile /\ Minting # {}))
    /\ UNCHANGED <<files, inflight, prior, erring, crashes, raised>>

\* _load_or_create_key with a path: the file exists or it does not; a file
\* without a key in it makes load_pem_private_key raise, and the process fails.
LoadKey(p) ==
    /\ stage[p] = "started" /\ p \notin Pathless
    /\ \/ keyFile = NoFile /\ Goto(p, "minting") /\ UNCHANGED key
       \/ keyFile = Empty /\ Goto(p, "failed") /\ UNCHANGED key
       \/ keyFile \in Procs /\ Goto(p, First(p)) /\ key' = [key EXCEPT ![p] = keyFile]
    /\ contended' = (contended \/ (keyFile = NoFile /\ Minting # {}))
    /\ UNCHANGED <<files, inflight, prior, erring, crashes, raised>>

\* With an empty path: a key of the process's own, which no file ever holds.
MintUnsaved(p) ==
    /\ stage[p] = "started" /\ p \in Pathless
    /\ Goto(p, First(p))
    /\ key' = [key EXCEPT ![p] = p]
    /\ UNCHANGED <<files, inflight, prior, erring, crashes, contended, raised>>

\* A key is generated and the file opened with "wb".
OpenKeyFile(p) ==
    /\ stage[p] = "minting"
    /\ Goto(p, "writing key")
    /\ keyFile' = Empty
    /\ UNCHANGED <<sidecar, sink, locals, erring, crashes, contended, raised>>

\* The key is written; all PEM files are of one length.
WriteKeyFile(p) ==
    /\ stage[p] = "writing key"
    /\ Goto(p, First(p))
    /\ keyFile' = p
    /\ key' = [key EXCEPT ![p] = p]
    /\ UNCHANGED <<sidecar, sink, inflight, prior, erring, crashes, contended, raised>>

\* The record of a hook, signed with the key it has.
Receipt(p) == Sign(ActionId(p), NoLink, "receipt", "supersede", key[p])

RecordUnsaved(p) ==
    /\ stage[p] = "recording"
    /\ prior' = [prior EXCEPT ![p] = Receipt(p)]
    /\ Goto(p, AfterRecord(p))
    /\ UNCHANGED <<files, key, inflight, erring, crashes, contended, raised>>

\* record(), and append to the sink.
Record(p) ==
    /\ stage[p] = "recording"
    /\ sink' = Append(sink, Receipt(p))
    /\ prior' = [prior EXCEPT ![p] = Receipt(p)]
    /\ Goto(p, AfterRecord(p))
    /\ UNCHANGED <<keyFile, sidecar, key, inflight, erring, crashes, contended, raised>>

\* The entry a hook puts into the sidecar or takes out of it.
Entry(p) == IF p \in Before THEN ActionId(p) ELSE None

\* json.load of the sidecar; a file it cannot parse is left alone.
ReadSidecar(p) ==
    /\ stage[p] = "reading"
    /\ IF sidecar \in {Empty, Garbled}
       THEN Goto(p, AfterBadSidecar(p)) /\ UNCHANGED inflight
       ELSE /\ Goto(p, "opening sidecar")
            /\ LET entries == IF sidecar = NoFile THEN [t \in Tools |-> None] ELSE sidecar
               IN  inflight' = [inflight EXCEPT
                                  ![p] = [entries EXCEPT ![ToolOf[p[2]]] = Entry(p)]]
    /\ UNCHANGED <<files, key, prior, erring, crashes, contended, raised>>

\* open(_sidecar, "w").
OpenSidecar(p) ==
    /\ stage[p] = "opening sidecar"
    /\ Goto(p, "writing sidecar")
    /\ sidecar' = Empty
    /\ UNCHANGED <<keyFile, sink, locals, erring, crashes, contended, raised>>

\* The text is written from the start of the file, over that of another
\* process, of which more or less may remain.
WriteSidecar(p) ==
    /\ stage[p] = "writing sidecar"
    /\ Goto(p, AfterSidecar(p))
    /\ sidecar' \in {inflight[p]} \cup (IF sidecar = Empty THEN {} ELSE {Garbled})
    /\ UNCHANGED <<keyFile, sink, locals, erring, crashes, contended, raised>>

\* sink.get: the first record with that id, if there is one.
LookUp(p) ==
    LET hits == {i \in DOMAIN sink : sink[i].id = prior[p].id} IN
    /\ stage[p] = "looking up"
    /\ \/ hits = {} /\ Goto(p, "failed") /\ UNCHANGED prior
       \/ \E i \in hits : /\ \A j \in hits : i <= j
                          /\ prior' = [prior EXCEPT ![p] = sink[i]]
                          /\ Goto(p, "correcting")
    /\ UNCHANGED <<files, key, inflight, erring, crashes, contended, raised>>

Trigger(p) == IF p \in After THEN "check_failed" ELSE "human_flagged"
Correction(p) == Sign(<<p, "correction">>, LinkTo(prior[p]), "receipt", Trigger(p), key[p])

\* retract(), and append to the sink.
Correct(p) ==
    /\ stage[p] = "correcting"
    /\ sink' = Append(sink, Correction(p))
    /\ Goto(p, "done")
    /\ UNCHANGED <<keyFile, sidecar, locals, erring, crashes, contended, raised>>

\* record(), retract() or append raises, and nobody catches it: a payload that
\* cannot be signed (NaN, an integer that is no double, a lone surrogate), or an
\* append that fails, with its line in the file or not.
Raise(p) ==
    /\ stage[p] \in {"recording", "correcting"}
    /\ crashes < MaxCrashes
    /\ crashes' = crashes + 1
    /\ raised' = raised \cup {<<p, stage[p]>>}
    /\ Goto(p, "failed")
    /\ \/ UNCHANGED sink
       \/ stage[p] = "recording" /\ sink' = Append(sink, Receipt(p))
       \/ stage[p] = "correcting" /\ sink' = Append(sink, Correction(p))
    /\ UNCHANGED <<keyFile, sidecar, locals, erring, contended>>

\* The process is killed, or an exception ends it before it has anything to
\* sign (an event or a file it cannot read); what it wrote to the files stays.
Kill(p) ==
    /\ p \in Active
    /\ crashes < MaxCrashes
    /\ crashes' = crashes + 1
    /\ Goto(p, "killed")
    /\ UNCHANGED <<files, locals, erring, contended, raised>>

Step(p) ==
    \/ LoadKey(p) \/ MintUnsaved(p) \/ OpenKeyFile(p) \/ WriteKeyFile(p)
    \/ Record(p) \/ ReadSidecar(p) \/ OpenSidecar(p) \/ WriteSidecar(p)
    \/ LookUp(p) \/ Correct(p)

Next == \E p \in Procs : Start(p) \/ Step(p) \/ Raise(p) \/ Kill(p)

Spec == Init /\ [][Next]_vars

-----------------------------------------------------------------------------
(* Properties.                                                             *)

TypeOK ==
    /\ keyFile \in {NoFile, Empty} \cup Procs
    /\ sidecar \in {NoFile, Empty, Garbled} \cup Entries
    /\ \A p \in Procs : stage[p] \in {"recording", "reading", "opening sidecar",
                          "writing sidecar", "looking up", "correcting", "done"}
                        => key[p] \in Procs
    /\ \A p \in Procs : stage[p] = "correcting" => prior[p].key \in Procs
    /\ \A p \in Procs : stage[p] = "writing sidecar" => inflight[p] \in Entries
    /\ erring \subseteq Calls /\ crashes \in 0..MaxCrashes

\* All records of the processes that have a key file are signed with one key,
\* whichever processes are killed or raise, even in the middle of creating the
\* file, and whatever keys others without a path make, unless two of them found
\* that there was no file and both set out to create it.
Maker(r) == r.id[1]
OneKey ==
    contended \/ \A i, j \in DOMAIN sink :
                   Maker(sink[i]) \notin Pathless /\ Maker(sink[j]) \notin Pathless
                   => sink[i].key = sink[j].key

\* A correction stands behind the record it corrects, whichever processes
\* race or are killed between an append and the next: the sink alone always
\* has the whole history of every record in it.
CorrectionsRooted ==
    \A i \in DOMAIN sink :
        sink[i].link # NoLink => \E j \in 1..(i - 1) : sink[i].link = LinkTo(sink[j])

\* The history of each record in the sink, from its root on.
Branch[i \in DOMAIN sink] ==
    IF sink[i].link = NoLink THEN <<sink[i]>>
    ELSE Append(Branch[CHOOSE j \in DOMAIN sink : sink[i].link = LinkTo(sink[j])], sink[i])

\* verify_chain accepts the history of every record in the sink, forks and
\* repeated flags included, if it is signed with one key.
BranchesVerify ==
    \A i \in DOMAIN sink :
        LET branch == Branch[i] IN
        (\A j \in DOMAIN branch : branch[j].key = sink[i].key)
        => VerifyChain(branch, sink[i].key, NoCheckpoint)

RecordsOf(p) == {i \in DOMAIN sink : sink[i].id = ActionId(p)}

\* A hook that has its key leaves exactly one receipt, whatever other processes
\* have made of the sidecar, unless it is killed or its own record() or append
\* raises; and no hook ever leaves two.
ReceiptLeft ==
    \A p \in Before \cup After :
        /\ Cardinality(RecordsOf(p)) <= 1
        /\ key[p] # NoKey /\ stage[p] \in {"done", "failed"} /\ <<p, "recording">> \notin raised
           => Cardinality(RecordsOf(p)) = 1

\* When PostToolUse is over, its receipt has a check_failed correction, signed
\* with the key of the receipt, exactly if the result said error.
ErrorsCorrected ==
    \A p \in After : stage[p] = "done" =>
        (p[2] \in erring <=>
           \E i \in RecordsOf(p), j \in DOMAIN sink :
              /\ sink[j].body = "check_failed" /\ sink[j].link = LinkTo(sink[i])
              /\ sink[j].key = sink[i].key)

\* Once the key file has been written and nobody is about to create it, that is
\* so for good: it keeps its key, whoever is killed, and every process started
\* from then on signs with that key, but those without a path.
KeySettled == keyFile \in Procs /\ \A p \in Procs : stage[p] \notin {"minting", "writing key"}
KeyStays ==
    [][KeySettled => KeySettled' /\ keyFile' = keyFile
                     /\ \A p \in Procs \ Pathless :
                          key[p] # key'[p] => key'[p] = keyFile]_vars

\* "stash the action id in a sidecar file for PostToolUse": the id that
\* PostToolUse finds in the sidecar, if it finds any, is the one that PreToolUse
\* of its own call put there.
StashDelivered ==
    [][\A c \in Calls :
         LET p == <<"PostToolUse", c>>
             q == <<"PreToolUse", c>>
         IN  stage[p] = "reading" /\ stage'[p] # "reading" /\ stage[q] = "done"
                /\ sidecar \in Entries /\ sidecar[ToolOf[c]] # None
             => sidecar[ToolOf[c]] = ActionId(q)]_vars
==============================================================================
