----------------------------- MODULE ReplayGuard -----------------------------
(***************************************************************************)
(* ReplayGuard.accept of corrlog_core/replay.py, run by any number of      *)
(* consumers over one SQLite database.                                     *)
(*                                                                         *)
(* A record has an id, a body and a seal.  It is trusted when its seal is  *)
(* the producer's over that id and that body.  deepcopy copies the         *)
(* caller's record field by field while the caller's other threads may     *)
(* assign to it.  SQLite gives one transaction at a time the write lock,   *)
(* commits it atomically and durably, and rolls back that of a dead        *)
(* process; all consumers use the same database and nobody deletes it.     *)
(***************************************************************************)
EXTENDS Naturals, FiniteSets

CONSTANTS
    Consumers,      \* threads or processes that call accept
    Ids, Bodies,    \* correction ids, and the rest of a record's content
    Signed,         \* the <<id, body>> pairs the producer signed
    Forged,         \* a seal the producer never made
    None,           \* no value
    MaxCrashes,     \* bound: consumers that die inside accept
    MaxFailures,    \* bound: statements and commits the database refuses
    MaxMutations    \* bound: assignments to a record during a call

ASSUME SignedAssumption ==
    /\ Signed \subseteq Ids \X Bodies
    /\ Forged \notin Signed /\ None \notin Signed
    /\ None \notin Ids \cup Bodies \cup Consumers /\ None # Forged
ASSUME BoundsAssumption == MaxCrashes \in Nat /\ MaxFailures \in Nat /\ MaxMutations \in Nat

VARIABLES
    stage,      \* how far each consumer is in accept
    obj,        \* the caller's record
    frozen,     \* the consumer's deep copy, as far as it is made
    mutated,    \* has the caller's record been assigned to during the call?
    won,        \* did the INSERT of the open transaction go in?
    answer,     \* the outcome of the consumer's last call
    db,         \* the committed row of each id, or None
    lock,       \* the consumer whose transaction holds the write lock, or None
    grants,     \* how often accept has returned True for each id
    crashes, failures, mutations    \* counted against the bounds

vars == <<stage, obj, frozen, mutated, won, answer, db, lock, grants,
          crashes, failures, mutations>>

-----------------------------------------------------------------------------
Fields == {"id", "body", "seal"}
Values(f) == IF f = "id" THEN Ids ELSE IF f = "body" THEN Bodies ELSE Signed \cup {Forged}
Records == [id : Ids, body : Bodies, seal : Signed \cup {Forged}]
Partial == [id : Ids \cup {None}, body : Bodies \cup {None},
            seal : Signed \cup {Forged, None}]
Blank == [id |-> None, body |-> None, seal |-> None]

ASSUME NoneAssumption == None \notin Records

\* verify_trusted: the pinned key made the seal over this id and body.
Trusted(r) == r.seal \in Signed /\ r.seal = <<r.id, r.body>>

Init ==
    /\ stage = [c \in Consumers |-> "idle"]
    /\ obj = [c \in Consumers |-> Blank]
    /\ frozen = [c \in Consumers |-> Blank]
    /\ mutated = [c \in Consumers |-> FALSE]
    /\ won = [c \in Consumers |-> FALSE]
    /\ answer = [c \in Consumers |-> "none"]
    /\ db = [id \in Ids |-> None]
    /\ lock = None
    /\ grants = [id \in Ids |-> 0]
    /\ crashes = 0 /\ failures = 0 /\ mutations = 0

\* accept(r) is called.
Call(c, r) ==
    /\ stage[c] = "idle"
    /\ stage' = [stage EXCEPT ![c] = "copying"]
    /\ obj' = [obj EXCEPT ![c] = r]
    /\ mutated' = [mutated EXCEPT ![c] = FALSE]
    /\ answer' = [answer EXCEPT ![c] = "none"]
    /\ UNCHANGED <<frozen, won, db, lock, grants, crashes, failures, mutations>>

\* Another thread of the caller assigns to a field of the record.
Mutate(c, f, v) ==
    /\ stage[c] # "idle"
    /\ mutations < MaxMutations
    /\ mutations' = mutations + 1
    /\ obj' = [obj EXCEPT ![c][f] = v]
    /\ mutated' = [mutated EXCEPT ![c] = TRUE]
    /\ UNCHANGED <<stage, frozen, won, answer, db, lock, grants, crashes, failures>>

\* deepcopy copies one more field.
Copy(c, f) ==
    /\ stage[c] = "copying"
    /\ frozen[c][f] = None
    /\ frozen' = [frozen EXCEPT ![c][f] = obj[c][f]]
    /\ UNCHANGED <<stage, obj, mutated, won, answer, db, lock, grants,
                   crashes, failures, mutations>>

\* The call is over with this outcome; its local variables are gone.
Finish(c, outcome) ==
    /\ stage' = [stage EXCEPT ![c] = "idle"]
    /\ obj' = [obj EXCEPT ![c] = Blank]
    /\ frozen' = [frozen EXCEPT ![c] = Blank]
    /\ won' = [won EXCEPT ![c] = FALSE]
    /\ mutated' = [mutated EXCEPT ![c] = FALSE]
    /\ answer' = [answer EXCEPT ![c] = outcome]

\* deepcopy raises, as it does when the dict changes size under it.
CopyFails(c) ==
    /\ stage[c] = "copying"
    /\ mutated[c] \/ ~Trusted(obj[c])
    /\ Finish(c, "false")
    /\ UNCHANGED <<db, lock, grants, crashes, failures, mutations>>

SubjectLive(c) == obj[c]

\* The record that is verified, encoded and inserted.
Subject(c) == frozen[c]

\* verify_trusted and canonical_json accept the copy.
Verify(c) ==
    /\ stage[c] = "copying"
    /\ \A f \in Fields : frozen[c][f] # None
    /\ Trusted(frozen[c])
    /\ stage' = [stage EXCEPT ![c] = "verified"]
    /\ UNCHANGED <<obj, frozen, mutated, won, answer, db, lock, grants,
                   crashes, failures, mutations>>

\* One of them refuses it.
Reject(c) ==
    /\ stage[c] = "copying"
    /\ \A f \in Fields : frozen[c][f] # None
    /\ ~Trusted(frozen[c])
    /\ Finish(c, "false")
    /\ UNCHANGED <<db, lock, grants, crashes, failures, mutations>>

\* The PRIMARY KEY constraint: the id has a row.
Duplicate(c) == db[Subject(c).id] # None

LockShared(c) == TRUE

\* The write lock is free for the transaction of c.
LockFree(c) == lock = None

\* INSERT takes the write lock and adds the row, or raises IntegrityError.
Insert(c) ==
    /\ stage[c] = "verified"
    /\ LockFree(c)
    /\ lock' = c
    /\ won' = [won EXCEPT ![c] = ~Duplicate(c)]
    /\ stage' = [stage EXCEPT ![c] = "inserted"]
    /\ UNCHANGED <<obj, frozen, mutated, answer, db, grants, crashes, failures, mutations>>

BusyNever(c) == FALSE

\* Another transaction keeps the lock for the whole timeout: accept raises.
Busy(c) ==
    /\ stage[c] = "verified"
    /\ lock # None
    /\ Finish(c, "raised")
    /\ UNCHANGED <<db, lock, grants, crashes, failures, mutations>>

\* The with block ends without an exception: the transaction commits.
Commit(c) ==
    /\ stage[c] = "inserted"
    /\ db' = IF won[c] THEN [db EXCEPT ![Subject(c).id] = Subject(c)] ELSE db
    /\ lock' = None
    /\ stage' = [stage EXCEPT ![c] = "committed"]
    /\ UNCHANGED <<obj, frozen, mutated, won, answer, grants, crashes, failures, mutations>>

FailRefused(c) ==
    /\ stage[c] \in {"verified", "inserted"}
    /\ failures < MaxFailures
    /\ failures' = failures + 1
    /\ lock' = IF lock = c THEN None ELSE lock
    /\ Finish(c, "false")
    /\ UNCHANGED <<db, grants, crashes, mutations>>

\* The statement or the commit raises another error: rolled back, accept raises.
Fail(c) ==
    /\ stage[c] \in {"verified", "inserted"}
    /\ failures < MaxFailures
    /\ failures' = failures + 1
    /\ lock' = IF lock = c THEN None ELSE lock
    /\ Finish(c, "raised")
    /\ UNCHANGED <<db, grants, crashes, mutations>>

OutcomeTrue(c) == TRUE
OutcomeSwapped(c) == ~won[c]

\* What accept returns after the transaction.
Outcome(c) == won[c]

\* accept returns.
Return(c) ==
    /\ stage[c] = "committed"
    /\ grants' = IF Outcome(c) THEN [grants EXCEPT ![Subject(c).id] = @ + 1] ELSE grants
    /\ Finish(c, IF Outcome(c) THEN "true" ELSE "false")
    /\ UNCHANGED <<db, lock, crashes, failures, mutations>>

CrashKeepsLock(c) ==
    /\ stage[c] # "idle"
    /\ crashes < MaxCrashes
    /\ crashes' = crashes + 1
    /\ Finish(c, "none")
    /\ UNCHANGED <<db, lock, grants, failures, mutations>>

\* The consumer dies: its transaction is rolled back, nobody gets an answer.
Crash(c) ==
    /\ stage[c] # "idle"
    /\ crashes < MaxCrashes
    /\ crashes' = crashes + 1
    /\ lock' = IF lock = c THEN None ELSE lock
    /\ Finish(c, "none")
    /\ UNCHANGED <<db, grants, failures, mutations>>

Step(c) ==
    \/ \E f \in Fields : Copy(c, f)
    \/ CopyFails(c) \/ Verify(c) \/ Reject(c)
    \/ Insert(c) \/ Busy(c) \/ Commit(c) \/ Return(c)

Next ==
    \E c \in Consumers :
        \/ \E r \in Records : Call(c, r)
        \/ \E f \in Fields : \E v \in Values(f) : Mutate(c, f, v)
        \/ Step(c)
        \/ Fail(c)
        \/ Crash(c)

Spec == Init /\ [][Next]_vars

\* Every thread inside accept is scheduled again and again; SQLite gives up on
\* a lock after timeout=30 seconds, so a waiting INSERT is a step too.
FairSpec == Spec /\ \A c \in Consumers : WF_vars(Step(c))

-----------------------------------------------------------------------------
(* Properties.                                                             *)

TypeOK ==
    /\ stage \in [Consumers -> {"idle", "copying", "verified", "inserted", "committed"}]
    /\ obj \in [Consumers -> Records \cup {Blank}]
    /\ frozen \in [Consumers -> Partial]
    /\ \A c \in Consumers :
         /\ stage[c] # "idle" => obj[c] \in Records
         /\ stage[c] \in {"verified", "inserted", "committed"} => frozen[c] \in Records
    /\ mutated \in [Consumers -> BOOLEAN] /\ won \in [Consumers -> BOOLEAN]
    /\ answer \in [Consumers -> {"none", "true", "false", "raised"}]
    /\ db \in [Ids -> Records \cup {None}]
    /\ lock \in Consumers \cup {None}
    /\ \A c \in Consumers : lock = c <=> stage[c] = "inserted"
    /\ grants \in [Ids -> Nat]
    /\ crashes \in 0..MaxCrashes /\ failures \in 0..MaxFailures
    /\ mutations \in 0..MaxMutations

\* However many consumers, threads, retries and crashes there are, accept
\* returns True at most once for a correctionId.
AtMostOnce == \A id \in Ids : grants[id] <= 1

\* Only content the producer signed is stored, and under the id it signed: the
\* copy is made before the check, so an assignment by the caller between check
\* and INSERT cannot reach the database.
StoredTrusted == \A id \in Ids : db[id] # None => db[id].id = id /\ Trusted(db[id])

\* The first admission stands: a row is never replaced or removed, not even by
\* a later trusted record with the same id and other content.
FirstStands == [][\A id \in Ids : db[id] # None => db'[id] = db[id]]_vars

\* False for a trusted record the caller left alone means its id is taken.
RefusalJustified ==
    [][\A c \in Consumers :
         /\ answer[c] = "none" /\ answer'[c] = "false"
         /\ ~mutated[c] /\ Trusted(obj[c])
         => db[obj[c].id] # None]_vars

Winners == {c \in Consumers : stage[c] = "committed" /\ won[c]}
Unclaimed == {id \in Ids : db[id] # None /\ grants[id] = 0}

\* An admitted id that nobody was told about is still to be claimed by the one
\* consumer that committed it, or was stranded by a crash: no other path of
\* accept loses an admission.
StrandedByCrash == Cardinality(Unclaimed) <= Cardinality(Winners) + crashes

\* Every call of accept ends, although consumers queue for the lock.
CallEnds == \A c \in Consumers : stage[c] # "idle" ~> stage[c] = "idle"

\* The write lock is never kept for good, whatever becomes of its holder.
LockFreed == lock # None ~> lock = None

(* The strengthening of AtMostOnce and StoredTrusted that every step preserves. *)
VerifiedTrusted ==
    \A c \in Consumers : stage[c] \in {"verified", "inserted", "committed"} => Trusted(frozen[c])
WonInTransaction ==
    \A c \in Consumers : won[c] => stage[c] \in {"inserted", "committed"}
PendingIsFirst ==
    \A c \in Consumers : stage[c] = "inserted" /\ won[c] => db[frozen[c].id] = None
WinnersUnpaid ==
    \A c \in Winners : db[frozen[c].id] # None /\ grants[frozen[c].id] = 0
WinnerUnique ==
    \A c, d \in Winners : frozen[c].id = frozen[d].id => c = d
GrantedStored == \A id \in Ids : grants[id] > 0 => db[id] # None
GuardInv ==
    /\ TypeOK /\ VerifiedTrusted /\ WonInTransaction /\ PendingIsFirst
    /\ WinnersUnpaid /\ WinnerUnique /\ GrantedStored
    /\ AtMostOnce /\ StoredTrusted

RecordId(r) == r.id
Abstract == INSTANCE Admission WITH
    admitted <- db, granted <- {id \in Ids : grants[id] > 0},
    IdOf <- RecordId

\* The guard behaves as the admission of module Admission.
ImplementsAdmission == Abstract!AdmissionSpec
==============================================================================
