-------------------------- MODULE ReplayGuardProofs --------------------------
(* At-most-once admission for any consumers, ids and numbers of crashes. *)
EXTENDS ReplayGuard, FiniteSetTheorems, TLAPS

Outcomes == {"none", "true", "false", "raised"}

LEMMA BlankPartial == Blank \in Partial
BY DEF Blank, Partial

(* A call that ends leaves its consumer's variables well typed. *)
LEMMA FinishTyped ==
    ASSUME TypeOK, NEW c \in Consumers, NEW o \in Outcomes, Finish(c, o)
    PROVE  /\ stage' \in [Consumers -> {"idle", "copying", "verified", "inserted", "committed"}]
           /\ obj' \in [Consumers -> Records \cup {Blank}]
           /\ frozen' \in [Consumers -> Partial]
           /\ \A d \in Consumers :
                /\ stage'[d] # "idle" => obj'[d] \in Records
                /\ stage'[d] \in {"verified", "inserted", "committed"} => frozen'[d] \in Records
           /\ mutated' \in [Consumers -> BOOLEAN] /\ won' \in [Consumers -> BOOLEAN]
           /\ answer' \in [Consumers -> Outcomes]
BY BlankPartial DEF TypeOK, Finish, Outcomes

LEMMA TypeInit == Init => TypeOK
BY BlankPartial, SignedAssumption, BoundsAssumption DEF Init, TypeOK

LEMMA TypeStep == TypeOK /\ [Next]_vars => TypeOK'
<1> SUFFICES ASSUME TypeOK, [Next]_vars PROVE TypeOK'
  OBVIOUS
<1> USE BoundsAssumption, SignedAssumption
<1>1. ASSUME NEW c \in Consumers, NEW r \in Records, Call(c, r) PROVE TypeOK'
  BY <1>1 DEF Call, TypeOK
<1>2. ASSUME NEW c \in Consumers, NEW f \in Fields, NEW v \in Values(f), Mutate(c, f, v)
      PROVE  TypeOK'
  <2>1. obj[c] \in Records
    BY <1>2 DEF Mutate, TypeOK
  <2>2. [obj[c] EXCEPT ![f] = v] \in Records
    BY <2>1 DEF Fields, Values, Records
  <2>3. obj' \in [Consumers -> Records \cup {Blank}] /\ obj'[c] \in Records
    BY <1>2, <2>2 DEF Mutate, TypeOK
  <2>4. mutations' \in 0..MaxMutations /\ mutated' \in [Consumers -> BOOLEAN]
    BY <1>2 DEF Mutate, TypeOK
  <2>5. \A d \in Consumers : stage[d] # "idle" => obj'[d] \in Records
    BY <1>2, <2>3 DEF Mutate, TypeOK
  <2> QED BY <1>2, <2>3, <2>4, <2>5 DEF Mutate, TypeOK
<1>3. ASSUME NEW c \in Consumers, NEW f \in Fields, Copy(c, f) PROVE TypeOK'
  <2>1. obj[c] \in Records /\ frozen[c] \in Partial
    BY <1>3 DEF Copy, TypeOK
  <2>2. [frozen[c] EXCEPT ![f] = obj[c][f]] \in Partial
    BY <2>1 DEF Fields, Partial, Records
  <2>3. frozen' \in [Consumers -> Partial]
    BY <1>3, <2>2 DEF Copy, TypeOK
  <2> QED BY <1>3, <2>3 DEF Copy, TypeOK
<1>4. ASSUME NEW c \in Consumers, CopyFails(c) \/ Reject(c) PROVE TypeOK'
  <2>1. Finish(c, "false") /\ "false" \in Outcomes /\ stage[c] = "copying"
    BY <1>4 DEF CopyFails, Reject, Outcomes
  <2> QED BY <1>4, <2>1, FinishTyped, ZenonT(60) DEF CopyFails, Reject, TypeOK, Outcomes, Finish
<1>5. ASSUME NEW c \in Consumers, Verify(c) PROVE TypeOK'
  <2>1. frozen[c] \in Records
    BY <1>5 DEF Verify, TypeOK, Fields, Partial, Records
  <2> QED BY <1>5, <2>1 DEF Verify, TypeOK
<1>6. ASSUME NEW c \in Consumers, Insert(c) PROVE TypeOK'
  BY <1>6 DEF Insert, LockFree, TypeOK
<1>7. ASSUME NEW c \in Consumers, Busy(c) PROVE TypeOK'
  <2>1. Finish(c, "raised") /\ "raised" \in Outcomes
    BY <1>7 DEF Busy, Outcomes
  <2> QED BY <1>7, <2>1, FinishTyped, ZenonT(60) DEF Busy, TypeOK, Outcomes, Finish
<1>8. ASSUME NEW c \in Consumers, Commit(c) PROVE TypeOK'
  <2>1. Subject(c) \in Records
    BY <1>8 DEF Commit, Subject, TypeOK
  <2>2. db' \in [Ids -> Records \cup {None}]
    BY <1>8, <2>1 DEF Commit, TypeOK
  <2>3. \A d \in Consumers : lock' = d <=> stage'[d] = "inserted"
    <3>1. None \notin Consumers /\ lock = c
      BY <1>8 DEF Commit, TypeOK
    <3>2. \A d \in Consumers : stage[d] = "inserted" => d = c
      BY <3>1 DEF TypeOK
    <3> QED BY <1>8, <3>1, <3>2 DEF Commit, TypeOK
  <2>4. \A d \in Consumers :
           stage'[d] \in {"verified", "inserted", "committed"} => frozen'[d] \in Records
    BY <1>8 DEF Commit, TypeOK
  <2>5. \A d \in Consumers : stage'[d] # "idle" => obj'[d] \in Records
    BY <1>8 DEF Commit, TypeOK
  <2>6. /\ stage' \in [Consumers -> {"idle", "copying", "verified", "inserted", "committed"}]
        /\ lock' \in Consumers \cup {None}
    BY <1>8 DEF Commit, TypeOK
  <2>7. UNCHANGED <<obj, frozen, mutated, won, answer, grants, crashes, failures, mutations>>
    BY <1>8 DEF Commit
  <2> QED BY <2>2, <2>3, <2>4, <2>5, <2>6, <2>7 DEF TypeOK
<1>9. ASSUME NEW c \in Consumers, Fail(c) PROVE TypeOK'
  <2>1. Finish(c, "raised") /\ "raised" \in Outcomes
    BY <1>9 DEF Fail, Outcomes
  <2>2. failures' \in 0..MaxFailures
    BY <1>9 DEF Fail, TypeOK
  <2>3. /\ lock' \in Consumers \cup {None}
        /\ \A d \in Consumers : lock' = d <=> stage'[d] = "inserted"
    <3>1. \A d \in Consumers : /\ d = c => stage'[d] = "idle"
                               /\ d # c => stage'[d] = stage[d]
      BY <2>1 DEF Finish, TypeOK
    <3>2. lock' = IF lock = c THEN None ELSE lock
      BY <1>9 DEF Fail
    <3> QED BY <3>1, <3>2 DEF TypeOK
  <2> QED BY <1>9, <2>1, <2>2, <2>3, FinishTyped DEF Fail, TypeOK, Outcomes
<1>10. ASSUME NEW c \in Consumers, Return(c) PROVE TypeOK'
  <2>1. PICK o \in Outcomes : Finish(c, o)
    BY <1>10 DEF Return, Outcomes
  <2>2. grants' \in [Ids -> Nat]
    <3>1. Subject(c).id \in Ids
      BY <1>10 DEF Return, Subject, TypeOK, Records
    <3> QED BY <1>10, <3>1 DEF Return, TypeOK
  <2> QED BY <1>10, <2>1, <2>2, FinishTyped, ZenonT(60) DEF Return, TypeOK, Outcomes, Finish
<1>11. ASSUME NEW c \in Consumers, Crash(c) PROVE TypeOK'
  <2>1. Finish(c, "none") /\ "none" \in Outcomes
    BY <1>11 DEF Crash, Outcomes
  <2>2. crashes' \in 0..MaxCrashes
    BY <1>11 DEF Crash, TypeOK
  <2>3. /\ lock' \in Consumers \cup {None}
        /\ \A d \in Consumers : lock' = d <=> stage'[d] = "inserted"
    <3>1. \A d \in Consumers : /\ d = c => stage'[d] = "idle"
                               /\ d # c => stage'[d] = stage[d]
      BY <2>1 DEF Finish, TypeOK
    <3>2. lock' = IF lock = c THEN None ELSE lock
      BY <1>11 DEF Crash
    <3> QED BY <3>1, <3>2 DEF TypeOK
  <2> QED BY <1>11, <2>1, <2>2, <2>3, FinishTyped DEF Crash, TypeOK, Outcomes
<1>12. ASSUME UNCHANGED vars PROVE TypeOK'
  BY <1>12 DEF vars, TypeOK
<1> QED BY <1>1, <1>2, <1>3, <1>4, <1>5, <1>6, <1>7, <1>8, <1>9, <1>10, <1>11, <1>12
       DEF Next, Step

(* Every reachable state of the guard is well formed; in particular the lock  *)
(* is held exactly while its holder's transaction is open.                    *)
THEOREM GuardTypeCorrect == Spec => []TypeOK
<1> QED BY TypeInit, TypeStep, PTL DEF Spec

-----------------------------------------------------------------------------
(* At most once.                                                           *)

(* A trusted record carries an id the producer signed. *)
LEMMA TrustedHasId ==
    ASSUME NEW r, Trusted(r) PROVE r.id \in Ids
BY SignedAssumption DEF Trusted

(* No record of the model is the missing value. *)
LEMMA TrustedNotNone ==
    ASSUME NEW r \in Records PROVE r # None
BY NoneAssumption

(* A consumer that leaves accept without committing anything disturbs nothing. *)
LEMMA FinishKeeps ==
    ASSUME GuardInv, TypeOK', NEW c \in Consumers, NEW o \in Outcomes, Finish(c, o),
           UNCHANGED <<db, grants>>
    PROVE  GuardInv'
<1>1. \A d \in Consumers : /\ d = c => stage'[d] = "idle" /\ ~won'[d]
                           /\ d # c => /\ stage'[d] = stage[d] /\ won'[d] = won[d]
                                       /\ frozen'[d] = frozen[d]
  BY ZenonT(60) DEF GuardInv, TypeOK, Finish
<1>2. VerifiedTrusted' /\ WonInTransaction' /\ PendingIsFirst'
  BY <1>1 DEF GuardInv, VerifiedTrusted, WonInTransaction, PendingIsFirst
<1>3. \A d \in Winners' : d \in Winners /\ frozen'[d] = frozen[d]
  BY <1>1 DEF Winners
<1>4. WinnersUnpaid' /\ WinnerUnique'
  BY <1>3 DEF GuardInv, WinnersUnpaid, WinnerUnique
<1>5. GrantedStored' /\ AtMostOnce' /\ StoredTrusted'
  BY DEF GuardInv, GrantedStored, AtMostOnce, StoredTrusted
<1> QED BY <1>2, <1>4, <1>5 DEF GuardInv

LEMMA GuardInit == Init => GuardInv
<1> SUFFICES ASSUME Init PROVE GuardInv
  OBVIOUS
<1>1. TypeOK
  BY TypeInit
<1>2. VerifiedTrusted /\ WonInTransaction /\ PendingIsFirst /\ WinnersUnpaid /\ WinnerUnique
  BY DEF Init, VerifiedTrusted, WonInTransaction, PendingIsFirst, WinnersUnpaid,
         WinnerUnique, Winners
<1>3. GrantedStored /\ AtMostOnce /\ StoredTrusted
  BY DEF Init, GrantedStored, AtMostOnce, StoredTrusted
<1> QED BY <1>1, <1>2, <1>3 DEF GuardInv

LEMMA GuardStep == GuardInv /\ [Next]_vars => GuardInv'
<1> SUFFICES ASSUME GuardInv, [Next]_vars PROVE GuardInv'
  OBVIOUS
<1>0. TypeOK /\ TypeOK'
  BY TypeStep DEF GuardInv
<1>1. ASSUME UNCHANGED <<db, grants>>,
             \A d \in Consumers : /\ won'[d] = won[d]
                                  /\ stage[d] \in {"verified", "inserted", "committed"}
                                     \/ stage'[d] \in {"verified", "inserted", "committed"}
                                     => /\ stage'[d] = stage[d]
                                        /\ frozen'[d] = frozen[d]
      PROVE  GuardInv'
  <2>1. VerifiedTrusted' /\ WonInTransaction' /\ PendingIsFirst'
    BY <1>1 DEF GuardInv, VerifiedTrusted, WonInTransaction, PendingIsFirst
  <2>2. \A d \in Winners' : d \in Winners /\ frozen'[d] = frozen[d]
    BY <1>1 DEF Winners
  <2>3. WinnersUnpaid' /\ WinnerUnique'
    BY <1>1, <2>2 DEF GuardInv, WinnersUnpaid, WinnerUnique
  <2>4. GrantedStored' /\ AtMostOnce' /\ StoredTrusted'
    BY <1>1 DEF GuardInv, GrantedStored, AtMostOnce, StoredTrusted
  <2> QED BY <1>0, <2>1, <2>3, <2>4 DEF GuardInv
<1>2. ASSUME NEW c \in Consumers,
             (\E r \in Records : Call(c, r))
             \/ (\E f \in Fields : \E v \in Values(f) : Mutate(c, f, v))
             \/ (\E f \in Fields : Copy(c, f))
      PROVE  GuardInv'
  BY <1>0, <1>1, <1>2 DEF Call, Mutate, Copy, TypeOK
<1>3. ASSUME NEW c \in Consumers, CopyFails(c) \/ Reject(c) \/ Busy(c) \/ Fail(c) \/ Crash(c)
      PROVE  GuardInv'
  <2>1. \E o \in Outcomes : Finish(c, o)
    BY <1>3 DEF CopyFails, Reject, Busy, Fail, Crash, Outcomes
  <2>2. UNCHANGED <<db, grants>>
    BY <1>3 DEF CopyFails, Reject, Busy, Fail, Crash
  <2> QED BY <1>0, <2>1, <2>2, FinishKeeps
<1>4. ASSUME NEW c \in Consumers, Verify(c) PROVE GuardInv'
  <2>1. \A d \in Consumers : /\ d = c => stage'[d] = "verified" /\ Trusted(frozen'[d])
                             /\ d # c => stage'[d] = stage[d]
                             /\ won'[d] = won[d] /\ frozen'[d] = frozen[d]
    BY <1>0, <1>4 DEF Verify, TypeOK
  <2>2. UNCHANGED <<db, grants>> /\ stage[c] = "copying"
    BY <1>4 DEF Verify
  <2>3. VerifiedTrusted' /\ WonInTransaction' /\ PendingIsFirst'
    BY <2>1, <2>2 DEF GuardInv, VerifiedTrusted, WonInTransaction, PendingIsFirst
  <2>4. \A d \in Winners' : d \in Winners /\ frozen'[d] = frozen[d]
    BY <2>1 DEF Winners
  <2>5. WinnersUnpaid' /\ WinnerUnique'
    BY <2>2, <2>4 DEF GuardInv, WinnersUnpaid, WinnerUnique
  <2>6. GrantedStored' /\ AtMostOnce' /\ StoredTrusted'
    BY <2>2 DEF GuardInv, GrantedStored, AtMostOnce, StoredTrusted
  <2> QED BY <1>0, <2>3, <2>5, <2>6 DEF GuardInv
<1>5. ASSUME NEW c \in Consumers, Insert(c) PROVE GuardInv'
  <2>1. \A d \in Consumers : /\ d = c => stage'[d] = "inserted" /\ won'[d] = ~Duplicate(c)
                             /\ d # c => stage'[d] = stage[d] /\ won'[d] = won[d]
                             /\ frozen'[d] = frozen[d]
    BY <1>0, <1>5 DEF Insert, TypeOK
  <2>2. UNCHANGED <<db, grants>> /\ stage[c] = "verified"
    BY <1>5 DEF Insert
  <2>3. VerifiedTrusted' /\ WonInTransaction'
    BY <2>1, <2>2 DEF GuardInv, VerifiedTrusted, WonInTransaction
  <2>4. PendingIsFirst'
    BY <2>1, <2>2, ZenonT(60) DEF GuardInv, PendingIsFirst, Duplicate, Subject
  <2>5. \A d \in Winners' : d \in Winners /\ frozen'[d] = frozen[d]
    BY <2>1 DEF Winners
  <2>6. WinnersUnpaid' /\ WinnerUnique'
    BY <2>2, <2>5 DEF GuardInv, WinnersUnpaid, WinnerUnique
  <2>7. GrantedStored' /\ AtMostOnce' /\ StoredTrusted'
    BY <2>2 DEF GuardInv, GrantedStored, AtMostOnce, StoredTrusted
  <2> QED BY <1>0, <2>3, <2>4, <2>6, <2>7 DEF GuardInv
<1>6. ASSUME NEW c \in Consumers, Commit(c) PROVE GuardInv'
  <2>1. \A d \in Consumers : /\ d = c => stage[d] = "inserted" /\ stage'[d] = "committed"
                             /\ d # c => stage'[d] = stage[d] /\ stage[d] # "inserted"
                             /\ won'[d] = won[d] /\ frozen'[d] = frozen[d]
    <3>1. \A d \in Consumers : stage[d] = "inserted" => d = c
      BY <1>0, <1>6 DEF Commit, TypeOK
    <3> QED BY <1>0, <1>6, <3>1 DEF Commit, TypeOK
  <2>2. grants' = grants /\ Trusted(frozen[c]) /\ frozen[c].id \in Ids /\ frozen[c] \in Records
    BY <1>0, <1>6, TrustedHasId DEF Commit, GuardInv, VerifiedTrusted, TypeOK
  <2>3. VerifiedTrusted' /\ WonInTransaction' /\ PendingIsFirst'
    BY <2>1 DEF GuardInv, VerifiedTrusted, WonInTransaction, PendingIsFirst
  <2>4. CASE ~won[c]
    <3>1. db' = db
      BY <1>6, <2>4 DEF Commit
    <3>2. \A d \in Winners' : d \in Winners /\ frozen'[d] = frozen[d]
      BY <2>1, <2>4 DEF Winners
    <3>3. WinnersUnpaid' /\ WinnerUnique'
      BY <2>2, <3>1, <3>2 DEF GuardInv, WinnersUnpaid, WinnerUnique
    <3>4. GrantedStored' /\ AtMostOnce' /\ StoredTrusted'
      BY <2>2, <3>1 DEF GuardInv, GrantedStored, AtMostOnce, StoredTrusted
    <3> QED BY <1>0, <2>3, <3>3, <3>4 DEF GuardInv
  <2>5. CASE won[c]
    <3>1. db' = [db EXCEPT ![frozen[c].id] = frozen[c]] /\ db \in [Ids -> Records \cup {None}]
      BY <1>0, <1>6, <2>5 DEF Commit, Subject, TypeOK
    <3>2. db[frozen[c].id] = None
      BY <2>1, <2>5 DEF GuardInv, PendingIsFirst
    <3>3. frozen[c] # None
      BY <2>2, SignedAssumption, TrustedNotNone
    <3>4. /\ db'[frozen[c].id] = frozen[c]
          /\ \A id \in Ids : id # frozen[c].id => db'[id] = db[id]
      BY <2>2, <3>1
    <3>5. grants[frozen[c].id] = 0
      BY <1>0, <2>2, <3>2 DEF GuardInv, GrantedStored, TypeOK
    <3>6. \A d \in Winners' : /\ frozen'[d] = frozen[d] /\ frozen[d].id \in Ids
                              /\ d = c \/ d \in Winners
      BY <2>1, TrustedHasId DEF Winners, GuardInv, VerifiedTrusted
    <3>7. \A d \in Winners : frozen[d].id # frozen[c].id
      BY <3>2 DEF GuardInv, WinnersUnpaid
    <3>8. WinnersUnpaid'
      BY <2>2, <3>3, <3>4, <3>5, <3>6, <3>7 DEF GuardInv, WinnersUnpaid
    <3>9. WinnerUnique'
      BY <3>6, <3>7 DEF GuardInv, WinnerUnique
    <3>10. GrantedStored' /\ AtMostOnce' /\ StoredTrusted'
      BY <2>2, <3>3, <3>4 DEF GuardInv, GrantedStored, AtMostOnce, StoredTrusted
    <3> QED BY <1>0, <2>3, <3>8, <3>9, <3>10 DEF GuardInv
  <2> QED BY <2>4, <2>5
<1>7. ASSUME NEW c \in Consumers, Return(c) PROVE GuardInv'
  <2>1. \E o \in Outcomes : Finish(c, o)
    BY <1>7 DEF Return, Outcomes
  <2>2. CASE ~won[c]
    <3>1. UNCHANGED <<db, grants>>
      BY <1>7, <2>2 DEF Return, Outcome
    <3> QED BY <1>0, <2>1, <3>1, FinishKeeps
  <2>3. CASE won[c]
    <3>1. /\ db' = db /\ grants' = [grants EXCEPT ![frozen[c].id] = @ + 1]
          /\ c \in Winners /\ frozen[c].id \in Ids
      BY <1>7, <2>3, TrustedHasId
         DEF Return, Outcome, Subject, Winners, GuardInv, VerifiedTrusted
    <3>2. grants[frozen[c].id] = 0 /\ db[frozen[c].id] # None
      BY <3>1 DEF GuardInv, WinnersUnpaid
    <3>3. /\ grants'[frozen[c].id] = 1
          /\ \A id \in Ids : id # frozen[c].id => grants'[id] = grants[id]
      BY <1>0, <3>1, <3>2 DEF TypeOK
    <3>4. \A d \in Consumers : /\ d = c => stage'[d] = "idle" /\ ~won'[d]
                               /\ d # c => /\ stage'[d] = stage[d] /\ won'[d] = won[d]
                                           /\ frozen'[d] = frozen[d]
      BY <1>0, <2>1, ZenonT(60) DEF TypeOK, Finish
    <3>5. VerifiedTrusted' /\ WonInTransaction' /\ PendingIsFirst'
      BY <3>1, <3>4 DEF GuardInv, VerifiedTrusted, WonInTransaction, PendingIsFirst
    <3>6. \A d \in Winners' : /\ d \in Winners /\ d # c /\ frozen'[d] = frozen[d]
                              /\ frozen[d].id \in Ids
      BY <3>4, TrustedHasId DEF Winners, GuardInv, VerifiedTrusted
    <3>7. WinnersUnpaid' /\ WinnerUnique'
      BY <3>1, <3>3, <3>6 DEF GuardInv, WinnersUnpaid, WinnerUnique
    <3>8. GrantedStored' /\ AtMostOnce' /\ StoredTrusted'
      BY <3>1, <3>2, <3>3 DEF GuardInv, GrantedStored, AtMostOnce, StoredTrusted
    <3> QED BY <1>0, <3>5, <3>7, <3>8 DEF GuardInv
  <2> QED BY <2>2, <2>3
<1>8. CASE UNCHANGED vars
  BY <1>0, <1>1, <1>8 DEF vars
<1> QED BY <1>2, <1>3, <1>4, <1>5, <1>6, <1>7, <1>8 DEF Next, Step

LEMMA GuardInvariant == Spec => []GuardInv
<1> QED BY GuardInit, GuardStep, PTL DEF Spec

(* However many consumers there are and however they crash and retry, accept *)
(* returns True at most once for a correctionId.                             *)
THEOREM AdmittedAtMostOnce == Spec => []AtMostOnce
<1>1. GuardInv => AtMostOnce
  BY DEF GuardInv
<1> QED BY <1>1, GuardInvariant, PTL

(* Nothing but content the producer signed ever reaches the database, even   *)
(* though the caller may go on assigning to its record.                      *)
THEOREM OnlyTrustedStored == Spec => []StoredTrusted
<1>1. GuardInv => StoredTrusted
  BY DEF GuardInv
<1> QED BY <1>1, GuardInvariant, PTL

-----------------------------------------------------------------------------
(* The guard implements abstract admission.                                *)

(* The steps that matter to the outside, and that every other step leaves  *)
(* the database and the grants alone.                                      *)
LEMMA VisibleSteps ==
    ASSUME GuardInv, [Next]_vars
    PROVE  \/ UNCHANGED <<db, grants>>
           \/ \E c \in Consumers :
                 /\ stage[c] = "inserted" /\ won[c]
                 /\ db' = [db EXCEPT ![frozen[c].id] = frozen[c]] /\ grants' = grants
           \/ \E c \in Winners :
                 grants' = [grants EXCEPT ![frozen[c].id] = @ + 1] /\ db' = db
<1>1. ASSUME NEW c \in Consumers, Commit(c)
      PROVE  \/ UNCHANGED <<db, grants>>
             \/ /\ stage[c] = "inserted" /\ won[c]
                /\ db' = [db EXCEPT ![frozen[c].id] = frozen[c]] /\ grants' = grants
  BY <1>1 DEF Commit, Subject
<1>2. ASSUME NEW c \in Consumers, Return(c)
      PROVE  \/ UNCHANGED <<db, grants>>
             \/ /\ c \in Winners /\ db' = db
                /\ grants' = [grants EXCEPT ![frozen[c].id] = @ + 1]
  BY <1>2 DEF Return, Outcome, Subject, Winners
<1>3. \/ UNCHANGED <<db, grants>>
      \/ \E c \in Consumers : Commit(c) \/ Return(c)
  BY DEF Next, Step, vars, Call, Mutate, Copy, CopyFails, Verify, Reject, Insert, Busy,
         Fail, Crash
<1> QED BY <1>1, <1>2, <1>3

(* A row, once committed, is the row for good. *)
THEOREM FirstAdmissionStands == Spec => FirstStands
<1>1. GuardInv /\ [Next]_vars => [\A id \in Ids : db[id] # None => db'[id] = db[id]]_vars
  <2>1. SUFFICES ASSUME GuardInv, [Next]_vars, NEW id \in Ids, db[id] # None
                 PROVE  db'[id] = db[id]
    OBVIOUS
  <2>2. CASE UNCHANGED <<db, grants>>
    BY <2>2
  <2>3. ASSUME NEW c \in Consumers, stage[c] = "inserted", won[c],
               db' = [db EXCEPT ![frozen[c].id] = frozen[c]]
        PROVE  db'[id] = db[id]
    <3>1. db[frozen[c].id] = None
      BY <2>1, <2>3 DEF GuardInv, PendingIsFirst
    <3>2. db \in [Ids -> Records \cup {None}]
      BY <2>1 DEF GuardInv, TypeOK
    <3>3. id # frozen[c].id
      BY <2>1, <3>1
    <3> QED BY <2>1, <2>3, <3>2, <3>3
  <2> QED BY <2>1, <2>2, <2>3, VisibleSteps
<1> QED BY <1>1, GuardInvariant, PTL DEF Spec, FirstStands

(* Processes, locks and transactions are not visible to callers: the rows and *)
(* the answers behave as in module Admission.                                 *)
THEOREM GuardImplementsAdmission == Spec => ImplementsAdmission
<1> DEFINE granted == {id \in Ids : grants[id] > 0}
<1>1. Init => Abstract!AdmissionInit
  BY DEF Init, Abstract!AdmissionInit
<1>2. GuardInv /\ [Next]_vars => [Abstract!AdmissionNext]_(Abstract!admissionVars)
  <2> SUFFICES ASSUME GuardInv, [Next]_vars
               PROVE  [Abstract!AdmissionNext]_(Abstract!admissionVars)
    OBVIOUS
  <2>1. CASE UNCHANGED <<db, grants>>
    BY <2>1 DEF Abstract!admissionVars
  <2>2. ASSUME NEW c \in Consumers, stage[c] = "inserted", won[c],
               db' = [db EXCEPT ![frozen[c].id] = frozen[c]], grants' = grants
        PROVE  Abstract!AdmissionNext
    <3>1. Trusted(frozen[c]) /\ frozen[c] \in Records
      BY <2>2 DEF GuardInv, VerifiedTrusted, TypeOK
    <3>2. db[frozen[c].id] = None
      BY <2>2 DEF GuardInv, PendingIsFirst
    <3>3. Abstract!Admit(frozen[c])
      BY <2>2, <3>1, <3>2 DEF Abstract!Admit, RecordId
    <3> QED BY <3>1, <3>3 DEF Abstract!AdmissionNext
  <2>3. ASSUME NEW c \in Winners,
               grants' = [grants EXCEPT ![frozen[c].id] = @ + 1], db' = db
        PROVE  Abstract!AdmissionNext
    <3>1. PICK i \in Ids : i = frozen[c].id
      BY TrustedHasId DEF GuardInv, VerifiedTrusted, Winners
    <3>2. db[i] # None /\ grants[i] = 0
      BY <3>1 DEF GuardInv, WinnersUnpaid
    <3>3. grants \in [Ids -> Nat]
      BY DEF GuardInv, TypeOK
    <3>4. grants'[i] = 1 /\ \A id \in Ids : id # i => grants'[id] = grants[id]
      BY <2>3, <3>1, <3>2, <3>3
    <3>5. granted' = granted \cup {i} /\ i \notin granted
      BY <3>1, <3>2, <3>4
    <3>6. Abstract!Grant(i)
      BY <2>3, <3>2, <3>5 DEF Abstract!Grant
    <3> QED BY <3>6 DEF Abstract!AdmissionNext
  <2> QED BY <2>1, <2>2, <2>3, VisibleSteps
<1> QED BY <1>1, <1>2, GuardInvariant, PTL
       DEF Spec, ImplementsAdmission, Abstract!AdmissionSpec

-----------------------------------------------------------------------------
(* Why accept says no.                                                     *)

(* The copy of a record nobody touched agrees with it as far as it is made. *)
Agrees(c) == \A f \in Fields : frozen[c][f] = None \/ frozen[c][f] = obj[c][f]

Refusing(c) ==
    /\ stage[c] = "idle" => frozen[c] = Blank
    /\ stage[c] # "idle" /\ ~mutated[c] => Agrees(c)
    /\ stage[c] \in {"inserted", "committed"} /\ ~won[c] => db[frozen[c].id] # None

RefusalInv == \A c \in Consumers : Refusing(c)

LEMMA RefusalInit == Init => RefusalInv
BY DEF Init, RefusalInv, Refusing

(* A row that is there stays there. *)
LEMMA RowsStay ==
    ASSUME GuardInv, [Next]_vars, NEW i, db[i] # None, i \in Ids
    PROVE  db'[i] # None
<1>1. CASE UNCHANGED <<db, grants>>
  BY <1>1
<1>2. ASSUME NEW c \in Consumers, stage[c] = "inserted", won[c],
             db' = [db EXCEPT ![frozen[c].id] = frozen[c]]
      PROVE  db'[i] # None
  <2>1. db[frozen[c].id] = None /\ db \in [Ids -> Records \cup {None}]
    BY <1>2 DEF GuardInv, PendingIsFirst, TypeOK
  <2> QED BY <1>2, <2>1
<1> QED BY <1>1, <1>2, VisibleSteps

(* Whom a step leaves alone still has its reason to refuse. *)
LEMMA RefusingKept ==
    ASSUME GuardInv, [Next]_vars, NEW c \in Consumers, Refusing(c),
           stage'[c] = stage[c], frozen'[c] = frozen[c], obj'[c] = obj[c],
           mutated'[c] = mutated[c], won'[c] = won[c]
    PROVE  Refusing(c)'
<1>1. Agrees(c)' = Agrees(c)
  BY DEF Agrees
<1>2. stage[c] \in {"inserted", "committed"} => frozen[c].id \in Ids
  BY DEF GuardInv, TypeOK, Records
<1>3. stage[c] \in {"inserted", "committed"} /\ ~won[c] => db'[frozen[c].id] # None
  BY <1>2, RowsStay DEF Refusing
<1> QED BY <1>1, <1>3 DEF Refusing

LEMMA RefusalStep == GuardInv /\ RefusalInv /\ [Next]_vars => RefusalInv'
<1> SUFFICES ASSUME GuardInv, RefusalInv, [Next]_vars PROVE RefusalInv'
  OBVIOUS
<1>0. TypeOK /\ TypeOK'
  BY TypeStep DEF GuardInv
<1>1. ASSUME NEW c \in Consumers, Refusing(c)',
             \A d \in Consumers \ {c} :
                /\ stage'[d] = stage[d] /\ frozen'[d] = frozen[d] /\ obj'[d] = obj[d]
                /\ mutated'[d] = mutated[d] /\ won'[d] = won[d]
      PROVE  RefusalInv'
  BY <1>1, RefusingKept DEF RefusalInv
<1>2. ASSUME NEW c \in Consumers, NEW r \in Records, Call(c, r) PROVE RefusalInv'
  <2>1. stage[c] = "idle" /\ stage'[c] = "copying" /\ frozen'[c] = Blank
    BY <1>0, <1>2 DEF Call, TypeOK, RefusalInv, Refusing
  <2>2. Refusing(c)'
    BY <2>1 DEF Refusing, Agrees, Blank, Fields
  <2> QED BY <1>0, <1>1, <1>2, <2>2 DEF Call, TypeOK
<1>3. ASSUME NEW c \in Consumers, NEW f \in Fields, NEW v \in Values(f), Mutate(c, f, v)
      PROVE  RefusalInv'
  <2>1. mutated'[c] /\ stage'[c] # "idle"
    BY <1>0, <1>3 DEF Mutate, TypeOK
  <2>2. Refusing(c)'
    BY <1>3, <2>1 DEF Mutate, RefusalInv, Refusing
  <2> QED BY <1>0, <1>1, <1>3, <2>2 DEF Mutate, TypeOK
<1>4. ASSUME NEW c \in Consumers, NEW f \in Fields, Copy(c, f) PROVE RefusalInv'
  <2>1. /\ stage'[c] = "copying" /\ obj'[c] = obj[c] /\ mutated'[c] = mutated[c]
        /\ frozen'[c] = [frozen[c] EXCEPT ![f] = obj[c][f]]
        /\ frozen[c] \in Partial
    BY <1>0, <1>4 DEF Copy, TypeOK
  <2>2. Agrees(c) => Agrees(c)'
    BY <2>1 DEF Agrees, Partial, Fields
  <2>3. Refusing(c)'
    BY <1>4, <2>1, <2>2 DEF Copy, RefusalInv, Refusing
  <2> QED BY <1>0, <1>1, <1>4, <2>3 DEF Copy, TypeOK
<1>5. ASSUME NEW c \in Consumers, NEW o \in Outcomes, Finish(c, o) PROVE RefusalInv'
  <2>1. stage'[c] = "idle" /\ frozen'[c] = Blank
    BY <1>0, <1>5 DEF Finish, TypeOK
  <2>2. Refusing(c)'
    BY <2>1 DEF Refusing
  <2> QED BY <1>0, <1>1, <1>5, <2>2 DEF Finish, TypeOK
<1>6. ASSUME NEW c \in Consumers, Verify(c) \/ Insert(c) \/ Commit(c) PROVE RefusalInv'
  <2>1. /\ stage[c] # "idle" /\ stage'[c] # "idle"
        /\ UNCHANGED <<obj, frozen, mutated>>
    BY <1>0, <1>6 DEF Verify, Insert, Commit, TypeOK
  <2>2. Agrees(c)' = Agrees(c)
    BY <2>1 DEF Agrees
  <2>3. stage'[c] \in {"inserted", "committed"} /\ ~won'[c] => db'[frozen[c].id] # None
    <3>1. CASE Verify(c)
      BY <1>0, <3>1 DEF Verify, TypeOK
    <3>2. CASE Insert(c)
      BY <1>0, <3>2 DEF Insert, Duplicate, Subject, TypeOK
    <3>3. CASE Commit(c)
      BY <3>3 DEF Commit, RefusalInv, Refusing
    <3> QED BY <1>6, <3>1, <3>2, <3>3
  <2>4. Refusing(c)'
    BY <2>1, <2>2, <2>3 DEF RefusalInv, Refusing
  <2>5. \A d \in Consumers \ {c} : stage'[d] = stage[d] /\ won'[d] = won[d]
    BY <1>0, <1>6 DEF Verify, Insert, Commit, TypeOK
  <2> QED BY <1>1, <2>1, <2>4, <2>5
<1>7. ASSUME NEW c \in Consumers,
             CopyFails(c) \/ Reject(c) \/ Busy(c) \/ Return(c) \/ Fail(c) \/ Crash(c)
      PROVE  RefusalInv'
  <2>1. \E o \in Outcomes : Finish(c, o)
    BY <1>7 DEF CopyFails, Reject, Busy, Return, Fail, Crash, Outcomes
  <2> QED BY <1>5, <2>1
<1>8. CASE UNCHANGED vars
  BY <1>8 DEF vars, RefusalInv, Refusing, Agrees
<1> QED BY <1>2, <1>3, <1>4, <1>6, <1>7, <1>8 DEF Next, Step

(* False, for a trusted record nobody touched during the call, means that its *)
(* id has a row: neither the copy, nor a failure, nor a race for the lock is   *)
(* ever reported as a replay.                                                  *)
THEOREM RefusalsJustified == Spec => RefusalJustified
<1>1. GuardInv /\ RefusalInv /\ [Next]_vars =>
        [\A c \in Consumers :
            /\ answer[c] = "none" /\ answer'[c] = "false"
            /\ ~mutated[c] /\ Trusted(obj[c])
            => db[obj[c].id] # None]_vars
  <2> SUFFICES ASSUME GuardInv, RefusalInv, Next, NEW c \in Consumers,
                      answer[c] = "none", answer'[c] = "false",
                      ~mutated[c], Trusted(obj[c])
               PROVE  db[obj[c].id] # None
    OBVIOUS
  <2>1. TypeOK
    BY DEF GuardInv
  <2>2. CopyFails(c) \/ Reject(c) \/ (Return(c) /\ ~won[c])
    BY <2>1 DEF Next, Step, Call, Mutate, Copy, Verify, CopyFails, Reject, Insert, Busy, Commit,
                Return, Outcome, Fail, Crash, Finish, TypeOK
  <2>3. ~CopyFails(c)
    BY DEF CopyFails
  <2>4. ~Reject(c)
    <3> SUFFICES ASSUME Reject(c) PROVE FALSE
      OBVIOUS
    <3>1. Agrees(c) /\ \A f \in Fields : frozen[c][f] # None
      BY DEF Reject, RefusalInv, Refusing
    <3>2. frozen[c].id = obj[c].id /\ frozen[c].body = obj[c].body /\ frozen[c].seal = obj[c].seal
      BY <3>1 DEF Agrees, Fields
    <3> QED BY <3>2 DEF Reject, Trusted
  <2>5. CASE Return(c) /\ ~won[c]
    <3>1. stage[c] = "committed"
      BY <2>5 DEF Return
    <3>2. Agrees(c) /\ db[frozen[c].id] # None /\ frozen[c] \in Records
      BY <2>1, <2>5, <3>1 DEF RefusalInv, Refusing, TypeOK
    <3>3. frozen[c].id # None
      BY <3>2, SignedAssumption DEF Records
    <3>4. frozen[c].id = obj[c].id
      BY <3>2, <3>3 DEF Agrees, Fields
    <3> QED BY <3>2, <3>4
  <2> QED BY <2>2, <2>3, <2>4, <2>5
<1> QED BY <1>1, GuardInvariant, RefusalInit, RefusalStep, PTL DEF Spec, RefusalJustified

-----------------------------------------------------------------------------
(* Admissions nobody was told about.                                       *)

StrandedInv ==
    /\ IsFiniteSet(Unclaimed) /\ IsFiniteSet(Winners)
    /\ StrandedByCrash

LEMMA StrandedInit == Init => StrandedInv
<1> SUFFICES ASSUME Init PROVE StrandedInv
  OBVIOUS
<1>1. Unclaimed = {} /\ Winners = {}
  BY DEF Init, Unclaimed, Winners
<1>2. crashes = 0
  BY DEF Init
<1> QED BY <1>1, <1>2, FS_EmptySet DEF StrandedInv, StrandedByCrash

LEMMA StrandedStep == GuardInv /\ StrandedInv /\ [Next]_vars => StrandedInv'
<1> SUFFICES ASSUME GuardInv, StrandedInv, [Next]_vars PROVE StrandedInv'
  OBVIOUS
<1>0. /\ TypeOK /\ TypeOK' /\ crashes \in Nat
      /\ Cardinality(Unclaimed) \in Nat /\ Cardinality(Winners) \in Nat
      /\ Cardinality(Unclaimed) <= Cardinality(Winners) + crashes
  BY TypeStep, BoundsAssumption, FS_CardinalityType
     DEF GuardInv, StrandedInv, StrandedByCrash, TypeOK
<1>1. CASE UNCHANGED <<db, grants, crashes>> /\ Winners' = Winners
  BY <1>1 DEF StrandedInv, StrandedByCrash, Unclaimed
<1>2. ASSUME NEW c \in Consumers,
             \/ \E r \in Records : Call(c, r)
             \/ \E f \in Fields : \E v \in Values(f) : Mutate(c, f, v)
             \/ \E f \in Fields : Copy(c, f)
             \/ Verify(c) \/ Insert(c)
      PROVE  StrandedInv'
  <2>1. UNCHANGED <<db, grants, crashes>>
    BY <1>2 DEF Call, Mutate, Copy, Verify, Insert
  <2>2. \A d \in Consumers : /\ stage'[d] = "committed" <=> stage[d] = "committed"
                             /\ stage[d] = "committed" => won'[d] = won[d]
    BY <1>0, <1>2 DEF Call, Mutate, Copy, Verify, Insert, TypeOK
  <2> QED BY <1>1, <2>1, <2>2 DEF Winners
<1>3. ASSUME NEW c \in Consumers, NEW o \in Outcomes, Finish(c, o)
      PROVE  Winners' = Winners \ {c}
  <2>1. \A d \in Consumers : /\ d = c => stage'[d] = "idle"
                             /\ d # c => stage'[d] = stage[d] /\ won'[d] = won[d]
    BY <1>0, <1>3 DEF Finish, TypeOK
  <2> QED BY <2>1 DEF Winners
<1>4. ASSUME NEW c \in Consumers, CopyFails(c) \/ Reject(c) \/ Busy(c) \/ Fail(c)
      PROVE  StrandedInv'
  <2>1. UNCHANGED <<db, grants, crashes>> /\ stage[c] # "committed"
    BY <1>4 DEF CopyFails, Reject, Busy, Fail
  <2>2. \E o \in Outcomes : Finish(c, o)
    BY <1>4 DEF CopyFails, Reject, Busy, Fail, Outcomes
  <2>3. Winners' = Winners
    BY <1>3, <2>1, <2>2 DEF Winners
  <2> QED BY <1>1, <2>1, <2>3
<1>5. ASSUME NEW c \in Consumers, Crash(c) PROVE StrandedInv'
  <2>1. UNCHANGED <<db, grants>> /\ crashes' = crashes + 1
    BY <1>5 DEF Crash
  <2>2. Winners' = Winners \ {c}
    BY <1>3, <1>5 DEF Crash, Outcomes
  <2>3. Unclaimed' = Unclaimed
    BY <2>1 DEF Unclaimed
  <2>4. IsFiniteSet(Winners') /\ Cardinality(Winners') >= Cardinality(Winners) - 1
    BY <1>0, <2>2, FS_RemoveElement DEF StrandedInv
  <2>5. Cardinality(Winners') \in Nat
    BY <2>4, FS_CardinalityType
  <2> QED BY <1>0, <2>1, <2>3, <2>4, <2>5 DEF StrandedInv, StrandedByCrash
<1>6. ASSUME NEW c \in Consumers, Commit(c) PROVE StrandedInv'
  <2>1. /\ UNCHANGED <<grants, crashes, won, frozen>> /\ stage[c] = "inserted"
        /\ \A d \in Consumers : /\ d = c => stage'[d] = "committed"
                                /\ d # c => stage'[d] = stage[d]
    BY <1>0, <1>6 DEF Commit, TypeOK
  <2>2. CASE ~won[c]
    <3>1. db' = db
      BY <1>6, <2>2 DEF Commit
    <3>2. Winners' = Winners
      BY <2>1, <2>2 DEF Winners
    <3> QED BY <1>1, <2>1, <3>1, <3>2
  <2>3. CASE won[c]
    <3> DEFINE i == frozen[c].id
    <3>1. /\ i \in Ids /\ frozen[c] # None /\ db[i] = None
          /\ db' = [db EXCEPT ![i] = frozen[c]] /\ db \in [Ids -> Records \cup {None}]
      BY <1>0, <1>6, <2>1, <2>3, TrustedNotNone
         DEF Commit, Subject, GuardInv, PendingIsFirst, TypeOK, Records
    <3>2. grants[i] = 0
      BY <1>0, <3>1 DEF GuardInv, GrantedStored, TypeOK
    <3>3. \A id \in Ids : /\ id = i => db'[id] # None
                          /\ id # i => db'[id] = db[id]
      BY <3>1
    <3>4. Unclaimed' = Unclaimed \cup {i} /\ i \notin Unclaimed
      BY <2>1, <3>1, <3>2, <3>3 DEF Unclaimed
    <3>5. Winners' = Winners \cup {c} /\ c \notin Winners
      BY <2>1, <2>3 DEF Winners
    <3>6. IsFiniteSet(Unclaimed') /\ Cardinality(Unclaimed') = Cardinality(Unclaimed) + 1
      BY <3>4, FS_AddElement DEF StrandedInv
    <3>7. IsFiniteSet(Winners') /\ Cardinality(Winners') = Cardinality(Winners) + 1
      BY <3>5, FS_AddElement DEF StrandedInv
    <3> QED BY <1>0, <2>1, <3>6, <3>7 DEF StrandedInv, StrandedByCrash
  <2> QED BY <2>2, <2>3
<1>7. ASSUME NEW c \in Consumers, Return(c) PROVE StrandedInv'
  <2>1. /\ db' = db /\ crashes' = crashes /\ stage[c] = "committed"
        /\ Winners' = Winners \ {c}
    BY <1>3, <1>7 DEF Return, Outcomes
  <2>2. CASE ~won[c]
    <3>1. grants' = grants /\ Winners' = Winners
      BY <1>7, <2>1, <2>2 DEF Return, Outcome, Winners
    <3> QED BY <1>1, <2>1, <3>1
  <2>3. CASE won[c]
    <3> DEFINE i == frozen[c].id
    <3>1. c \in Winners /\ grants' = [grants EXCEPT ![i] = @ + 1]
      BY <1>7, <2>1, <2>3 DEF Return, Outcome, Subject, Winners
    <3>2. i \in Ids /\ grants[i] = 0 /\ db[i] # None /\ grants \in [Ids -> Nat]
      BY <1>0, <2>1, <3>1 DEF GuardInv, WinnersUnpaid, TypeOK, Records
    <3>3. grants'[i] = 1 /\ \A id \in Ids : id # i => grants'[id] = grants[id]
      BY <3>1, <3>2
    <3>4. Unclaimed' = Unclaimed \ {i} /\ i \in Unclaimed
      BY <2>1, <3>2, <3>3 DEF Unclaimed
    <3>5. IsFiniteSet(Unclaimed') /\ Cardinality(Unclaimed') = Cardinality(Unclaimed) - 1
      BY <3>4, FS_RemoveElement DEF StrandedInv
    <3>6. IsFiniteSet(Winners') /\ Cardinality(Winners') = Cardinality(Winners) - 1
      BY <2>1, <3>1, FS_RemoveElement DEF StrandedInv
    <3> QED BY <1>0, <2>1, <3>5, <3>6 DEF StrandedInv, StrandedByCrash
  <2> QED BY <2>2, <2>3
<1>8. CASE UNCHANGED vars
  BY <1>1, <1>8 DEF vars, Winners
<1> QED BY <1>2, <1>4, <1>5, <1>6, <1>7, <1>8 DEF Next, Step

(* An admission nobody was told about is one that is about to be told, or one  *)
(* of a consumer that crashed: there are never more of them.                   *)
THEOREM AdmissionsStrandedByCrash == Spec => []StrandedByCrash
<1>1. StrandedInv => StrandedByCrash
  BY DEF StrandedInv
<1> QED BY <1>1, GuardInvariant, StrandedInit, StrandedStep, PTL DEF Spec
==============================================================================
