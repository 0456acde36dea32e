------------------------------ MODULE Admission ------------------------------
(***************************************************************************)
(* At-most-once admission, without processes, locks or transactions: the   *)
(* first trusted record of a correctionId is admitted for good, and at     *)
(* most one caller is ever told so.  ReplayGuard refines it.               *)
(***************************************************************************)
CONSTANTS Ids,          \* correction ids
          Records,      \* records a caller may present
          None,         \* no record
          IdOf(_),      \* the correctionId of a record
          Trusted(_)    \* signed with the pinned key over this very content

VARIABLES admitted,     \* the record admitted under each id, or None
          granted       \* the ids some caller has been told are admitted

admissionVars == <<admitted, granted>>

AdmissionInit == admitted = [id \in Ids |-> None] /\ granted = {}

\* A trusted record is admitted under an id that has none.
Admit(r) ==
    /\ Trusted(r)
    /\ admitted[IdOf(r)] = None
    /\ admitted' = [admitted EXCEPT ![IdOf(r)] = r]
    /\ UNCHANGED granted

\* A caller learns that its record was admitted: nobody has before.
Grant(id) ==
    /\ admitted[id] # None
    /\ id \notin granted
    /\ granted' = granted \cup {id}
    /\ UNCHANGED admitted

AdmissionNext == (\E r \in Records : Admit(r)) \/ (\E id \in Ids : Grant(id))

AdmissionSpec == AdmissionInit /\ [][AdmissionNext]_admissionVars
==============================================================================
