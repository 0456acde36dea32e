------------------------------ MODULE Verifiers ------------------------------
(***************************************************************************)
(* The two verifiers that share no code with corrlog_core:                 *)
(* verifier/standalone.py, which is handed to auditors, and                *)
(* validation/harness/independent_verifier.py, which checks the spec's     *)
(* procedure without the schema.  Each gives one verdict on a record and   *)
(* one on a list of records; canonical_bytes is the encoding of Payload    *)
(* and Digest (see JcsNumbers for what that takes).                        *)
(***************************************************************************)
EXTENDS AcrRecords

\* The key a signature is checked under: the pinned one, or the record's own.
Under(r, key) == IF key = NoKey THEN r.key ELSE key

-----------------------------------------------------------------------------
(* verifier/standalone.py                                                  *)

\* verify_record, in the order of its early returns.
StandaloneRecord(r, key) ==
    IF ~Valid(r) THEN "invalid"
    ELSE IF r.agent \notin {NoKey, r.key} THEN "agent key mismatch"
    ELSE IF key # NoKey /\ key # r.key THEN "untrusted signer"
    ELSE IF r.seal # Seal(Under(r, key), Payload(r)) THEN "invalid"
    ELSE "valid"

SupersedesById(r, previous) == \E l \in r.link : l.receiptId = previous.id

\* The pointer of r names previous, by id and by digest.
Supersedes(r, previous) ==
    \E l \in r.link : l.receiptId = previous.id /\ l.digest = Digest(previous)

\* verify_chain: record by record, then the checkpoint.
StandaloneChain(s, key, checkpoint) ==
    /\ s # <<>>
    /\ \A i \in DOMAIN s :
         /\ IF i = 1 THEN s[i].link = NoLink ELSE Supersedes(s[i], s[i - 1])
         /\ \A j \in 1..(i - 1) : s[j].id # s[i].id
         /\ StandaloneRecord(s[i], key) = "valid"
    /\ \A c \in checkpoint :
         /\ key # NoKey
         /\ c.length = Len(s) /\ c.genesis = Digest(s[1]) /\ c.head = Digest(s[Len(s)])

-----------------------------------------------------------------------------
(* validation/harness/independent_verifier.py                              *)

\* verify_record: the signature and nothing else, under the pinned key if any.
\* _b64url_decode passes over characters and bits that do not count, so any
\* spelling of the signature will do.
IndependentRecord(r, key) == r.seal.by = Under(r, key) /\ r.seal.over = Payload(r)

IndependentUnrooted(s, key) ==
    /\ \A i \in DOMAIN s : IndependentRecord(s[i], key)
    /\ \A i \in 2..Len(s) : \E l \in s[i].link : l.digest = Digest(s[i - 1])

\* verify_chain: digests link the records, ids are not looked at, and a list
\* without records passes.
IndependentChain(s, key) ==
    /\ s # <<>> => s[1].link = NoLink
    /\ \A i \in 2..Len(s) : \E l \in s[i].link : l.digest = Digest(s[i - 1])
    /\ \A i \in DOMAIN s : IndependentRecord(s[i], key)
==============================================================================
