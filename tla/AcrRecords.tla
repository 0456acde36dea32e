----------------------------- MODULE AcrRecords -----------------------------
(***************************************************************************)
(* Signed records and the verification of one record and of a chain of     *)
(* them: _sign, _hash_object, verify, verify_chain and chain_checkpoint of *)
(* corrlog_core/__init__.py as operators.                                  *)
(*                                                                         *)
(* Cryptography is symbolic: a seal names the key it was made with and the *)
(* payload it was made over, a digest names the record it was computed     *)
(* from; canonical_json is taken for what signer and verifier agree on.    *)
(* The text of signature.sig is not signed: a seal also says whether it is *)
(* the text _b64url gives for those bytes or another that decodes to them. *)
(***************************************************************************)
EXTENDS Naturals, Sequences

CONSTANT NoKey          \* no key: none is pinned, or agent.publicKey is absent

-----------------------------------------------------------------------------
(* Records.                                                                *)

\* "supersedes" holds at most one pointer.
NoLink == {}

\* What is signed: the whole record with an empty signature.sig.
Payload(r) == <<r.id, r.link, r.kind, r.body, r.agent, r.key>>

\* The signature key k makes over payload p, as _sign spells it.
Seal(k, p) == [by |-> k, over |-> p, spelling |-> "exact"]

SignUnlinked(id, link, kind, body, k) ==
    [id |-> id, link |-> link, kind |-> kind, body |-> body, agent |-> k, key |-> k,
     seal |-> Seal(k, <<id, NoLink, kind, body, k, k>>)]

\* _sign: the record of these contents, signed by k.
Sign(id, link, kind, body, k) ==
    [id |-> id, link |-> link, kind |-> kind, body |-> body, agent |-> k, key |-> k,
     seal |-> Seal(k, <<id, link, kind, body, k, k>>)]

\* _hash_object of the canonical record, signature included.
Digest(r) == [alg |-> "sha256", of |-> r]

\* The supersedes pointer of a correction of r.
LinkTo(r) == {[receiptId |-> r.id, digest |-> Digest(r)]}

-----------------------------------------------------------------------------
(* Verification.                                                           *)

\* validate_record: an uncertainty record supersedes nothing.
Valid(r) == r.kind = "unknown" => r.link = NoLink

VerifySealedOnce(r, key) ==
    /\ Valid(r) /\ r.agent \in {NoKey, r.key}
    /\ key # NoKey => r.key = key
    /\ r.seal.by = r.key

\* verify: schema, embedded key against agent key and pinned key, signature,
\* which _decode_exact takes in its one spelling.
Verify(r, key) ==
    /\ Valid(r)
    /\ r.agent \in {NoKey, r.key}
    /\ key # NoKey => r.key = key
    /\ r.seal = Seal(r.key, Payload(r))

LinkedSomewhere(s) ==
    /\ s[1].link = NoLink
    /\ \A i \in 2..Len(s) : \E j \in 1..(i - 1) : s[i].link = LinkTo(s[j])

\* The first record is a root, each later one supersedes the one before it.
Linked(s) ==
    /\ s[1].link = NoLink
    /\ \A i \in 2..Len(s) : s[i].link = LinkTo(s[i - 1])

\* No correctionId occurs twice.
DistinctIds(s) == \A i, j \in DOMAIN s : s[i].id = s[j].id => i = j

\* A checkpoint argument is None or one checkpoint.
NoCheckpoint == {}

CheckpointGenesisOnly(s) ==
    {[length |-> Len(s), genesis |-> Digest(s[1]), head |-> Digest(s[1])]}

\* The checkpoint that describes s.
CheckpointOf(s) ==
    {[length |-> Len(s), genesis |-> Digest(s[1]), head |-> Digest(s[Len(s)])]}

\* verify_chain; the tests have no effects, so their order does not matter.
VerifyChain(s, key, checkpoint) ==
    /\ s # <<>>
    /\ Linked(s)
    /\ DistinctIds(s)
    /\ \A i \in DOMAIN s : Verify(s[i], key)
    /\ checkpoint # NoCheckpoint => key # NoKey /\ checkpoint = CheckpointOf(s)
==============================================================================
