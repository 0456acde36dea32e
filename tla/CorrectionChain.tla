--------------------------- MODULE CorrectionChain ---------------------------
(***************************************************************************)
(* Signers that make records with the constructors of                      *)
(* corrlog_core/__init__.py, and a transport (JSONL files, other parties)  *)
(* that may alter any record it passes on and seal the result with its     *)
(* own key, never with the key of a signer.  verify_chain reads nothing    *)
(* but its arguments, so a consumer that calls it at any time on anything  *)
(* it was handed is a formula over the arrangements of the known records.  *)
(***************************************************************************)
EXTENDS Verifiers, FiniteSets

CONSTANTS
    Signers,        \* keys of those who use the constructors
    Pinned,         \* the signer whose key the consumer has pinned
    Stranger,       \* the key of the transport
    Ids, Bodies,    \* correction ids, and what else a record says
    Respellings,    \* other texts that decode laxly to the bytes of a signature
    MaxMade,        \* bound: calls of a constructor
    MaxAltered,     \* bound: alterations on the way
    MaxLength       \* bound: length of the lists handed to verify_chain

ASSUME SignersAssumption ==
    Pinned \in Signers /\ Stranger \notin Signers /\ NoKey \notin Signers \cup {Stranger}
ASSUME RespellingsAssumption == "exact" \notin Respellings
ASSUME BoundsAssumption == MaxMade \in Nat /\ MaxAltered \in Nat /\ MaxLength \in Nat

VARIABLES
    known,          \* every record in circulation
    roots,          \* history: records made by record() and unknown()
    retractions,    \* history: <<prior, correction>> of each retract()
    retained,       \* the checkpoint a trusted party kept, with its chain
    altered         \* counted against the bound

vars == <<known, roots, retractions, retained, altered>>

Keys == Signers \cup {Stranger}

-----------------------------------------------------------------------------
Arrangements == UNION {[1..n -> known] : n \in 0..MaxLength}

Made == Cardinality(roots) + Cardinality(retractions)

Init ==
    /\ known = {} /\ roots = {} /\ retractions = {}
    /\ retained = [checkpoint |-> NoCheckpoint, chain |-> <<>>]
    /\ altered = 0

\* record(): an action receipt; unknown(): an uncertainty record.
MakeRoot(k, id, kind, body) ==
    LET r == Sign(id, NoLink, kind, body, k) IN
    /\ Made < MaxMade
    /\ known' = known \cup {r}
    /\ roots' = roots \cup {r}
    /\ UNCHANGED <<retractions, retained, altered>>

Record(k, id, body) == MakeRoot(k, id, "receipt", body)
Unknown(k, id, body) == MakeRoot(k, id, "unknown", body)

\* retract(): supersedes whatever record it is handed, verified or not.
Retract(k, id, body, prior) ==
    LET r == Sign(id, LinkTo(prior), "receipt", body, k) IN
    /\ Made < MaxMade
    /\ known' = known \cup {r}
    /\ retractions' = retractions \cup {<<prior, r>>}
    /\ UNCHANGED <<roots, retained, altered>>

\* chain_checkpoint() of a list the signer holds; it raises unless the list
\* verifies without a pinned key.
Checkpoint(s) ==
    /\ retained.checkpoint = NoCheckpoint
    /\ VerifyChain(s, NoKey, NoCheckpoint)
    /\ retained' = [checkpoint |-> CheckpointOf(s), chain |-> s]
    /\ UNCHANGED <<known, roots, retractions, altered>>

\* The versions of r with one field other than the signature changed.
Altered(r) ==
    {[r EXCEPT !.id = id] : id \in Ids}
    \cup {[r EXCEPT !.body = body] : body \in Bodies}
    \cup {[r EXCEPT !.agent = k, !.key = k] : k \in Keys}
    \cup {[r EXCEPT !.agent = k] : k \in Keys \cup {NoKey}}
    \cup {[r EXCEPT !.link = link] : link \in {NoLink} \cup {LinkTo(p) : p \in known}}

\* The transport hands on an altered record, or one it sealed itself.
Alter(r, a) ==
    /\ altered < MaxAltered
    /\ altered' = altered + 1
    /\ known' = known \cup {a}
    /\ UNCHANGED <<roots, retractions, retained>>

Reseal(r, a) == Alter(r, Sign(a.id, a.link, a.kind, a.body, Stranger))

\* The same under the key of the agent that signed r, or with no agent key.
Impersonated(r, agent) ==
    LET p == [r EXCEPT !.agent = agent, !.key = Stranger]
    IN  [p EXCEPT !.seal = Seal(Stranger, Payload(p))]

Impersonate(r) == \E agent \in {r.agent, NoKey} : Alter(r, Impersonated(r, agent))

\* r with its signature spelled f.
Respelt(r, f) == [r EXCEPT !.seal = [by |-> @.by, over |-> @.over, spelling |-> f]]

\* r as the holder of the key made it.
AsMade(r) == Respelt(r, "exact")

\* The transport spells the signature in another way; its bytes stay.
Respell(r) == \E f \in Respellings \cup {"exact"} : Alter(r, Respelt(r, f))

Next ==
    \/ \E k \in Signers, id \in Ids, body \in Bodies :
         \/ Record(k, id, body)
         \/ Unknown(k, id, body)
         \/ \E prior \in known : Retract(k, id, body, prior)
    \/ \E s \in Arrangements : Checkpoint(s)
    \/ \E r \in known :
         \/ Impersonate(r)
         \/ Respell(r)
         \/ \E a \in Altered(r) : Alter(r, a) \/ Reseal(r, a)

Spec == Init /\ [][Next]_vars

-----------------------------------------------------------------------------
(* Properties.                                                             *)

TypeOK ==
    /\ \A r \in known :
         /\ r.id \in Ids /\ r.body \in Bodies /\ r.kind \in {"receipt", "unknown"}
         /\ r.agent \in Keys \cup {NoKey} /\ r.key \in Keys /\ r.seal.by \in Keys
    /\ roots \subseteq known
    /\ \A p \in retractions : p[1] \in known /\ p[2] \in known
    /\ retained.chain # <<>> <=> retained.checkpoint # NoCheckpoint
    /\ altered \in 0..MaxAltered

\* The calls that made s: record or unknown by k, then retract by k of each
\* record in turn.
IsStraight(s, k) ==
    /\ s # <<>>
    /\ s[1] \in roots
    /\ \A i \in 2..Len(s) : <<s[i - 1], s[i]>> \in retractions
    /\ \A i \in DOMAIN s : s[i].key = k

\* The same for a list in which signatures may be spelled otherwise.  A record
\* is linked to as it is in the list: its digest covers the spelling.
IsStraightRespelt(s, k) ==
    /\ s # <<>>
    /\ AsMade(s[1]) \in roots
    /\ \A i \in 2..Len(s) : <<s[i - 1], AsMade(s[i])>> \in retractions
    /\ \A i \in DOMAIN s : s[i].key = k

\* The straight calls that made s, with no id used twice.
IsHistory(s, k) ==
    /\ IsStraight(s, k)
    /\ \A i, j \in DOMAIN s : i # j => s[i].id # s[j].id

(* Why AcceptedExactly is an invariant: what a signer's seal is on was made *)
(* by the signer, and what was made is well formed.                         *)
Sealed(r) == r.agent = r.key /\ r.seal = Seal(r.key, Payload(r))
Records == roots \cup {p[2] : p \in retractions}
WellFormed ==
    /\ \A r \in known : r = [id |-> r.id, link |-> r.link, kind |-> r.kind, body |-> r.body,
                             agent |-> r.agent, key |-> r.key, seal |-> r.seal]
    /\ \A r \in known : r.seal = [by |-> r.seal.by, over |-> r.seal.over,
                                  spelling |-> r.seal.spelling]
    /\ \A p \in retractions : p = <<p[1], p[2]>>
MadeRight ==
    /\ Records \subseteq known
    /\ \A r \in roots : Sealed(r) /\ r.link = NoLink
    /\ \A p \in retractions :
         Sealed(p[2]) /\ p[2].link = LinkTo(p[1]) /\ p[2].kind = "receipt"
Unforged ==
    \A r \in known :
        r.seal.by \in Signers =>
            \E m \in Records : m.seal.by = r.seal.by /\ m.seal.over = r.seal.over
HistoryInv == WellFormed /\ MadeRight /\ Unforged

(* Why CheckpointExact is one: the checkpoint kept was taken of the chain kept. *)
RetainedInv ==
    retained.checkpoint # NoCheckpoint =>
        /\ retained.chain \in Seq(known)
        /\ VerifyChain(retained.chain, NoKey, NoCheckpoint)
        /\ retained.checkpoint = CheckpointOf(retained.chain)

\* With a pinned key and no checkpoint, verify_chain accepts exactly the lists
\* that some calls of that signer made in that order: no record of another
\* signer, none altered, none out of order, no fork, no gap, and every
\* straight history of the signer passes.
AcceptedExactly ==
    \A s \in Arrangements : VerifyChain(s, Pinned, NoCheckpoint) <=> IsHistory(s, Pinned)

\* Accepting a list leaves no doubt about its order, even without a pinned
\* key: no other arrangement of the same records is accepted.
OrderDetermined ==
    \A s, t \in {u \in Arrangements : VerifyChain(u, NoKey, NoCheckpoint)} :
        {s[i] : i \in DOMAIN s} = {t[i] : i \in DOMAIN t} => s = t

\* A checkpoint kept by a trusted party is met by the chain it was taken of
\* and by nothing else, whatever was made or altered since ("Checkpoint
\* verification detects insertion, deletion, reordering, substitution").
CheckpointExact ==
    retained.checkpoint # NoCheckpoint =>
        \A s \in Arrangements :
            VerifyChain(s, Pinned, retained.checkpoint)
            <=> s = retained.chain /\ VerifyChain(s, Pinned, NoCheckpoint)

\* The verifier handed to auditors reaches the core's verdict on every list,
\* with or without a pinned key and a checkpoint.
VerifiersAgree ==
    \A s \in Arrangements, key \in {Pinned, NoKey},
       checkpoint \in {NoCheckpoint, retained.checkpoint} :
        StandaloneChain(s, key, checkpoint) <=> VerifyChain(s, key, checkpoint)

\* What the independent verifier adds under a pinned key, as it leaves out
\* schema, agent key and receiptId and decodes signatures laxly: the empty
\* list, and straight histories of the signer in which an id is used twice or
\* a signature is spelled in another way.  (Of numbers its library refuses, which
\* bodies do not contain here, see IndependentIsStricter in JcsNumbers.)
IndependentExtent ==
    \A s \in Arrangements :
        IndependentChain(s, Pinned) <=> s = <<>> \/ IsStraightRespelt(s, Pinned)
==============================================================================
