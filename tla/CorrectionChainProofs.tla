------------------------ MODULE CorrectionChainProofs ------------------------
(***************************************************************************)
(* What verify_chain and chain_checkpoint establish, for any signers, ids, *)
(* bodies and numbers of calls and alterations.                            *)
(***************************************************************************)
EXTENDS CorrectionChain, LogLemmas

\* A link names one record: its digest is of that record and of no other.
LEMMA LinkNamesOne ==
    ASSUME NEW r, NEW q, LinkTo(r) = LinkTo(q)
    PROVE  r = q
<1>1. [receiptId |-> r.id, digest |-> Digest(r)] = [receiptId |-> q.id, digest |-> Digest(q)]
  BY Zenon DEF LinkTo
<1>2. Digest(r) = Digest(q)
  BY <1>1
<1>3. QED
  BY <1>2 DEF Digest

\* A pointer is not a missing pointer.
LEMMA LinkIsSome ==
    ASSUME NEW r
    PROVE  LinkTo(r) # NoLink
  BY DEF LinkTo, NoLink

\* What verify_chain says of each position, for a sequence of any records.
LEMMA ChainShape ==
    ASSUME NEW S, NEW s \in Seq(S), NEW key, NEW cp, VerifyChain(s, key, cp)
    PROVE  /\ Len(s) \in Nat \ {0} /\ DOMAIN s = 1..Len(s)
           /\ \A i \in 1..Len(s) : s[i] \in S /\ Verify(s[i], key)
           /\ \A i, j \in 1..Len(s) : s[i] = s[j] => i = j
           /\ s[1].link = NoLink
           /\ \A i \in 2..Len(s) : s[i].link = LinkTo(s[i - 1])
<1>1. Len(s) \in Nat \ {0} /\ DOMAIN s = 1..Len(s)
  BY EmptySeq, LenProperties DEF VerifyChain
<1>2. QED
  BY <1>1, ElementOfSeq DEF VerifyChain, Linked, DistinctIds

\* A list handed to verify_chain is a sequence of known records.
LEMMA ArrangementIsSeq ==
    ASSUME NEW s \in Arrangements
    PROVE  s \in Seq(known)
  BY DEF Arrangements

-----------------------------------------------------------------------------
(* Order.                                                                  *)

\* Two accepted lists begin alike, as far as the records of the second are
\* records of the first.
LEMMA PrefixAgrees ==
    ASSUME NEW S, NEW s \in Seq(S), NEW t \in Seq(S),
           NEW k1, NEW k2, NEW c1, NEW c2,
           VerifyChain(s, k1, c1), VerifyChain(t, k2, c2),
           \A i \in 1..Len(t) : \E j \in 1..Len(s) : t[i] = s[j]
    PROVE  \A i \in 1..Len(t) : i <= Len(s) /\ t[i] = s[i]
<1> DEFINE m == Len(s)
           n == Len(t)
<1>1. /\ m \in Nat \ {0} /\ n \in Nat \ {0}
      /\ \A i, j \in 1..m : s[i] = s[j] => i = j
      /\ s[1].link = NoLink /\ t[1].link = NoLink
      /\ \A i \in 2..m : s[i].link = LinkTo(s[i - 1])
      /\ \A i \in 2..n : t[i].link = LinkTo(t[i - 1])
  BY ChainShape
<1>2. \A i \in 1..n : \E j \in 1..m : t[i] = s[j]
  OBVIOUS
<1> HIDE DEF m, n
<1> DEFINE D == {i \in 1..n : ~(i <= m /\ t[i] = s[i])}
<1>3. D = {}
  <2> SUFFICES ASSUME D # {} PROVE FALSE
    OBVIOUS
  <2>1. D \in SUBSET Nat
    BY <1>1
  <2>2. PICK d \in D : \A i \in D : d <= i
    BY <2>1, LeastElement
  <2>3. PICK j \in 1..m : t[d] = s[j]
    BY <1>2
  <2>4. CASE d = 1
    <3>1. s[j].link = NoLink
      BY <1>1, <2>3, <2>4
    <3>2. j = 1
      BY <1>1, <2>3, <3>1, LinkIsSome
    <3>3. QED
      BY <1>1, <2>2, <2>3, <2>4, <3>2
  <2>5. CASE d # 1
    <3>1. d \in 2..n /\ d - 1 \in 1..n /\ d - 1 \notin D
      BY <1>1, <2>2, <2>5
    <3>2. d - 1 <= m /\ t[d - 1] = s[d - 1]
      BY <3>1
    <3>3. s[j].link = LinkTo(s[d - 1])
      BY <1>1, <2>3, <3>1, <3>2
    <3>4. j # 1
      BY <1>1, <3>3, LinkIsSome
    <3>5. j \in 2..m /\ s[j].link = LinkTo(s[j - 1])
      BY <1>1, <2>3, <3>4
    <3>6. s[j - 1] = s[d - 1]
      BY <3>3, <3>5, LinkNamesOne
    <3>7. j - 1 \in 1..m /\ d - 1 \in 1..m
      BY <1>1, <3>1, <3>2, <3>5
    <3>8. j - 1 = d - 1
      BY <1>1, <3>6, <3>7
    <3>9. j = d
      BY <1>1, <2>3, <3>1, <3>8
    <3>10. QED
      BY <1>1, <2>2, <2>3, <3>9
  <2>6. QED
    BY <2>4, <2>5
<1>4. QED
  BY <1>3 DEF m, n

\* No other arrangement of the records of an accepted list is accepted
\* (verify_chain fixes the order without a pinned key).
THEOREM ChainOrderDetermined == OrderDetermined
<1> SUFFICES ASSUME NEW s \in Arrangements, NEW t \in Arrangements,
                    VerifyChain(s, NoKey, NoCheckpoint), VerifyChain(t, NoKey, NoCheckpoint),
                    {s[i] : i \in DOMAIN s} = {t[i] : i \in DOMAIN t}
             PROVE  s = t
  BY DEF OrderDetermined
<1>1. s \in Seq(known) /\ t \in Seq(known)
  BY ArrangementIsSeq
<1>2. /\ DOMAIN s = 1..Len(s) /\ DOMAIN t = 1..Len(t)
      /\ Len(s) \in Nat \ {0} /\ Len(t) \in Nat \ {0}
  BY <1>1, ChainShape
<1>3. \A i \in 1..Len(t) : \E j \in 1..Len(s) : t[i] = s[j]
  BY <1>2
<1>4. \A i \in 1..Len(s) : \E j \in 1..Len(t) : s[i] = t[j]
  BY <1>2
<1>5. \A i \in 1..Len(t) : i <= Len(s) /\ t[i] = s[i]
  BY <1>1, <1>3, PrefixAgrees, Zenon
<1>6. \A i \in 1..Len(s) : i <= Len(t) /\ s[i] = t[i]
  BY <1>1, <1>4, PrefixAgrees, Zenon
<1>7. Len(s) = Len(t)
  <2> DEFINE m == Len(s)
             n == Len(t)
  <2>1. m \in Nat \ {0} /\ n \in Nat \ {0}
    BY <1>2
  <2>2. (\A i \in 1..m : i <= n /\ s[i] = t[i]) /\ (\A i \in 1..n : i <= m /\ t[i] = s[i])
    BY <1>5, <1>6, Zenon
  <2> HIDE DEF m, n
  <2>3. m \in 1..m /\ n \in 1..n
    BY <2>1
  <2>4. m <= n /\ n <= m
    BY <2>2, <2>3
  <2>5. m = n
    BY <2>1, <2>4
  <2>6. QED
    BY <2>5 DEF m, n
<1>8. QED
  BY <1>1, <1>6, <1>7, SeqEqual, Zenon

-----------------------------------------------------------------------------
(* Checkpoints.                                                            *)

\* A length and a head digest leave one list that verifies: the links lead
\* from the head back to the root.
LEMMA CheckpointBinds ==
    ASSUME NEW S, NEW s \in Seq(S), NEW t \in Seq(S),
           NEW k1, NEW k2, NEW c1, NEW c2,
           VerifyChain(s, k1, c1), VerifyChain(t, k2, c2),
           CheckpointOf(s) = CheckpointOf(t)
    PROVE  s = t
<1> DEFINE n == Len(s)
<1>0. [length |-> n, genesis |-> Digest(s[1]), head |-> Digest(s[n])]
      = [length |-> Len(t), genesis |-> Digest(t[1]), head |-> Digest(t[Len(t)])]
  BY Zenon DEF CheckpointOf
<1> HIDE DEF n
<1>1. Len(t) = n /\ Digest(s[n]) = Digest(t[Len(t)])
  BY <1>0
<1>2. s[n] = t[n]
  BY <1>1 DEF Digest
<1>3. /\ n \in Nat \ {0}
      /\ \A i \in 2..n : s[i].link = LinkTo(s[i - 1])
      /\ \A i \in 2..n : t[i].link = LinkTo(t[i - 1])
  BY <1>1, ChainShape DEF n
<1> DEFINE D == {k \in 0..(n - 1) : s[n - k] # t[n - k]}
<1>4. D = {}
  <2> SUFFICES ASSUME D # {} PROVE FALSE
    OBVIOUS
  <2>1. D \in SUBSET Nat
    BY <1>3
  <2>2. PICK d \in D : \A k \in D : d <= k
    BY <2>1, LeastElement
  <2>3. d # 0
    <3>1. n - 0 = n
      BY <1>3
    <3>2. s[n - 0] = t[n - 0]
      BY <1>2, <3>1
    <3>3. QED
      BY <2>2, <3>2
  <2>4. d \in 1..(n - 1) /\ d - 1 \in 0..(n - 1) /\ d - 1 \notin D
    <3>1. d \in 0..(n - 1)
      BY <2>2
    <3>2. d \in 1..(n - 1) /\ d - 1 \in 0..(n - 1) /\ ~(d <= d - 1)
      BY <1>3, <2>3, <3>1
    <3>3. d - 1 \notin D
      BY <2>2, <3>2, Zenon
    <3>4. QED
      BY <3>2, <3>3
  <2>5. s[n - (d - 1)] = t[n - (d - 1)]
    BY <2>4
  <2>6. n - (d - 1) \in 2..n /\ (n - (d - 1)) - 1 = n - d
    BY <1>3, <2>4
  <2>7. LinkTo(s[n - d]) = LinkTo(t[n - d])
    BY <1>3, <2>5, <2>6
  <2>8. s[n - d] = t[n - d]
    BY <2>7, LinkNamesOne
  <2>9. QED
    BY <2>2, <2>8
<1>5. ASSUME NEW i \in 1..n PROVE s[i] = t[i]
  <2>1. n - i \in 0..(n - 1) /\ n - (n - i) = i
    BY <1>3
  <2>2. n - i \notin D
    BY <1>4
  <2>3. QED
    BY <2>1, <2>2
<1>6. QED
  <2>1. Len(s) = Len(t) /\ \A i \in 1..Len(s) : s[i] = t[i]
    BY <1>1, <1>5 DEF n
  <2>2. QED
    BY <2>1, SeqEqual, Zenon

-----------------------------------------------------------------------------
(* Invariants.                                                             *)

\* An alteration leaves a record with the same fields, its seal and its kind.
LEMMA AlteredFields ==
    ASSUME WellFormed, NEW r \in known, NEW a \in Altered(r)
    PROVE  /\ a = [id |-> a.id, link |-> a.link, kind |-> a.kind, body |-> a.body,
                   agent |-> a.agent, key |-> a.key, seal |-> a.seal]
           /\ a.kind = r.kind /\ a.seal = r.seal
           /\ a.id = r.id \/ a.id \in Ids
           /\ a.body = r.body \/ a.body \in Bodies
           /\ a.agent = r.agent \/ a.agent \in Keys \cup {NoKey}
           /\ a.key = r.key \/ a.key \in Keys
<1>1. r = [id |-> r.id, link |-> r.link, kind |-> r.kind, body |-> r.body,
           agent |-> r.agent, key |-> r.key, seal |-> r.seal]
  BY Zenon DEF WellFormed
<1>2. CASE \E id \in Ids : a = [r EXCEPT !.id = id]
  BY <1>1, <1>2
<1>3. CASE \E body \in Bodies : a = [r EXCEPT !.body = body]
  BY <1>1, <1>3
<1>4. CASE \E k \in Keys : a = [r EXCEPT !.agent = k, !.key = k]
  BY <1>1, <1>4
<1>5. CASE \E link \in {NoLink} \cup {LinkTo(p) : p \in known} : a = [r EXCEPT !.link = link]
  BY <1>1, <1>5
<1>6. CASE \E k \in Keys \cup {NoKey} : a = [r EXCEPT !.agent = k]
  BY <1>1, <1>6
<1>7. QED
  BY <1>2, <1>3, <1>4, <1>5, <1>6 DEF Altered

\* An alteration leaves the pointer, takes it away or makes it one to a known record.
LEMMA AlteredLink ==
    ASSUME WellFormed, NEW r \in known, NEW a \in Altered(r)
    PROVE  a.link = r.link \/ a.link = NoLink \/ \E p \in known : a.link = LinkTo(p)
<1>1. r = [id |-> r.id, link |-> r.link, kind |-> r.kind, body |-> r.body,
           agent |-> r.agent, key |-> r.key, seal |-> r.seal]
  BY Zenon DEF WellFormed
<1>2. \/ a.link = r.link
      \/ \E link \in {NoLink} \cup {LinkTo(p) : p \in known} : a = [r EXCEPT !.link = link]
  BY <1>1 DEF Altered
<1>3. QED
  BY <1>1, <1>2

\* The record the transport seals under the key of another agent, or of none.
LEMMA ImpersonatedFields ==
    ASSUME WellFormed, NEW r \in known, NEW agent
    PROVE  /\ Impersonated(r, agent) =
             [id |-> r.id, link |-> r.link, kind |-> r.kind, body |-> r.body,
              agent |-> agent, key |-> Stranger,
              seal |-> Impersonated(r, agent).seal]
           /\ Impersonated(r, agent).link = r.link
           /\ Impersonated(r, agent).seal.by = Stranger
           /\ LET x == Impersonated(r, agent).seal
              IN  x = [by |-> x.by, over |-> x.over, spelling |-> x.spelling]
<1>1. r = [id |-> r.id, link |-> r.link, kind |-> r.kind, body |-> r.body,
           agent |-> r.agent, key |-> r.key, seal |-> r.seal]
  BY Zenon DEF WellFormed
<1> DEFINE p == [r EXCEPT !.agent = agent, !.key = Stranger]
<1>2. p = [id |-> r.id, link |-> r.link, kind |-> r.kind, body |-> r.body,
           agent |-> agent, key |-> Stranger, seal |-> r.seal]
  <2> DEFINE q == [r EXCEPT !.agent = agent]
  <2>1. q = [id |-> r.id, link |-> r.link, kind |-> r.kind, body |-> r.body,
             agent |-> agent, key |-> r.key, seal |-> r.seal]
    BY <1>1
  <2>2. p = [q EXCEPT !.key = Stranger]
    OBVIOUS
  <2> HIDE DEF q, p
  <2>3. QED
    BY <2>1, <2>2
<1>3. Impersonated(r, agent) = [p EXCEPT !.seal = Seal(Stranger, Payload(p))]
  BY DEF Impersonated
<1> DEFINE x == Seal(Stranger, Payload(p))
<1>4. x.by = Stranger /\ x = [by |-> x.by, over |-> x.over, spelling |-> x.spelling]
  BY DEF Seal
<1>5. Impersonated(r, agent) = [p EXCEPT !.seal = x]
  BY <1>3
<1> HIDE DEF p, x
<1>6. Impersonated(r, agent) =
        [id |-> r.id, link |-> r.link, kind |-> r.kind, body |-> r.body,
         agent |-> agent, key |-> Stranger, seal |-> x]
  BY <1>2, <1>5
<1>7. Impersonated(r, agent).seal = x /\ Impersonated(r, agent).link = r.link
  BY <1>6
<1>8. QED
  BY <1>4, <1>6, <1>7

\* Spelling a signature otherwise leaves the other fields and the signed bytes.
LEMMA RespeltFields ==
    ASSUME WellFormed, NEW r \in known, NEW f
    PROVE  Respelt(r, f) =
             [id |-> r.id, link |-> r.link, kind |-> r.kind, body |-> r.body,
              agent |-> r.agent, key |-> r.key,
              seal |-> [by |-> r.seal.by, over |-> r.seal.over, spelling |-> f]]
<1>1. r = [id |-> r.id, link |-> r.link, kind |-> r.kind, body |-> r.body,
           agent |-> r.agent, key |-> r.key, seal |-> r.seal]
  BY Zenon DEF WellFormed
<1> DEFINE x == [by |-> r.seal.by, over |-> r.seal.over, spelling |-> f]
<1>2. Respelt(r, f) = [r EXCEPT !.seal = x]
  BY DEF Respelt
<1> HIDE DEF x
<1>3. Respelt(r, f) =
        [id |-> r.id, link |-> r.link, kind |-> r.kind, body |-> r.body,
         agent |-> r.agent, key |-> r.key, seal |-> x]
  BY <1>1, <1>2
<1>4. QED
  BY <1>3 DEF x

\* The records of the model have their fields, of their types.
LEMMA TypesPreserved == TypeOK /\ WellFormed /\ [Next]_vars => TypeOK' /\ WellFormed'
<1> SUFFICES ASSUME TypeOK, WellFormed, [Next]_vars PROVE TypeOK' /\ WellFormed'
  OBVIOUS
<1>1. ASSUME NEW k \in Signers, NEW id \in Ids, NEW body \in Bodies,
             Record(k, id, body) \/ Unknown(k, id, body)
      PROVE  TypeOK' /\ WellFormed'
  <2>1. TypeOK'
    BY <1>1 DEF TypeOK, Record, Unknown, MakeRoot, Sign, Seal, Keys
  <2>2. WellFormed'
    BY <1>1 DEF WellFormed, Record, Unknown, MakeRoot, Sign, Seal
  <2>3. QED
    BY <2>1, <2>2
<1>2. ASSUME NEW k \in Signers, NEW id \in Ids, NEW body \in Bodies, NEW prior \in known,
             Retract(k, id, body, prior)
      PROVE  TypeOK' /\ WellFormed'
  <2>1. TypeOK'
    BY <1>2 DEF TypeOK, Retract, Sign, Seal, Keys
  <2>2. WellFormed'
    BY <1>2 DEF WellFormed, Retract, Sign, Seal
  <2>3. QED
    BY <2>1, <2>2
<1>3. ASSUME NEW s \in Arrangements, Checkpoint(s)
      PROVE  TypeOK' /\ WellFormed'
  BY <1>3 DEF TypeOK, WellFormed, Checkpoint, VerifyChain, CheckpointOf, NoCheckpoint
<1>4. ASSUME NEW r \in known, NEW a \in Altered(r), Alter(r, a)
      PROVE  TypeOK' /\ WellFormed'
  <2>1. TypeOK'
    BY <1>4, AlteredFields, BoundsAssumption DEF TypeOK, Alter
  <2>2. WellFormed'
    BY <1>4, AlteredFields DEF WellFormed, Alter
  <2>3. QED
    BY <2>1, <2>2
<1>5. ASSUME NEW r \in known, NEW a \in Altered(r), Reseal(r, a)
      PROVE  TypeOK' /\ WellFormed'
  <2> DEFINE b == Sign(a.id, a.link, a.kind, a.body, Stranger)
  <2>1. a.id \in Ids /\ a.body \in Bodies /\ a.kind \in {"receipt", "unknown"}
    BY AlteredFields DEF TypeOK
  <2>2. /\ b.id = a.id /\ b.body = a.body /\ b.kind = a.kind
        /\ b.agent = Stranger /\ b.key = Stranger /\ b.seal.by = Stranger
    BY DEF Sign, Seal
  <2>3. Alter(r, b)
    BY <1>5 DEF Reseal
  <2> HIDE DEF b
  <2>4. TypeOK'
    BY <2>1, <2>2, <2>3, BoundsAssumption DEF TypeOK, Alter, Keys
  <2>5. WellFormed'
    BY <1>5 DEF WellFormed, Reseal, Alter, Sign, Seal
  <2>6. QED
    BY <2>4, <2>5
<1>6. ASSUME NEW r \in known, Impersonate(r)
      PROVE  TypeOK' /\ WellFormed'
  <2>0. PICK agent \in {r.agent, NoKey} : Alter(r, Impersonated(r, agent))
    BY <1>6 DEF Impersonate
  <2> DEFINE a == Impersonated(r, agent)
  <2>1. /\ a.id = r.id /\ a.kind = r.kind /\ a.body = r.body /\ a.agent = agent
        /\ a.key = Stranger /\ a.seal.by = Stranger
        /\ a = [id |-> a.id, link |-> a.link, kind |-> a.kind, body |-> a.body,
                agent |-> a.agent, key |-> a.key, seal |-> a.seal]
        /\ a.seal = [by |-> a.seal.by, over |-> a.seal.over, spelling |-> a.seal.spelling]
    BY ImpersonatedFields
  <2>2. Alter(r, a)
    BY <2>0
  <2> HIDE DEF a
  <2>3. TypeOK'
    BY <2>1, <2>2, BoundsAssumption DEF TypeOK, Alter, Keys
  <2>4. WellFormed'
    BY <2>1, <2>2 DEF WellFormed, Alter
  <2>5. QED
    BY <2>3, <2>4
<1>7. CASE UNCHANGED vars
  BY <1>7 DEF TypeOK, WellFormed, vars
<1>8. ASSUME NEW r \in known, Respell(r)
      PROVE  TypeOK' /\ WellFormed'
  <2>0. PICK f \in Respellings \cup {"exact"} : Alter(r, Respelt(r, f))
    BY <1>8 DEF Respell
  <2> DEFINE a == Respelt(r, f)
  <2>1. /\ a.id = r.id /\ a.kind = r.kind /\ a.body = r.body /\ a.agent = r.agent
        /\ a.key = r.key /\ a.seal.by = r.seal.by
        /\ a = [id |-> a.id, link |-> a.link, kind |-> a.kind, body |-> a.body,
                agent |-> a.agent, key |-> a.key, seal |-> a.seal]
        /\ a.seal = [by |-> a.seal.by, over |-> a.seal.over, spelling |-> a.seal.spelling]
    BY RespeltFields
  <2>2. Alter(r, a)
    BY <2>0
  <2> HIDE DEF a
  <2>3. TypeOK'
    BY <2>1, <2>2, BoundsAssumption DEF TypeOK, Alter
  <2>4. WellFormed'
    BY <2>1, <2>2 DEF WellFormed, Alter
  <2>5. QED
    BY <2>3, <2>4
<1>9. QED
  BY <1>1, <1>2, <1>3, <1>4, <1>5, <1>6, <1>7, <1>8 DEF Next

\* Records in circulation, the histories and the checkpoint have their types.
THEOREM ChainTypeCorrect == Spec => []TypeOK
<1>1. Init => TypeOK /\ WellFormed
  BY BoundsAssumption DEF Init, TypeOK, WellFormed
<1>2. QED
  BY <1>1, TypesPreserved, PTL DEF Spec

\* What a signer's key sealed was made by a constructor, and no constructor
\* made it otherwise (HistoryInv, from which AcceptedExactly follows).
LEMMA HistoryInvariant == Spec => []HistoryInv
<1>1. Init => TypeOK /\ HistoryInv
  BY BoundsAssumption
     DEF Init, TypeOK, HistoryInv, WellFormed, MadeRight, Unforged, Records
<1>2. TypeOK /\ HistoryInv /\ [Next]_vars => HistoryInv'
  <2> SUFFICES ASSUME TypeOK, HistoryInv, [Next]_vars PROVE MadeRight' /\ Unforged'
    BY TypesPreserved DEF HistoryInv
  <2> USE DEF HistoryInv
  <2>1. ASSUME NEW k \in Signers, NEW id \in Ids, NEW body \in Bodies,
               NEW kind, MakeRoot(k, id, kind, body)
        PROVE  MadeRight' /\ Unforged'
    <3>1. MadeRight'
      BY <2>1 DEF MakeRoot, MadeRight, Records, Sealed, Sign, Payload
    <3>2. Unforged'
      BY <2>1 DEF MakeRoot, Unforged, Records
    <3>3. QED
      BY <3>1, <3>2
  <2>2. ASSUME NEW k \in Signers, NEW id \in Ids, NEW body \in Bodies, NEW prior \in known,
               Retract(k, id, body, prior)
        PROVE  MadeRight' /\ Unforged'
    <3>1. MadeRight'
      BY <2>2 DEF Retract, MadeRight, Records, Sealed, Sign, Payload
    <3>2. Unforged'
      <4> DEFINE new == Sign(id, LinkTo(prior), "receipt", body, k)
      <4>1. /\ known' = known \cup {new} /\ roots' = roots
            /\ retractions' = retractions \cup {<<prior, new>>}
        BY <2>2 DEF Retract
      <4>2. new \in Records' /\ Records \subseteq Records'
        <5> DEFINE pair == <<prior, new>>
        <5>1. pair[2] = new /\ pair \in retractions'
          BY <4>1
        <5> HIDE DEF pair, new
        <5>2. QED
          BY <4>1, <5>1 DEF Records
      <4> HIDE DEF new
      <4>3. QED
        BY <4>1, <4>2 DEF Unforged
    <3>3. QED
      BY <3>1, <3>2
  <2>3. ASSUME NEW s \in Arrangements, Checkpoint(s)
        PROVE  MadeRight' /\ Unforged'
    BY <2>3 DEF Checkpoint, MadeRight, Unforged, Records
  <2>4. ASSUME NEW r \in known, NEW a \in Altered(r), Alter(r, a)
        PROVE  MadeRight' /\ Unforged'
    BY <2>4, AlteredFields DEF Alter, MadeRight, Unforged, Records
  <2>5. ASSUME NEW r \in known, NEW a \in Altered(r), Reseal(r, a)
        PROVE  MadeRight' /\ Unforged'
    <3>1. MadeRight'
      BY <2>5 DEF Reseal, Alter, MadeRight, Records
    <3>2. Unforged'
      BY <2>5, SignersAssumption DEF Reseal, Alter, Unforged, Records, Sign, Seal
    <3>3. QED
      BY <3>1, <3>2
  <2>6. ASSUME NEW r \in known, Impersonate(r)
        PROVE  MadeRight' /\ Unforged'
    <3>0. PICK agent \in {r.agent, NoKey} : Alter(r, Impersonated(r, agent))
      BY <2>6 DEF Impersonate
    <3> DEFINE a == Impersonated(r, agent)
    <3>1. a.seal.by = Stranger
      BY ImpersonatedFields
    <3>2. Alter(r, a)
      BY <3>0
    <3> HIDE DEF a
    <3>3. QED
      BY <3>1, <3>2, SignersAssumption DEF Alter, MadeRight, Unforged, Records
  <2>7. CASE UNCHANGED vars
    BY <2>7 DEF vars, MadeRight, Unforged, Records
  <2>8. ASSUME NEW r \in known, Respell(r)
        PROVE  MadeRight' /\ Unforged'
    <3>0. PICK f \in Respellings \cup {"exact"} : Alter(r, Respelt(r, f))
      BY <2>8 DEF Respell
    <3> DEFINE a == Respelt(r, f)
    <3>1. a.seal.by = r.seal.by /\ a.seal.over = r.seal.over
      BY RespeltFields
    <3>2. Alter(r, a)
      BY <3>0
    <3> HIDE DEF a
    <3>3. QED
      BY <3>1, <3>2 DEF Alter, MadeRight, Unforged, Records
  <2>9. QED
    BY <2>1, <2>2, <2>3, <2>4, <2>5, <2>6, <2>7, <2>8 DEF Next, Record, Unknown
<1>3. QED
  BY <1>1, <1>2, TypesPreserved, PTL DEF Spec, HistoryInv

\* What every record that the pinned key verifies was made by: a record or
\* unknown, or a retract.
LEMMA VerifiedIsMade ==
    ASSUME HistoryInv, NEW r \in known, NEW k \in Signers, Verify(r, k)
    PROVE  r \in Records /\ r.key = k
<1>1. r.seal = Seal(r.key, Payload(r)) /\ r.key = k
  BY SignersAssumption DEF Verify
<1>2. PICK m \in Records : m.seal.by = r.seal.by /\ m.seal.over = r.seal.over
  BY <1>1 DEF HistoryInv, Unforged, Seal
<1>3. m \in known /\ Sealed(m)
  BY DEF HistoryInv, MadeRight, Records
<1>4. m.seal = Seal(m.key, Payload(m))
  BY <1>3 DEF Sealed
<1>5. Payload(m) = Payload(r) /\ m.key = r.key /\ m.seal = r.seal
  BY <1>1, <1>2, <1>4 DEF Seal
<1>6. /\ m.id = r.id /\ m.link = r.link /\ m.kind = r.kind /\ m.body = r.body
      /\ m.agent = r.agent /\ m.key = r.key
  BY <1>5 DEF Payload
<1>7. /\ r = [id |-> r.id, link |-> r.link, kind |-> r.kind, body |-> r.body,
              agent |-> r.agent, key |-> r.key, seal |-> r.seal]
      /\ m = [id |-> m.id, link |-> m.link, kind |-> m.kind, body |-> m.body,
              agent |-> m.agent, key |-> m.key, seal |-> m.seal]
  BY <1>3, Zenon DEF HistoryInv, WellFormed
<1>8. m = r
  BY <1>5, <1>6, <1>7
<1>9. QED
  BY <1>1, <1>8

\* A record under the pinned key's signature, however it is spelled, is one that
\* a constructor made with that key: whoever holds it signs nothing else.
LEMMA SealedIsMade ==
    ASSUME HistoryInv, NEW r \in known, IndependentRecord(r, Pinned)
    PROVE  AsMade(r) \in Records /\ r.key = Pinned
<1>1. r.seal.by = Pinned /\ r.seal.over = Payload(r)
  BY SignersAssumption DEF IndependentRecord, Under
<1>2. PICK m \in Records : m.seal.by = r.seal.by /\ m.seal.over = r.seal.over
  BY <1>1, SignersAssumption DEF HistoryInv, Unforged
<1>3. m \in known /\ Sealed(m)
  BY DEF HistoryInv, MadeRight, Records
<1>4. m.seal = Seal(m.key, Payload(m))
  BY <1>3 DEF Sealed
<1>5. /\ Payload(m) = Payload(r) /\ m.key = Pinned
      /\ m.seal = [by |-> r.seal.by, over |-> r.seal.over, spelling |-> "exact"]
  BY <1>1, <1>2, <1>4 DEF Seal
<1>6. /\ m.id = r.id /\ m.link = r.link /\ m.kind = r.kind /\ m.body = r.body
      /\ m.agent = r.agent /\ m.key = r.key
  BY <1>5 DEF Payload
<1>7. m = [id |-> m.id, link |-> m.link, kind |-> m.kind, body |-> m.body,
           agent |-> m.agent, key |-> m.key, seal |-> m.seal]
  BY <1>3, Zenon DEF HistoryInv, WellFormed
<1> DEFINE x == [by |-> r.seal.by, over |-> r.seal.over, spelling |-> "exact"]
<1>8. AsMade(r) = [id |-> r.id, link |-> r.link, kind |-> r.kind, body |-> r.body,
                   agent |-> r.agent, key |-> r.key, seal |-> x]
  BY RespeltFields, Zenon DEF AsMade, HistoryInv
<1>9. m.seal = x
  BY <1>5
<1> HIDE DEF x
<1>10. AsMade(r) = m
  BY <1>6, <1>7, <1>8, <1>9
<1>11. QED
  BY <1>5, <1>6, <1>10

\* What was made of a key's signature is accepted under that key in any spelling.
LEMMA MadeIsSealed ==
    ASSUME HistoryInv, NEW r \in known, AsMade(r) \in Records, r.key = Pinned
    PROVE  IndependentRecord(r, Pinned)
<1> DEFINE m == AsMade(r)
<1>1. /\ m.id = r.id /\ m.link = r.link /\ m.kind = r.kind /\ m.body = r.body
      /\ m.agent = r.agent /\ m.key = r.key
      /\ m.seal.by = r.seal.by /\ m.seal.over = r.seal.over
  BY RespeltFields DEF AsMade, HistoryInv
<1>2. m.seal = Seal(m.key, Payload(m))
  BY DEF HistoryInv, MadeRight, Records, Sealed
<1> HIDE DEF m
<1>3. m.seal.by = m.key /\ m.seal.over = Payload(m)
  BY <1>2 DEF Seal
<1>4. Payload(m) = Payload(r)
  BY <1>1 DEF Payload
<1>5. QED
  BY <1>1, <1>3, <1>4, SignersAssumption DEF IndependentRecord, Under

\* Linked lists of records that verify under the pinned key are the straight
\* histories of its signer.
LEMMA StraightVerified ==
    ASSUME HistoryInv, NEW s \in Seq(known), s # <<>>
    PROVE  (\A i \in 1..Len(s) : Verify(s[i], Pinned)) /\ Linked(s) <=> IsStraight(s, Pinned)
<1>1. /\ Len(s) \in Nat \ {0} /\ DOMAIN s = 1..Len(s)
      /\ \A i \in 1..Len(s) : s[i] \in known
  BY EmptySeq, LenProperties, ElementOfSeq
<1>2. ASSUME \A i \in 1..Len(s) : Verify(s[i], Pinned), Linked(s)
      PROVE  IsStraight(s, Pinned)
  <2>1. /\ Len(s) \in Nat \ {0} /\ DOMAIN s = 1..Len(s)
        /\ \A i \in 1..Len(s) : s[i] \in known /\ Verify(s[i], Pinned)
        /\ s[1].link = NoLink
        /\ \A i \in 2..Len(s) : s[i].link = LinkTo(s[i - 1])
    BY <1>1, <1>2 DEF Linked
  <2>2. \A i \in 1..Len(s) : s[i] \in Records /\ s[i].key = Pinned
    BY <2>1, VerifiedIsMade, SignersAssumption
  <2>3. s[1] \in roots
    <3>1. s[1] \in Records
      BY <2>1, <2>2
    <3>2. \A p \in retractions : p[2].link # NoLink
      BY LinkIsSome DEF HistoryInv, MadeRight
    <3>3. QED
      BY <2>1, <3>1, <3>2 DEF Records
  <2>4. ASSUME NEW i \in 2..Len(s) PROVE <<s[i - 1], s[i]>> \in retractions
    <3>1. i \in 1..Len(s)
      BY <2>1
    <3>2. s[i] \notin roots
      BY <2>1, LinkIsSome DEF HistoryInv, MadeRight
    <3>3. PICK p \in retractions : p[2] = s[i]
      BY <2>2, <3>1, <3>2 DEF Records
    <3>4. LinkTo(p[1]) = LinkTo(s[i - 1])
      BY <2>1, <3>3 DEF HistoryInv, MadeRight
    <3>5. p[1] = s[i - 1]
      BY <3>4, LinkNamesOne
    <3>6. p = <<p[1], p[2]>>
      BY Zenon DEF HistoryInv, WellFormed
    <3>7. QED
      BY <3>3, <3>5, <3>6
  <2>5. QED
    BY <1>1, <2>2, <2>3, <2>4 DEF IsStraight
<1>3. ASSUME IsStraight(s, Pinned)
      PROVE  (\A i \in 1..Len(s) : Verify(s[i], Pinned)) /\ Linked(s)
  <2>1. Len(s) \in Nat \ {0} /\ DOMAIN s = 1..Len(s)
    BY <1>1
  <2>2. /\ s[1] \in roots /\ \A i \in 2..Len(s) : <<s[i - 1], s[i]>> \in retractions
        /\ \A i \in 1..Len(s) : s[i].key = Pinned
    BY <1>3, <2>1 DEF IsStraight
  <2>3. Sealed(s[1]) /\ s[1].link = NoLink
    BY <2>2 DEF HistoryInv, MadeRight
  <2>4. ASSUME NEW i \in 2..Len(s)
        PROVE  Sealed(s[i]) /\ s[i].link = LinkTo(s[i - 1]) /\ s[i].kind = "receipt"
    <3>1. <<s[i - 1], s[i]>> \in retractions
      BY <2>2
    <3>2. QED
      BY <3>1 DEF HistoryInv, MadeRight
  <2>5. ASSUME NEW i \in 1..Len(s) PROVE Verify(s[i], Pinned)
    <3>1. CASE i = 1
      BY <2>2, <2>3, <3>1 DEF Verify, Valid, Sealed
    <3>2. CASE i # 1
      <4>1. i \in 2..Len(s)
        BY <2>1, <3>2
      <4>2. QED
        BY <2>2, <2>4, <4>1 DEF Verify, Valid, Sealed
    <3>3. QED
      BY <3>1, <3>2
  <2>6. QED
    BY <2>1, <2>3, <2>4, <2>5 DEF Linked
<1>4. QED
  BY <1>2, <1>3

\* The lists verify_chain accepts under the pinned key are the histories of its signer.
LEMMA HistoryAccepted == HistoryInv => AcceptedExactly
<1> SUFFICES ASSUME HistoryInv, NEW s \in Arrangements
             PROVE  VerifyChain(s, Pinned, NoCheckpoint) <=> IsHistory(s, Pinned)
  BY DEF AcceptedExactly
<1>1. s \in Seq(known) /\ DOMAIN s = 1..Len(s)
  BY ArrangementIsSeq, LenProperties
<1>2. s # <<>> => ((\A i \in 1..Len(s) : Verify(s[i], Pinned)) /\ Linked(s)
                  <=> IsStraight(s, Pinned))
  BY <1>1, StraightVerified
<1>3. DistinctIds(s) <=> \A i, j \in DOMAIN s : i # j => s[i].id # s[j].id
  BY DEF DistinctIds
<1>4. QED
  BY <1>1, <1>2, <1>3 DEF VerifyChain, IsHistory, IsStraight, NoCheckpoint

\* With a pinned key, verify_chain accepts the histories of that signer and
\* nothing else.
THEOREM ChainAcceptedExactly == Spec => []AcceptedExactly
  BY HistoryInvariant, HistoryAccepted, PTL

\* The checkpoint that is kept was taken of the chain that is kept.
LEMMA RetainedInvariant == Spec => []RetainedInv
<1>1. Init => RetainedInv
  BY DEF Init, RetainedInv
<1>2. RetainedInv /\ [Next]_vars => RetainedInv'
  <2> SUFFICES ASSUME RetainedInv, [Next]_vars PROVE RetainedInv'
    OBVIOUS
  <2>1. CASE retained' = retained /\ known \subseteq known'
    <3>1. retained.chain \in Seq(known) => retained.chain \in Seq(known')
      BY <2>1, SeqMonotonic
    <3>2. QED
      BY <2>1, <3>1 DEF RetainedInv
  <2>2. ASSUME NEW s \in Arrangements, Checkpoint(s)
        PROVE  RetainedInv'
    <3>1. s \in Seq(known) /\ known' = known
      BY <2>2, ArrangementIsSeq DEF Checkpoint
    <3>2. /\ retained'.chain = s /\ retained'.checkpoint = CheckpointOf(s)
          /\ VerifyChain(s, NoKey, NoCheckpoint)
      BY <2>2 DEF Checkpoint
    <3>3. QED
      BY <3>1, <3>2 DEF RetainedInv
  <2>3. CASE \E k \in Signers, id \in Ids, body \in Bodies :
               \/ Record(k, id, body) \/ Unknown(k, id, body)
               \/ \E prior \in known : Retract(k, id, body, prior)
    BY <2>1, <2>3 DEF Record, Unknown, MakeRoot, Retract
  <2>4. CASE \E r \in known :
               \/ Impersonate(r) \/ Respell(r)
               \/ \E a \in Altered(r) : Alter(r, a) \/ Reseal(r, a)
    BY <2>1, <2>4 DEF Alter, Reseal, Impersonate, Respell
  <2>5. CASE UNCHANGED vars
    BY <2>1, <2>5 DEF vars
  <2>6. QED
    BY <2>2, <2>3, <2>4, <2>5 DEF Next
<1>3. QED
  BY <1>1, <1>2, PTL DEF Spec

\* A retained checkpoint is met by the chain it was taken of and by no other
\* list, whatever is made or altered after it.
THEOREM CheckpointMetExactly == Spec => []CheckpointExact
<1>1. RetainedInv => CheckpointExact
  <2> SUFFICES ASSUME RetainedInv, retained.checkpoint # NoCheckpoint,
                      NEW s \in Arrangements
               PROVE  VerifyChain(s, Pinned, retained.checkpoint)
                      <=> s = retained.chain /\ VerifyChain(s, Pinned, NoCheckpoint)
    BY DEF CheckpointExact
  <2>1. /\ retained.chain \in Seq(known)
        /\ VerifyChain(retained.chain, NoKey, NoCheckpoint)
        /\ retained.checkpoint = CheckpointOf(retained.chain)
    BY DEF RetainedInv
  <2>2. s \in Seq(known)
    BY ArrangementIsSeq
  <2>3. ASSUME VerifyChain(s, Pinned, retained.checkpoint)
        PROVE  s = retained.chain /\ VerifyChain(s, Pinned, NoCheckpoint)
    <3>1. CheckpointOf(s) = CheckpointOf(retained.chain)
      BY <2>1, <2>3 DEF VerifyChain
    <3>2. s = retained.chain
      BY <2>1, <2>2, <2>3, <3>1, CheckpointBinds, Zenon
    <3>3. QED
      BY <2>3, <3>2 DEF VerifyChain
  <2>4. ASSUME s = retained.chain, VerifyChain(s, Pinned, NoCheckpoint)
        PROVE  VerifyChain(s, Pinned, retained.checkpoint)
    BY <2>1, <2>4, SignersAssumption DEF VerifyChain
  <2>5. QED
    BY <2>3, <2>4
<1>2. QED
  BY <1>1, RetainedInvariant, PTL
-----------------------------------------------------------------------------
(* The verifiers that share no code with the core.                         *)

\* A record's pointer is none or one that retract makes.
LinkShape == \A r \in known : r.link = NoLink \/ \E p \in known : r.link = LinkTo(p)

\* No constructor and no alteration makes a pointer of another shape.
LEMMA LinkShapeInvariant == Spec => []LinkShape
<1>1. Init => LinkShape
  BY DEF Init, LinkShape
<1>2. WellFormed /\ LinkShape /\ [Next]_vars => LinkShape'
  <2> SUFFICES ASSUME WellFormed, LinkShape, [Next]_vars PROVE LinkShape'
    OBVIOUS
  <2>1. ASSUME NEW b, known' = known \cup {b},
               b.link = NoLink \/ \E p \in known : b.link = LinkTo(p)
        PROVE  LinkShape'
    BY <2>1 DEF LinkShape
  <2>2. ASSUME NEW k \in Signers, NEW id \in Ids, NEW body \in Bodies,
               Record(k, id, body) \/ Unknown(k, id, body)
        PROVE  LinkShape'
    BY <2>1, <2>2 DEF Record, Unknown, MakeRoot, Sign
  <2>3. ASSUME NEW k \in Signers, NEW id \in Ids, NEW body \in Bodies, NEW prior \in known,
               Retract(k, id, body, prior)
        PROVE  LinkShape'
    BY <2>1, <2>3 DEF Retract, Sign
  <2>4. ASSUME NEW r \in known, Impersonate(r)
        PROVE  LinkShape'
    <3>1. \A agent : Impersonated(r, agent).link = r.link
      BY ImpersonatedFields
    <3>2. r.link = NoLink \/ \E p \in known : r.link = LinkTo(p)
      BY DEF LinkShape
    <3>3. PICK agent : known' = known \cup {Impersonated(r, agent)}
      BY <2>4 DEF Impersonate, Alter
    <3>4. QED
      BY <2>1, <3>1, <3>2, <3>3
  <2>5. ASSUME NEW r \in known, NEW a \in Altered(r), Alter(r, a) \/ Reseal(r, a)
        PROVE  LinkShape'
    <3>1. a.link = NoLink \/ \E p \in known : a.link = LinkTo(p)
      BY AlteredLink DEF LinkShape
    <3>2. Sign(a.id, a.link, a.kind, a.body, Stranger).link = a.link
      BY DEF Sign
    <3>3. QED
      BY <2>1, <2>5, <3>1, <3>2 DEF Reseal, Alter
  <2>6. CASE known' = known
    BY <2>6 DEF LinkShape
  <2>7. ASSUME NEW r \in known, Respell(r)
        PROVE  LinkShape'
    <3>1. \A f : Respelt(r, f).link = r.link
      BY RespeltFields
    <3>2. r.link = NoLink \/ \E p \in known : r.link = LinkTo(p)
      BY DEF LinkShape
    <3>3. PICK f : known' = known \cup {Respelt(r, f)}
      BY <2>7 DEF Respell, Alter
    <3>4. QED
      BY <2>1, <3>1, <3>2, <3>3
  <2>8. QED
    BY <2>2, <2>3, <2>4, <2>5, <2>6, <2>7 DEF Next, Checkpoint, vars
<1>3. QED
  BY <1>1, <1>2, HistoryInvariant, PTL DEF Spec, HistoryInv

\* On a pointer of that shape, naming previous by id and digest is being its link.
LEMMA SupersedesIsLink ==
    ASSUME NEW r, NEW previous, r.link = NoLink \/ \E p \in known : r.link = LinkTo(p)
    PROVE  /\ Supersedes(r, previous) <=> r.link = LinkTo(previous)
           /\ (\E l \in r.link : l.digest = Digest(previous)) <=> r.link = LinkTo(previous)
<1>1. ASSUME NEW p, r.link = LinkTo(p), NEW l \in r.link, l.digest = Digest(previous)
      PROVE  r.link = LinkTo(previous)
  <2>1. l.digest = Digest(p)
    BY <1>1 DEF LinkTo
  <2>2. p = previous
    BY <1>1, <2>1 DEF Digest
  <2>3. QED
    BY <1>1, <2>2
<1>2. ASSUME r.link = LinkTo(previous)
      PROVE  \E l \in r.link : l.receiptId = previous.id /\ l.digest = Digest(previous)
  BY <1>2 DEF LinkTo
<1>3. QED
  BY <1>1, <1>2 DEF Supersedes, NoLink

\* The verdict of the standalone verifier on a record is the core's.
LEMMA StandaloneIsVerify ==
    ASSUME NEW r, NEW key
    PROVE  StandaloneRecord(r, key) = "valid" <=> Verify(r, key)
  BY DEF StandaloneRecord, Verify, Under

\* The two chain procedures test the same links and the same ids.
LEMMA StandaloneLinks ==
    ASSUME LinkShape, NEW s \in Seq(known), s # <<>>
    PROVE  /\ (\A i \in DOMAIN s : \A j \in 1..(i - 1) : s[j].id # s[i].id) <=> DistinctIds(s)
           /\ (\A i \in DOMAIN s :
                 IF i = 1 THEN s[i].link = NoLink ELSE Supersedes(s[i], s[i - 1])) <=> Linked(s)
<1>1. /\ Len(s) \in Nat \ {0} /\ DOMAIN s = 1..Len(s)
      /\ \A i \in 1..Len(s) : s[i] \in known
  BY EmptySeq, LenProperties, ElementOfSeq
<1>2. (\A i \in DOMAIN s : \A j \in 1..(i - 1) : s[j].id # s[i].id) <=> DistinctIds(s)
  <2>1. ASSUME \A i \in DOMAIN s : \A j \in 1..(i - 1) : s[j].id # s[i].id,
               NEW i \in DOMAIN s, NEW j \in DOMAIN s, s[i].id = s[j].id
        PROVE  i = j
    <3>1. CASE i < j
      <4>1. i \in 1..(j - 1)
        BY <1>1, <3>1
      <4>2. QED
        BY <2>1, <4>1
    <3>2. CASE j < i
      <4>1. j \in 1..(i - 1)
        BY <1>1, <3>2
      <4>2. QED
        BY <2>1, <4>1
    <3>3. QED
      BY <1>1, <3>1, <3>2
  <2>2. ASSUME DistinctIds(s), NEW i \in DOMAIN s, NEW j \in 1..(i - 1)
        PROVE  s[j].id # s[i].id
    <3>1. j \in DOMAIN s /\ j # i
      BY <1>1
    <3>2. QED
      BY <2>2, <3>1 DEF DistinctIds
  <2>3. QED
    BY <2>1, <2>2 DEF DistinctIds
<1>3. \A i \in 2..Len(s) : Supersedes(s[i], s[i - 1]) <=> s[i].link = LinkTo(s[i - 1])
  <2>1. SUFFICES ASSUME NEW i \in 2..Len(s)
                 PROVE  Supersedes(s[i], s[i - 1]) <=> s[i].link = LinkTo(s[i - 1])
    OBVIOUS
  <2>2. s[i] \in known
    BY <1>1
  <2>3. s[i].link = NoLink \/ \E p \in known : s[i].link = LinkTo(p)
    BY <2>2 DEF LinkShape
  <2>4. QED
    BY <2>3, SupersedesIsLink
<1>4. (\A i \in DOMAIN s :
         IF i = 1 THEN s[i].link = NoLink ELSE Supersedes(s[i], s[i - 1]))
      <=> s[1].link = NoLink /\ \A i \in 2..Len(s) : Supersedes(s[i], s[i - 1])
  BY <1>1
<1>5. QED
  BY <1>2, <1>3, <1>4 DEF Linked

\* Comparing the three entries of a checkpoint is comparing the checkpoint.
LEMMA StandaloneCheckpoint ==
    ASSUME NEW s, NEW t, NEW key
    PROVE  (\A c \in CheckpointOf(t) :
              /\ key # NoKey
              /\ c.length = Len(s) /\ c.genesis = Digest(s[1]) /\ c.head = Digest(s[Len(s)]))
           <=> key # NoKey /\ CheckpointOf(t) = CheckpointOf(s)
<1> DEFINE c(u) == [length |-> Len(u), genesis |-> Digest(u[1]), head |-> Digest(u[Len(u)])]
<1>1. c(t) = c(s) <=> /\ c(t).length = Len(s) /\ c(t).genesis = Digest(s[1])
                      /\ c(t).head = Digest(s[Len(s)])
  OBVIOUS
<1>2. CheckpointOf(t) = {c(t)} /\ CheckpointOf(s) = {c(s)}
  BY DEF CheckpointOf
<1> HIDE DEF c
<1>3. QED
  BY <1>1, <1>2

\* On every list of records in circulation, with or without a pinned key and a
\* checkpoint, the standalone verifier decides as the core does.
THEOREM ChainVerifiersAgree == Spec => []VerifiersAgree
<1>1. LinkShape /\ RetainedInv => VerifiersAgree
  <2> SUFFICES ASSUME LinkShape, RetainedInv, NEW s \in Arrangements, NEW key,
                      NEW checkpoint \in {NoCheckpoint, retained.checkpoint}
               PROVE  StandaloneChain(s, key, checkpoint) <=> VerifyChain(s, key, checkpoint)
    BY DEF VerifiersAgree
  <2>1. s \in Seq(known)
    BY ArrangementIsSeq
  <2>2. (\A i \in DOMAIN s : StandaloneRecord(s[i], key) = "valid")
        <=> \A i \in DOMAIN s : Verify(s[i], key)
    BY StandaloneIsVerify
  <2>3. (\A c \in checkpoint :
           /\ key # NoKey
           /\ c.length = Len(s) /\ c.genesis = Digest(s[1]) /\ c.head = Digest(s[Len(s)]))
        <=> (checkpoint # NoCheckpoint => key # NoKey /\ checkpoint = CheckpointOf(s))
    <3>1. CASE checkpoint = NoCheckpoint
      BY <3>1 DEF NoCheckpoint
    <3>2. CASE checkpoint # NoCheckpoint
      <4>1. checkpoint = CheckpointOf(retained.chain)
        BY <3>2 DEF RetainedInv
      <4>2. QED
        BY <3>2, <4>1, StandaloneCheckpoint
    <3>3. QED
      BY <3>1, <3>2
  <2>4. CASE s = <<>>
    BY <2>4 DEF StandaloneChain, VerifyChain
  <2>5. CASE s # <<>>
    BY <2>1, <2>2, <2>3, <2>5, StandaloneLinks DEF StandaloneChain, VerifyChain
  <2>6. QED
    BY <2>4, <2>5
<1>2. QED
  BY <1>1, LinkShapeInvariant, RetainedInvariant, PTL

\* The digests a list is linked by are the links of its records.
LEMMA DigestLinks ==
    ASSUME LinkShape, NEW s \in Seq(known), NEW i \in 2..Len(s)
    PROVE  (\E l \in s[i].link : l.digest = Digest(s[i - 1])) <=> s[i].link = LinkTo(s[i - 1])
<1>1. s[i] \in known
  BY ElementOfSeq
<1>2. s[i].link = NoLink \/ \E p \in known : s[i].link = LinkTo(p)
  BY <1>1 DEF LinkShape
<1>3. QED
  BY <1>2, SupersedesIsLink

\* The lists of signatures made with the pinned key, spelled in any way, that
\* digests link are the straight histories of its signer up to spelling.
LEMMA StraightRespelt ==
    ASSUME HistoryInv, NEW s \in Seq(known), s # <<>>
    PROVE  (\A i \in 1..Len(s) : IndependentRecord(s[i], Pinned)) /\ Linked(s)
           <=> IsStraightRespelt(s, Pinned)
<1>1. /\ Len(s) \in Nat \ {0} /\ DOMAIN s = 1..Len(s)
      /\ \A i \in 1..Len(s) : s[i] \in known
  BY EmptySeq, LenProperties, ElementOfSeq
<1>2. \A r \in known : AsMade(r).link = r.link
  BY RespeltFields DEF AsMade, HistoryInv
<1>3. ASSUME \A i \in 1..Len(s) : IndependentRecord(s[i], Pinned), Linked(s)
      PROVE  IsStraightRespelt(s, Pinned)
  <2>1. /\ Len(s) \in Nat \ {0} /\ DOMAIN s = 1..Len(s)
        /\ s[1].link = NoLink
        /\ \A i \in 2..Len(s) : s[i].link = LinkTo(s[i - 1])
    BY <1>1, <1>3 DEF Linked
  <2>2. \A i \in 1..Len(s) : AsMade(s[i]) \in Records /\ s[i].key = Pinned
    BY <1>1, <1>3, SealedIsMade
  <2>3. \A i \in 1..Len(s) : AsMade(s[i]).link = s[i].link
    BY <1>1, <1>2
  <2>4. AsMade(s[1]) \in roots
    <3>1. AsMade(s[1]) \in Records /\ AsMade(s[1]).link = NoLink
      BY <2>1, <2>2, <2>3
    <3>2. \A p \in retractions : p[2].link # NoLink
      BY LinkIsSome DEF HistoryInv, MadeRight
    <3>3. QED
      BY <3>1, <3>2 DEF Records
  <2>5. ASSUME NEW i \in 2..Len(s) PROVE <<s[i - 1], AsMade(s[i])>> \in retractions
    <3>1. i \in 1..Len(s)
      BY <2>1
    <3>2. AsMade(s[i]) \in Records /\ AsMade(s[i]).link = LinkTo(s[i - 1])
      BY <2>1, <2>2, <2>3, <3>1
    <3>3. AsMade(s[i]) \notin roots
      BY <3>2, LinkIsSome DEF HistoryInv, MadeRight
    <3>4. PICK p \in retractions : p[2] = AsMade(s[i])
      BY <3>2, <3>3 DEF Records
    <3>5. LinkTo(p[1]) = LinkTo(s[i - 1])
      BY <3>2, <3>4 DEF HistoryInv, MadeRight
    <3>6. p[1] = s[i - 1]
      BY <3>5, LinkNamesOne
    <3>7. p = <<p[1], p[2]>>
      BY Zenon DEF HistoryInv, WellFormed
    <3>8. QED
      BY <3>4, <3>6, <3>7
  <2>6. QED
    BY <1>1, <2>2, <2>4, <2>5 DEF IsStraightRespelt
<1>4. ASSUME IsStraightRespelt(s, Pinned)
      PROVE  (\A i \in 1..Len(s) : IndependentRecord(s[i], Pinned)) /\ Linked(s)
  <2>1. /\ AsMade(s[1]) \in roots
        /\ \A i \in 2..Len(s) : <<s[i - 1], AsMade(s[i])>> \in retractions
        /\ \A i \in 1..Len(s) : s[i].key = Pinned
    BY <1>1, <1>4 DEF IsStraightRespelt
  <2>2. AsMade(s[1]) \in Records /\ AsMade(s[1]).link = NoLink
    BY <2>1 DEF HistoryInv, MadeRight, Records
  <2>3. ASSUME NEW i \in 2..Len(s)
        PROVE  AsMade(s[i]) \in Records /\ AsMade(s[i]).link = LinkTo(s[i - 1])
    <3> DEFINE pair == <<s[i - 1], AsMade(s[i])>>
    <3>1. pair \in retractions /\ pair[1] = s[i - 1] /\ pair[2] = AsMade(s[i])
      BY <2>1
    <3> HIDE DEF pair
    <3>2. QED
      BY <3>1 DEF HistoryInv, MadeRight, Records
  <2>4. \A i \in 1..Len(s) : AsMade(s[i]) \in Records
    <3>1. \A i \in 1..Len(s) : i = 1 \/ i \in 2..Len(s)
      BY <1>1
    <3>2. QED
      BY <2>2, <2>3, <3>1
  <2>5. \A i \in 1..Len(s) : IndependentRecord(s[i], Pinned)
    BY <1>1, <2>1, <2>4, MadeIsSealed
  <2>6. s[1].link = NoLink
    <3>1. s[1] \in known
      BY <1>1
    <3>2. QED
      BY <1>2, <2>2, <3>1
  <2>7. \A i \in 2..Len(s) : s[i].link = LinkTo(s[i - 1])
    <3>1. \A i \in 2..Len(s) : s[i] \in known
      BY <1>1
    <3>2. QED
      BY <1>2, <2>3, <3>1
  <2>8. QED
    BY <2>5, <2>6, <2>7 DEF Linked
<1>5. QED
  BY <1>3, <1>4

\* Under the pinned key the independent verifier accepts the empty list and the
\* straight histories of that signer, ids used twice or not, signatures spelled
\* as they were made or not, and nothing else.
THEOREM ChainIndependentExtent == Spec => []IndependentExtent
<1>1. HistoryInv /\ LinkShape => IndependentExtent
  <2> SUFFICES ASSUME HistoryInv, LinkShape, NEW s \in Arrangements
               PROVE  IndependentChain(s, Pinned) <=> s = <<>> \/ IsStraightRespelt(s, Pinned)
    BY DEF IndependentExtent
  <2>1. s \in Seq(known)
    BY ArrangementIsSeq
  <2>2. CASE s = <<>>
    BY <2>2 DEF IndependentChain
  <2>3. CASE s # <<>>
    <3>1. DOMAIN s = 1..Len(s)
      BY <2>1, LenProperties
    <3>2. \A i \in 2..Len(s) :
            (\E l \in s[i].link : l.digest = Digest(s[i - 1])) <=> s[i].link = LinkTo(s[i - 1])
      BY <2>1, DigestLinks
    <3>3. IndependentChain(s, Pinned)
          <=> (\A i \in 1..Len(s) : IndependentRecord(s[i], Pinned)) /\ Linked(s)
      BY <2>3, <3>1, <3>2 DEF IndependentChain, Linked
    <3>4. QED
      BY <2>1, <2>3, <3>3, StraightRespelt
  <2>4. QED
    BY <2>2, <2>3
<1>2. QED
  BY <1>1, HistoryInvariant, LinkShapeInvariant, PTL
==============================================================================
