--------------------------- MODULE JsonlSinkProofs ---------------------------
(* What JsonlSink guarantees for any writers, records and number of calls. *)
EXTENDS JsonlSink, LogLemmas, FiniteSetTheorems

LEMMA NotEmpty ==
    ASSUME NEW q \in Seq(Pieces), Len(q) = 3 \/ Len(q) = 4
    PROVE  q # <<>>
<1>1. Len(<<>>) = 0
  OBVIOUS
<1> QED BY <1>1

(* The line of a record, piece by piece. *)
LEMMA LineShape ==
    ASSUME NEW r \in Records
    PROVE  /\ Line(r) \in Seq(Pieces) /\ Len(Line(r)) = 3
           /\ Line(r)[1] = Opening(r) /\ Line(r)[2] = Closing(r) /\ Line(r)[3] = Newline
           /\ Opening(r) # Newline /\ Closing(r) # Newline
           /\ Newline \in Pieces
BY DEF Line, Pieces, Opening, Closing, Newline

(* A buffer is a line, or a newline and a line. *)
LEMMA BufferShape ==
    ASSUME NEW r \in Records, NEW b \in Buffers(r)
    PROVE  /\ b \in Seq(Pieces)
           /\ \/ Len(b) = 3 /\ b = Line(r)
              \/ Len(b) = 4 /\ b = <<Newline>> \o Line(r) /\ b[1] = Newline
           /\ b[Len(b)] = Newline
           /\ b[Len(b) - 1] = Closing(r)
           /\ b[Len(b) - 2] = Opening(r)
<1>1. CASE b = Line(r)
  <2>1. Len(b) = 3 /\ b \in Seq(Pieces)
    BY <1>1, LineShape
  <2>2. b[3] = Newline /\ b[2] = Closing(r) /\ b[1] = Opening(r)
    BY <1>1, LineShape
  <2> QED BY <1>1, <2>1, <2>2
<1>2. CASE b = <<Newline>> \o Line(r)
  <2> DEFINE n == <<Newline>>
             l == Line(r)
  <2>1. n \in Seq(Pieces) /\ Len(n) = 1 /\ n[1] = Newline
    BY LineShape
  <2>2. l \in Seq(Pieces) /\ Len(l) = 3 /\ l[1] = Opening(r) /\ l[2] = Closing(r) /\ l[3] = Newline
    BY LineShape
  <2> HIDE DEF n, l
  <2>3. /\ n \o l \in Seq(Pieces) /\ Len(n \o l) = 4
        /\ (n \o l)[1] = n[1] /\ (n \o l)[2] = l[1]
        /\ (n \o l)[3] = l[2] /\ (n \o l)[4] = l[3]
    <3>1. /\ n \o l \in Seq(Pieces) /\ Len(n \o l) = Len(n) + Len(l)
          /\ \A i \in 1..(Len(n) + Len(l)) :
               (n \o l)[i] = IF i <= Len(n) THEN n[i] ELSE l[i - Len(n)]
      BY <2>1, <2>2, ConcatProperties
    <3> QED BY <2>1, <2>2, <3>1
  <2>4. b = n \o l
    BY <1>2 DEF n, l
  <2>5. /\ Len(b) = 4 /\ b \in Seq(Pieces) /\ b = <<Newline>> \o Line(r)
        /\ b[1] = Newline /\ b[2] = Opening(r) /\ b[3] = Closing(r) /\ b[4] = Newline
    BY <1>2, <2>1, <2>2, <2>3, <2>4
  <2> QED BY <2>5
<1> QED BY <1>1, <1>2 DEF Buffers

(* Bytes added behind a readable line leave it readable when they begin with  *)
(* a newline or one ends the file, or the line.                               *)
LEMMA AppendKeeps ==
    ASSUME NEW f \in Seq(Pieces), NEW s \in Seq(Pieces), NEW i \in 1..Len(f),
           ReadableAt(f, i),
           s = <<>> \/ s[1] = Newline \/ Terminated(f) \/ i + 2 \in 1..Len(f)
    PROVE  i \in 1..Len(f \o s) /\ ReadableAt(f \o s, i)
<1> DEFINE g == f \o s
<1>1. g \in Seq(Pieces) /\ Len(g) = Len(f) + Len(s)
  OBVIOUS
<1>2. \A k \in 1..Len(f) : g[k] = f[k]
  OBVIOUS
<1>3. s # <<>> => g[Len(f) + 1] = s[1]
  OBVIOUS
<1>4. i + 1 \in 1..Len(f) /\ f[i + 1] = Closing(f[i].record) /\ f[i] = Opening(f[i].record)
  BY DEF ReadableAt
<1>5. g[i] = Opening(g[i].record) /\ g[i + 1] = Closing(g[i].record) /\ i + 1 \in 1..Len(g)
  BY <1>1, <1>2, <1>4
<1>6. StartsLine(g, i)
  BY <1>1, <1>2 DEF ReadableAt, StartsLine
<1>7. ASSUME i + 2 \in 1..Len(g) PROVE g[i + 2] = Newline
  <2>1. CASE i + 2 \in 1..Len(f)
    BY <2>1, <1>2 DEF ReadableAt
  <2>2. CASE i + 2 = Len(f) + 1
    <3>0. i + 1 = Len(f)
      BY <2>2
    <3>1. f[Len(f)] # Newline
      BY <3>0, <1>4 DEF Closing, Newline
    <3>2. s # <<>>
      BY <1>1, <1>7, <2>2
    <3>3. Len(f) # 0
      BY <3>0, <1>4
    <3>4. s[1] = Newline
      BY <2>2, <3>1, <3>2, <3>3 DEF Terminated
    <3> QED BY <2>2, <1>3, <3>2, <3>4
  <2>3. Len(f) \in Nat /\ i + 1 \in 1..Len(f)
    BY <1>4
  <2>4. i + 2 \in 1..Len(f) \/ i + 2 = Len(f) + 1
    BY <2>3
  <2> QED BY <2>1, <2>2, <2>4
<1> HIDE DEF g
<1>8. ReadableAt(g, i)
  BY <1>1, <1>5, <1>6, <1>7 DEF ReadableAt
<1> QED BY <1>1, <1>8 DEF g

(* A readable line is readable in every prefix that holds its text. *)
LEMMA PrefixKeeps ==
    ASSUME NEW f \in Seq(Pieces), NEW n \in 0..Len(f), NEW i \in 1..Len(f),
           i + 1 <= n, ReadableAt(f, i)
    PROVE  ReadableAt(SubSeq(f, 1, n), i)
<1> DEFINE g == SubSeq(f, 1, n)
<1>1. g \in Seq(Pieces) /\ Len(g) = n /\ \A k \in 1..n : g[k] = f[k]
  OBVIOUS
<1> HIDE DEF g
<1>2. ReadableAt(g, i)
  BY <1>1 DEF ReadableAt, StartsLine
<1> QED BY <1>2 DEF g

(* A line written behind a newline, or into an empty file, can be read. *)
LEMMA FreshLine ==
    ASSUME NEW f \in Seq(Pieces), NEW r \in Records, NEW b \in Buffers(r),
           Terminated(f) \/ b[1] = Newline
    PROVE  LET g == f \o b IN
           /\ g \in Seq(Pieces) /\ Len(g) - 2 \in 1..Len(g)
           /\ Terminated(g) /\ ReadableAt(g, Len(g) - 2)
<1> DEFINE g == f \o b
           i == Len(g) - 2
<1>1. b \in Seq(Pieces) /\ (Len(b) = 3 \/ Len(b) = 4)
  BY BufferShape
<1>2. g \in Seq(Pieces) /\ Len(g) = Len(f) + Len(b)
  BY <1>1
<1>3. \A k \in 1..Len(b) : g[Len(f) + k] = b[k]
  BY <1>1
<1>4. \A k \in 1..Len(f) : g[k] = f[k]
  BY <1>1
<1>5. g[Len(g)] = Newline /\ g[Len(g) - 1] = Closing(r) /\ g[i] = Opening(r)
  <2> DEFINE m == Len(b)
  <2>1. b[m] = Newline /\ b[m - 1] = Closing(r) /\ b[m - 2] = Opening(r)
    BY BufferShape
  <2>2. m \in 1..Len(b) /\ m - 1 \in 1..Len(b) /\ m - 2 \in 1..Len(b)
    <3>1. CASE m = 3
      BY <3>1
    <3>2. CASE m = 4
      BY <3>2
    <3> QED BY <1>1, <3>1, <3>2
  <2>3. Len(g) = Len(f) + m /\ Len(g) - 1 = Len(f) + (m - 1) /\ i = Len(f) + (m - 2)
    BY <1>1, <1>2
  <2> HIDE DEF m, g, i
  <2> QED BY <1>3, <2>1, <2>2, <2>3
<1>6. i = 1 \/ g[i - 1] = Newline
  <2>1. CASE Len(b) = 3
    <3>1. b[1] # Newline
      BY <2>1, BufferShape, LineShape
    <3>2. Terminated(f)
      BY <3>1
    <3>3. i - 1 = Len(f)
      BY <1>2, <2>1
    <3> QED BY <1>4, <3>2, <3>3 DEF Terminated
  <2>2. CASE Len(b) = 4
    <3>1. b[1] = Newline
      <4>1. Len(b) # 3
        BY <2>2
      <4> QED BY <4>1, BufferShape
    <3>2. i - 1 = Len(f) + 1
      BY <1>2, <2>2
    <3> QED BY <1>3, <2>2, <3>1, <3>2
  <2> QED BY <1>1, <2>1, <2>2
<1>7. i \in 1..Len(g) /\ i + 1 \in 1..Len(g) /\ i + 1 = Len(g) - 1 /\ i + 2 = Len(g)
  <2>1. Len(f) \in Nat
    OBVIOUS
  <2>2. Len(g) \in Nat /\ Len(g) >= 3
    <3>1. CASE Len(b) = 3
      BY <1>2, <2>1, <3>1
    <3>2. CASE Len(b) = 4
      BY <1>2, <2>1, <3>2
    <3> QED BY <1>1, <3>1, <3>2
  <2> QED BY <2>2
<1> HIDE DEF g
<1>8. ReadableAt(g, i)
  <2>1. g[i].record = r
    BY <1>5 DEF Opening
  <2> QED BY <1>2, <1>5, <1>6, <1>7, <2>1, LineShape DEF ReadableAt, StartsLine
<1>9. Terminated(g)
  BY <1>5 DEF Terminated
<1> QED BY <1>2, <1>7, <1>8, <1>9 DEF g

-----------------------------------------------------------------------------
(* Type correctness.                                                       *)

(* What a writer is about to write. *)
LEMMA ChunkShape ==
    ASSUME TypeOK, NEW w \in Writers
    PROVE  /\ Chunk(w) \in Seq(Pieces)
           /\ stage[w] # "checked" => Chunk(w) = <<>>
           /\ stage[w] = "checked" /\ FlushedApart(w) =>
                 Chunk(w) = <<Newline>> /\ buffer[w] = <<Newline>> \o Line(holding[w])
           /\ stage[w] = "checked" /\ ~FlushedApart(w) =>
                 Chunk(w) = buffer[w] /\ buffer[w] \in Buffers(holding[w])
<1>1. CASE stage[w] # "checked"
  <2>1. buffer[w] = <<>>
    BY <1>1 DEF TypeOK
  <2>2. ~FlushedApart(w)
    <3>1. SUFFICES ASSUME FlushedApart(w) PROVE FALSE
      OBVIOUS
    <3>2. holding[w] \in Records
      BY <3>1, RecordsAssumption DEF FlushedApart
    <3>3. Len(Line(holding[w])) = 3 /\ Len(buffer[w]) = 0
      BY <2>1, <3>2, LineShape
    <3> QED BY <3>1, <3>3 DEF FlushedApart
  <2> QED BY <1>1, <2>1, <2>2 DEF Chunk
<1>2. CASE stage[w] = "checked"
  <2>1. holding[w] \in Records /\ buffer[w] \in Buffers(holding[w])
    BY <1>2 DEF TypeOK
  <2>2. buffer[w] \in Seq(Pieces) /\ Len(Line(holding[w])) = 3
    BY <2>1, BufferShape, LineShape
  <2>3. CASE FlushedApart(w)
    <3>0. Len(buffer[w]) > Len(Line(holding[w]))
      BY <2>3 DEF FlushedApart
    <3>1. Len(buffer[w]) # 3
      <4>1. Len(Line(holding[w])) = 3
        BY <2>2
      <4>2. Len(buffer[w]) > 3
        BY <3>0, <4>1
      <4> DEFINE k == Len(buffer[w])
      <4>3. k \in Nat /\ k > 3
        BY <2>2, <4>2
      <4> HIDE DEF k
      <4>4. k # 3
        BY <4>3
      <4> QED BY <4>4 DEF k
    <3>2. buffer[w] = <<Newline>> \o Line(holding[w])
      BY <2>1, <3>1, BufferShape
    <3>3. Newline \in Pieces
      BY <2>1, LineShape
    <3> QED BY <1>2, <2>3, <3>2, <3>3 DEF Chunk
  <2>4. CASE ~FlushedApart(w)
    BY <1>2, <2>1, <2>2, <2>4 DEF Chunk
  <2> QED BY <2>3, <2>4
<1> QED BY <1>1, <1>2

LEMMA LeaveTyped ==
    ASSUME TypeOK, NEW w \in Writers, Leave(w)
    PROVE  /\ stage' \in [Writers -> {"idle", "opened", "checked"}]
           /\ holding' \in [Writers -> Records \cup {NoRecord}]
           /\ \A v \in Writers : stage'[v] # "idle" => holding'[v] \in Records
           /\ buffer' \in [Writers -> Seq(Pieces)]
           /\ \A v \in Writers : stage'[v] = "checked" => buffer'[v] \in Buffers(holding'[v])
           /\ \A v \in Writers : stage'[v] # "checked" => buffer'[v] = <<>>
<1>1. <<>> \in Seq(Pieces)
  OBVIOUS
<1> QED BY <1>1 DEF TypeOK, Leave

LEMMA TypeInit == Init => TypeOK
<1>1. <<>> \in Seq(Pieces) /\ Len(<<>>) = 0
  OBVIOUS
<1> QED BY <1>1, BoundsAssumption DEF Init, TypeOK

LEMMA TypeStep == TypeOK /\ [Next]_vars => TypeOK'
<1> SUFFICES ASSUME TypeOK, [Next]_vars PROVE TypeOK'
  OBVIOUS
<1> USE BoundsAssumption
<1>0. <<>> \in Seq(Pieces) /\ file \in Seq(Pieces)
  BY DEF TypeOK
<1>1. ASSUME NEW w \in Writers, NEW r \in Records, Open(w, r) PROVE TypeOK'
  BY <1>1 DEF Open, TypeOK
<1>2. ASSUME NEW w \in Writers, CheckTail(w) PROVE TypeOK'
  <2>1. holding[w] \in Records
    BY <1>2 DEF CheckTail, TypeOK
  <2>2. Pending(file, holding[w]) \in Buffers(holding[w])
    BY DEF Pending, Buffers
  <2>3. Pending(file, holding[w]) \in Seq(Pieces)
    BY <2>1, <2>2, BufferShape
  <2> HIDE DEF Pending
  <2> QED BY <1>2, <2>1, <2>2, <2>3 DEF CheckTail, TypeOK
<1>3. ASSUME NEW w \in Writers, CloseTail(w) PROVE TypeOK'
  <2>1. holding[w] \in Records
    BY <1>3 DEF CloseTail, TypeOK
  <2>2. Line(holding[w]) \in Seq(Pieces) /\ Line(holding[w]) \in Buffers(holding[w])
    BY <2>1, LineShape DEF Buffers
  <2>3. Chunk(w) \in Seq(Pieces)
    BY ChunkShape
  <2>4. file' \in Seq(Pieces) /\ Len(file') >= Len(file) /\ Len(file) \in Nat /\ Len(file') \in Nat
    BY <1>0, <1>3, <2>3 DEF CloseTail
  <2>5. \A i \in acked' : i \in 1..Len(file') /\ i + 1 \in 1..Len(file')
    BY <1>3, <2>4 DEF CloseTail, TypeOK
  <2> QED BY <1>3, <2>1, <2>2, <2>4, <2>5 DEF CloseTail, TypeOK
<1>4. ASSUME NEW w \in Writers, WriteLine(w) PROVE TypeOK'
  <2>1. holding[w] \in Records /\ Chunk(w) \in Buffers(holding[w])
    BY <1>4, ChunkShape DEF WriteLine, TypeOK
  <2>2. Chunk(w) \in Seq(Pieces) /\ (Len(Chunk(w)) = 3 \/ Len(Chunk(w)) = 4)
    BY <2>1, BufferShape
  <2>3. file' \in Seq(Pieces) /\ Len(file') = Len(file) + Len(Chunk(w)) /\ Len(file) \in Nat
    BY <1>0, <1>4, <2>2 DEF WriteLine
  <2>4. /\ 1..Len(file) \subseteq 1..Len(file')
        /\ Len(file') - 2 \in 1..Len(file') /\ (Len(file') - 2) + 1 \in 1..Len(file')
    <3>1. CASE Len(Chunk(w)) = 3
      BY <2>3, <3>1
    <3>2. CASE Len(Chunk(w)) = 4
      BY <2>3, <3>2
    <3> QED BY <2>2, <3>1, <3>2
  <2>5. \A i \in acked' : i \in 1..Len(file') /\ i + 1 \in 1..Len(file')
    BY <1>4, <2>4 DEF WriteLine, TypeOK
  <2>6. Leave(w)
    BY <1>4 DEF WriteLine
  <2> QED BY <1>4, <2>3, <2>5, <2>6, LeaveTyped DEF WriteLine, TypeOK
<1>5. ASSUME NEW w \in Writers, NEW n \in 0..Len(Chunk(w)), Interrupt(w, n) PROVE TypeOK'
  <2>1. Chunk(w) \in Seq(Pieces)
    BY ChunkShape
  <2>2. SubSeq(Chunk(w), 1, n) \in Seq(Pieces)
    BY <2>1
  <2>3. file' \in Seq(Pieces) /\ 1..Len(file) \subseteq 1..Len(file')
    BY <1>0, <1>5, <2>2 DEF Interrupt
  <2>4. tears' \in 0..MaxTears /\ races' \in 0..tears'
    BY <1>5 DEF Interrupt, TypeOK
  <2>5. Leave(w)
    BY <1>5 DEF Interrupt
  <2> QED BY <1>5, <2>3, <2>4, <2>5, LeaveTyped DEF Interrupt, TypeOK
<1>6. ASSUME NEW n \in 0..Len(file), PowerLoss(n) PROVE TypeOK'
  <2>1. file' \in Seq(Pieces) /\ Len(file') = n
    BY <1>0, <1>6 DEF PowerLoss
  <2>2. \A i \in acked' : i \in 1..n /\ i + 1 \in 1..n
    <3>1. n \in Nat /\ acked \subseteq Nat \ {0}
      BY <1>0 DEF TypeOK
    <3>2. SUFFICES ASSUME NEW i \in acked' PROVE i \in 1..n /\ i + 1 \in 1..n
      OBVIOUS
    <3>3. i \in acked /\ i + 1 <= n
      BY <1>6 DEF PowerLoss
    <3> QED BY <3>1, <3>3
  <2>3. losses' \in 0..MaxLosses
    BY <1>6 DEF PowerLoss, TypeOK
  <2> QED BY <1>0, <1>6, <2>1, <2>2, <2>3 DEF PowerLoss, TypeOK
<1>7. ASSUME ReadAll PROVE TypeOK'
  <2>1. IsFiniteSet(Damaged(file))
    <3>1. IsFiniteSet(1..Len(file))
      BY <1>0, FS_Interval
    <3>2. Damaged(file) \subseteq 1..Len(file)
      BY <1>0 DEF Damaged
    <3> QED BY <3>1, <3>2, FS_Subset
  <2>2. Cardinality(Damaged(file)) \in Nat
    BY <2>1, FS_CardinalityType
  <2>3. IsFiniteSet(LostAcks)
    <3>1. IsFiniteSet(1..Len(file))
      BY <1>0, FS_Interval
    <3>2. LostAcks \subseteq 1..Len(file)
      BY DEF TypeOK, LostAcks
    <3> QED BY <3>1, <3>2, FS_Subset
  <2>4. Cardinality(LostAcks) \in Nat
    BY <2>3, FS_CardinalityType
  <2> QED BY <1>7, <2>2, <2>4 DEF ReadAll, TypeOK
<1>8. ASSUME UNCHANGED vars PROVE TypeOK'
  BY <1>8 DEF vars, TypeOK
<1> QED BY <1>1, <1>2, <1>3, <1>4, <1>5, <1>6, <1>7, <1>8 DEF Next

(* Every reachable state of the sink is well formed: what a writer has       *)
(* buffered is its own line, with or without the newline that closes a tail. *)
THEOREM TypeCorrect == Spec => []TypeOK
<1> QED BY TypeInit, TypeStep, PTL DEF Spec

-----------------------------------------------------------------------------
(* What a race costs.                                                      *)

(* A checked writer that does not rely on the tail closes it first. *)
LEMMA NotRelying ==
    ASSUME TypeOK, NEW w \in Writers, stage[w] = "checked", w \notin Relying
    PROVE  buffer[w] = <<Newline>> \o Line(holding[w]) /\ buffer[w][1] = Newline
<1>1. holding[w] \in Records /\ buffer[w] = <<Newline>> \o Line(holding[w])
  BY DEF TypeOK, Relying, Buffers
<1> QED BY <1>1, LineShape

(* What a writer gets out, whole or torn, begins with a newline, or lands    *)
(* behind one, or is the line of a writer that relies on a tail it should    *)
(* not have relied on.                                                       *)
LEMMA PrefixGuarded ==
    ASSUME TypeOK, NEW w \in Writers, NEW n \in 0..Len(Chunk(w))
    PROVE  LET s == SubSeq(Chunk(w), 1, n) IN
           /\ s \in Seq(Pieces)
           /\ \/ s = <<>> \/ s[1] = Newline \/ Terminated(file)
              \/ w \in Relying /\ ~TailGuarded
<1>1. Chunk(w) \in Seq(Pieces)
  BY ChunkShape
<1>2. CASE n = 0
  BY <1>1, <1>2
<1>3. CASE n > 0
  <2>1. SubSeq(Chunk(w), 1, n) \in Seq(Pieces) /\ SubSeq(Chunk(w), 1, n)[1] = Chunk(w)[1]
    BY <1>1, <1>3
  <2>2. Chunk(w) # <<>>
    BY <1>1, <1>3
  <2>3. stage[w] = "checked"
    BY <2>2, ChunkShape
  <2>4. CASE FlushedApart(w)
    BY <2>1, <2>3, <2>4, ChunkShape
  <2>5. CASE ~FlushedApart(w) /\ w \notin Relying
    BY <2>1, <2>3, <2>5, ChunkShape, NotRelying
  <2>6. CASE w \in Relying
    BY <2>1, <2>6 DEF TailGuarded
  <2> QED BY <2>4, <2>5, <2>6
<1> QED BY <1>2, <1>3

LEMMA ChunkGuarded ==
    ASSUME TypeOK, NEW w \in Writers
    PROVE  \/ Chunk(w) = <<>> \/ Chunk(w)[1] = Newline \/ Terminated(file)
           \/ w \in Relying /\ ~TailGuarded
<1>1. Chunk(w) \in Seq(Pieces)
  BY ChunkShape
<1>2. SubSeq(Chunk(w), 1, Len(Chunk(w))) = Chunk(w) /\ Len(Chunk(w)) \in 0..Len(Chunk(w))
  BY <1>1
<1> QED BY <1>2, PrefixGuarded

(* The lost records are finitely many, and fewer when there are fewer of them. *)
LEMMA LostFinite ==
    ASSUME TypeOK
    PROVE  IsFiniteSet(LostAcks) /\ Cardinality(LostAcks) \in Nat
<1>1. LostAcks \subseteq 1..Len(file) /\ Len(file) \in Nat
  BY DEF TypeOK, LostAcks
<1>2. IsFiniteSet(1..Len(file))
  BY <1>1, FS_Interval
<1>3. IsFiniteSet(LostAcks)
  BY <1>1, <1>2, FS_Subset
<1> QED BY <1>3, FS_CardinalityType

LEMMA LostShrinks ==
    ASSUME TypeOK, NEW S, S \subseteq LostAcks
    PROVE  IsFiniteSet(S) /\ Cardinality(S) \in Nat /\ Cardinality(S) <= Cardinality(LostAcks)
  BY LostFinite, FS_Subset, FS_CardinalityType

LEMMA LostGrows ==
    ASSUME TypeOK, NEW S, NEW x, S \subseteq LostAcks \cup {x}
    PROVE  Cardinality(S) \in Nat /\ Cardinality(S) <= Cardinality(LostAcks) + 1
<1>1. /\ IsFiniteSet(LostAcks \cup {x}) /\ Cardinality(LostAcks) \in Nat
      /\ Cardinality(LostAcks \cup {x}) \in {Cardinality(LostAcks), Cardinality(LostAcks) + 1}
  BY LostFinite, FS_AddElement
<1>2. /\ IsFiniteSet(S) /\ Cardinality(S) \in Nat
      /\ Cardinality(S) <= Cardinality(LostAcks \cup {x})
  BY <1>1, FS_Subset, FS_CardinalityType
<1> QED BY <1>1, <1>2

(* While a line may still land behind a torn one, the torn one is behind all *)
(* acknowledged lines.                                                       *)
Debt == IF TailGuarded THEN 0 ELSE 1
TornBehind == TailGuarded \/ \A i \in acked : i + 2 \in 1..Len(file)
BlastInv == SafeInv /\ TornBehind

LEMMA BlastFacts ==
    ASSUME BlastInv
    PROVE  /\ TypeOK /\ TornBehind /\ file \in Seq(Pieces)
           /\ Cardinality(LostAcks) \in Nat /\ races \in Nat
           /\ Cardinality(LostAcks) + Debt <= races
<1>1. TypeOK /\ TornBehind /\ Cardinality(LostAcks) + Debt <= races
  BY DEF BlastInv, SafeInv, Debt
<1>2. Cardinality(LostAcks) \in Nat
  BY <1>1, LostFinite
<1>3. file \in Seq(Pieces) /\ races \in Nat
  BY <1>1 DEF TypeOK
<1> QED BY <1>1, <1>2, <1>3

(* Bytes that a writer gets out make no acknowledged line unreadable. *)
LEMMA AckedKeep ==
    ASSUME TypeOK, TornBehind, NEW w \in Writers, NEW s \in Seq(Pieces), file' = file \o s,
           \/ s = <<>> \/ s[1] = Newline \/ Terminated(file)
           \/ w \in Relying /\ ~TailGuarded
    PROVE  acked \ Readable(file') \subseteq LostAcks
<1> SUFFICES ASSUME NEW i \in acked, ReadableAt(file, i) PROVE i \in Readable(file')
  BY DEF LostAcks, Readable
<1>1. file \in Seq(Pieces) /\ i \in 1..Len(file)
  BY DEF TypeOK
<1>2. s = <<>> \/ s[1] = Newline \/ Terminated(file) \/ i + 2 \in 1..Len(file)
  BY DEF TornBehind
<1>3. i \in 1..Len(file \o s) /\ ReadableAt(file \o s, i)
  BY <1>1, <1>2, AppendKeeps
<1> QED BY <1>1, <1>3 DEF Readable

LEMMA BlastInit == Init => BlastInv
<1> SUFFICES ASSUME Init PROVE BlastInv
  OBVIOUS
<1>1. TypeOK
  BY TypeInit
<1>2. TailGuarded
  BY DEF Init, TailGuarded, Terminated
<1>3. LostAcks = {} /\ races = 0
  BY DEF Init, LostAcks
<1>4. Cardinality(LostAcks) = 0
  BY <1>3, FS_EmptySet
<1> QED BY <1>1, <1>2, <1>3, <1>4 DEF BlastInv, SafeInv, TornBehind

(* Steps that leave the file alone. *)
LEMMA BlastFileSame ==
    ASSUME BlastInv, TypeOK', UNCHANGED <<file, acked, races>>, TailGuarded => TailGuarded'
    PROVE  BlastInv'
<1>1. LostAcks' = LostAcks
  BY DEF LostAcks, Readable, ReadableAt, StartsLine
<1>2. Cardinality(LostAcks) \in Nat /\ races \in Nat
  BY LostFinite DEF BlastInv, SafeInv, TypeOK
<1>3. Cardinality(LostAcks)' = Cardinality(LostAcks)
  BY <1>1
<1>4. SafeInv'
  BY <1>2, <1>3 DEF BlastInv, SafeInv
<1> QED BY <1>4 DEF BlastInv, TornBehind

(* A whole line, or the newline that closes a tail, pays the debt back: the  *)
(* line itself is lost where it landed behind a torn one.                    *)
LEMMA BlastWrite ==
    ASSUME BlastInv, TypeOK', NEW w \in Writers, CloseTail(w) \/ WriteLine(w)
    PROVE  BlastInv'
<1>0. TypeOK /\ TornBehind /\ file \in Seq(Pieces)
      /\ Cardinality(LostAcks) \in Nat /\ races \in Nat
      /\ Cardinality(LostAcks) + Debt <= races
  BY BlastFacts
<1>1. file' = file \o Chunk(w) /\ races' = races /\ Chunk(w) \in Seq(Pieces)
  BY <1>0, ChunkShape DEF CloseTail, WriteLine
<1>2. acked \ Readable(file') \subseteq LostAcks
  BY <1>0, <1>1, ChunkGuarded, AckedKeep
<1>3. CASE CloseTail(w)
  <2>1. Chunk(w) = <<Newline>> /\ Newline \in Pieces
    BY <1>0, <1>3, ChunkShape, LineShape DEF CloseTail, TypeOK
  <2>2. Terminated(file')
    <3>1. file'[Len(file')] = Newline
      BY <1>0, <1>1, <2>1
    <3> QED BY <3>1 DEF Terminated
  <2>3. LostAcks' \subseteq LostAcks
    BY <1>2, <1>3 DEF CloseTail, LostAcks
  <2>4. Cardinality(LostAcks') \in Nat /\ Cardinality(LostAcks') <= Cardinality(LostAcks)
    BY <1>0, <2>3, LostShrinks
  <2>5. TailGuarded'
    BY <2>2 DEF TailGuarded
  <2> QED BY <1>0, <1>1, <2>4, <2>5 DEF BlastInv, SafeInv, TornBehind, Debt
<1>4. CASE WriteLine(w)
  <2> DEFINE x == Len(file') - 2
  <2>1. holding[w] \in Records /\ Chunk(w) = buffer[w] /\ Chunk(w) \in Buffers(holding[w])
    BY <1>0, <1>4, ChunkShape DEF WriteLine, TypeOK
  <2>2. acked' = acked \cup {x}
    BY <1>4 DEF WriteLine
  <2>3. Terminated(file')
    <3>1. file'[Len(file')] = Newline
      <4> DEFINE m == Len(Chunk(w))
      <4>1. m \in {3, 4} /\ Chunk(w)[m] = Newline
        BY <2>1, BufferShape
      <4>2. Len(file') = Len(file) + m /\ \A k \in 1..m : file'[Len(file) + k] = Chunk(w)[k]
        BY <1>0, <1>1
      <4> HIDE DEF m
      <4>3. m \in 1..m
        BY <4>1
      <4> QED BY <4>1, <4>2, <4>3
    <3> QED BY <3>1 DEF Terminated
  <2>4. TailGuarded'
    BY <2>3 DEF TailGuarded
  <2>5. CASE Chunk(w)[1] = Newline \/ Terminated(file)
    <3>1. x \in 1..Len(file') /\ ReadableAt(file', x)
      BY <1>0, <1>1, <2>1, <2>5, FreshLine
    <3>2. LostAcks' \subseteq LostAcks
      BY <1>2, <2>2, <3>1 DEF LostAcks, Readable
    <3>3. Cardinality(LostAcks') \in Nat /\ Cardinality(LostAcks') <= Cardinality(LostAcks)
      BY <1>0, <3>2, LostShrinks
    <3> QED BY <1>0, <1>1, <2>4, <3>3 DEF BlastInv, SafeInv, TornBehind, Debt
  <2>6. CASE ~(Chunk(w)[1] = Newline \/ Terminated(file))
    <3>1. Chunk(w) # <<>>
      <4>1. Chunk(w) \in Seq(Pieces) /\ (Len(Chunk(w)) = 3 \/ Len(Chunk(w)) = 4)
        BY <2>1, BufferShape
      <4> QED BY <4>1, NotEmpty
    <3>2. ~TailGuarded
      BY <1>0, <2>6, <3>1, ChunkGuarded
    <3>3. LostAcks' \subseteq LostAcks \cup {x}
      BY <1>2, <2>2 DEF LostAcks
    <3>4. Cardinality(LostAcks') \in Nat /\ Cardinality(LostAcks') <= Cardinality(LostAcks) + 1
      BY <1>0, <3>3, LostGrows
    <3> QED BY <1>0, <1>1, <2>4, <3>2, <3>4 DEF BlastInv, SafeInv, TornBehind, Debt
  <2> QED BY <2>5, <2>6
<1> QED BY <1>3, <1>4

(* A torn write makes no acknowledged line unreadable; it incurs the debt    *)
(* exactly when another writer relied on the tail.                           *)
LEMMA BlastInterrupt ==
    ASSUME BlastInv, TypeOK', NEW w \in Writers, NEW n \in 0..Len(Chunk(w)), Interrupt(w, n)
    PROVE  BlastInv'
<1> DEFINE s == SubSeq(Chunk(w), 1, n)
<1>0. TypeOK /\ TornBehind /\ file \in Seq(Pieces)
      /\ Cardinality(LostAcks) \in Nat /\ races \in Nat
      /\ Cardinality(LostAcks) + Debt <= races
  BY BlastFacts
<1>1. file' = file \o s /\ acked' = acked /\ s \in Seq(Pieces) /\ Chunk(w) \in Seq(Pieces)
  BY <1>0, ChunkShape, PrefixGuarded DEF Interrupt
<1>2. LostAcks' \subseteq LostAcks
  <2>1. acked \ Readable(file') \subseteq LostAcks
    BY <1>0, <1>1, PrefixGuarded, AckedKeep
  <2> QED BY <1>1, <2>1 DEF LostAcks
<1>3. Cardinality(LostAcks') \in Nat /\ Cardinality(LostAcks') <= Cardinality(LostAcks)
  BY <1>0, <1>2, LostShrinks
<1>4. Relying' = Relying \ {w}
  <2>1. \A v \in Writers : /\ v = w => stage'[v] = "idle"
                           /\ v # w => /\ stage'[v] = stage[v] /\ buffer'[v] = buffer[v]
                                       /\ holding'[v] = holding[v]
    BY <1>0 DEF Interrupt, Leave, TypeOK
  <2> QED BY <2>1 DEF Relying
<1>5. CASE n = 0
  <2>1. file' = file
    BY <1>0, <1>1, <1>5
  <2>2. races' = races
    BY <1>5 DEF Interrupt
  <2>3. TailGuarded => TailGuarded'
    BY <1>4, <2>1 DEF TailGuarded, Terminated
  <2> QED BY <1>0, <1>1, <2>1, <2>2, <2>3, BlastFileSame
<1>6. CASE n > 0 /\ Chunk(w)[n] = Newline
  <2>1. file'[Len(file')] = Newline
    BY <1>0, <1>1, <1>6
  <2>2. TailGuarded'
    BY <2>1 DEF TailGuarded, Terminated
  <2>3. races' = races
    BY <1>6 DEF Interrupt
  <2> QED BY <1>0, <1>3, <2>2, <2>3 DEF BlastInv, SafeInv, TornBehind, Debt
<1>7. CASE n > 0 /\ Chunk(w)[n] # Newline
  <2>1. \A i \in acked' : i + 2 \in 1..Len(file')
    <3>1. Len(s) = n /\ Len(file') = Len(file) + n /\ n \in Nat /\ Len(file) \in Nat
      BY <1>0, <1>1
    <3>2. \A i \in acked : i \in 1..Len(file) /\ i + 1 \in 1..Len(file)
      BY <1>0 DEF TypeOK
    <3> QED BY <1>1, <1>7, <3>1, <3>2
  <2>2. CASE Relying \ {w} # {}
    <3>1. races' = races + 1
      BY <1>7, <2>2 DEF Interrupt
    <3>2. Cardinality(LostAcks') <= races
      BY <1>0, <1>3 DEF Debt
    <3>3. SafeInv'
      BY <1>0, <1>3, <3>1, <3>2 DEF SafeInv
    <3> QED BY <2>1, <3>3 DEF BlastInv, TornBehind
  <2>3. CASE Relying \ {w} = {}
    <3>1. races' = races
      BY <1>7, <2>3 DEF Interrupt
    <3>2. TailGuarded'
      BY <1>4, <2>3 DEF TailGuarded
    <3> QED BY <1>0, <1>3, <3>1, <3>2 DEF BlastInv, SafeInv, TornBehind, Debt
  <2> QED BY <2>2, <2>3
<1> QED BY <1>5, <1>6, <1>7

(* A loss of power leaves no writer behind, and a prefix in which the        *)
(* acknowledged lines that are left read as before.                          *)
LEMMA BlastPowerLoss ==
    ASSUME BlastInv, TypeOK', NEW n \in 0..Len(file), PowerLoss(n)
    PROVE  BlastInv'
<1>0. TypeOK /\ TornBehind /\ file \in Seq(Pieces)
      /\ Cardinality(LostAcks) \in Nat /\ races \in Nat
      /\ Cardinality(LostAcks) + Debt <= races
  BY BlastFacts
<1>1. file' = SubSeq(file, 1, n) /\ acked' = {i \in acked : i + 1 <= n} /\ races' = races
  BY DEF PowerLoss
<1>2. LostAcks' \subseteq LostAcks
  <2> SUFFICES ASSUME NEW i \in acked, i + 1 <= n, ReadableAt(file, i)
               PROVE  i \in Readable(file')
    BY <1>1 DEF LostAcks, Readable
  <2>1. i \in 1..Len(file) /\ ReadableAt(SubSeq(file, 1, n), i)
    BY <1>0, PrefixKeeps DEF TypeOK
  <2>2. i \in 1..n /\ Len(file') = n /\ file' \in Seq(Pieces)
    BY <1>0, <1>1, <2>1
  <2> QED BY <1>1, <2>1, <2>2 DEF Readable
<1>3. Cardinality(LostAcks') \in Nat /\ Cardinality(LostAcks') <= Cardinality(LostAcks)
  BY <1>0, <1>2, LostShrinks
<1>4. TailGuarded'
  BY DEF PowerLoss, TailGuarded, Relying
<1> QED BY <1>0, <1>1, <1>3, <1>4 DEF BlastInv, SafeInv, TornBehind, Debt

LEMMA BlastStep == BlastInv /\ [Next]_vars => BlastInv'
<1> SUFFICES ASSUME BlastInv, [Next]_vars PROVE BlastInv'
  OBVIOUS
<1>0. TypeOK /\ TypeOK'
  BY TypeStep DEF BlastInv, SafeInv
<1>1. ASSUME NEW w \in Writers, NEW r \in Records, Open(w, r) PROVE BlastInv'
  <2>1. UNCHANGED <<file, acked, races>> /\ Relying' = Relying
    BY <1>0, <1>1 DEF Open, Relying, TypeOK
  <2> QED BY <1>0, <2>1, BlastFileSame DEF TailGuarded, Terminated
<1>2. ASSUME NEW w \in Writers, CheckTail(w) PROVE BlastInv'
  <2>1. /\ UNCHANGED <<file, acked, races, holding>>
        /\ buffer'[w] = Pending(file, holding[w]) /\ holding[w] \in Records
        /\ \A v \in Writers : v # w => stage'[v] = stage[v] /\ buffer'[v] = buffer[v]
    BY <1>0, <1>2 DEF CheckTail, TypeOK
  <2>2. ~Terminated(file) => w \notin Relying'
    <3> SUFFICES ASSUME ~Terminated(file) PROVE buffer'[w] # Line(holding[w])
      BY <2>1 DEF Relying
    <3>1. buffer'[w] = <<Newline>> \o Line(holding[w])
      BY <2>1 DEF Pending
    <3>2. buffer'[w][1] = Newline /\ Line(holding[w])[1] # Newline
      BY <2>1, <3>1, LineShape
    <3> QED BY <3>2
  <2>3. Relying' \subseteq Relying \cup {w}
    BY <2>1 DEF Relying
  <2>4. TailGuarded => TailGuarded'
    BY <2>1, <2>2, <2>3 DEF TailGuarded
  <2> QED BY <1>0, <2>1, <2>4, BlastFileSame
<1>3. ASSUME NEW w \in Writers, CloseTail(w) \/ WriteLine(w) PROVE BlastInv'
  BY <1>0, <1>3, BlastWrite
<1>4. ASSUME NEW w \in Writers, NEW n \in 0..Len(Chunk(w)), Interrupt(w, n) PROVE BlastInv'
  BY <1>0, <1>4, BlastInterrupt
<1>5. ASSUME NEW n \in 0..Len(file), PowerLoss(n) PROVE BlastInv'
  BY <1>0, <1>5, BlastPowerLoss
<1>6. ASSUME ReadAll \/ UNCHANGED vars PROVE BlastInv'
  <2>1. UNCHANGED <<file, acked, races>> /\ Relying' = Relying
    BY <1>6 DEF ReadAll, vars, Relying
  <2> QED BY <1>0, <2>1, BlastFileSame DEF TailGuarded, Terminated
<1> QED BY <1>1, <1>2, <1>3, <1>4, <1>5, <1>6 DEF Next

LEMMA BlastInvariant == Spec => []BlastInv
  BY BlastInit, BlastStep, PTL DEF Spec

(* Every write torn under a writer that relied on the tail costs at most one *)
(* acknowledged record, and nothing else costs any.                          *)
THEOREM BlastRadiusBounded == Spec => []BlastRadius
<1>1. BlastInv => BlastRadius
  <2> SUFFICES ASSUME BlastInv PROVE BlastRadius
    OBVIOUS
  <2>1. Cardinality(LostAcks) \in Nat /\ races \in Nat
    BY LostFinite DEF BlastInv, SafeInv, TypeOK
  <2> QED BY <2>1 DEF BlastInv, SafeInv, BlastRadius
<1> QED BY <1>1, BlastInvariant, PTL

-----------------------------------------------------------------------------
(* Without a race.                                                         *)

(* As long as there is none, no writer is wrong about the tail. *)
LEMMA GuardedUnraced == ASSUME BlastInv, races = 0 PROVE TailGuarded /\ LostAcks = {}
<1>1. Cardinality(LostAcks) \in Nat /\ IsFiniteSet(LostAcks)
  BY LostFinite DEF BlastInv, SafeInv
<1>2. TailGuarded /\ Cardinality(LostAcks) = 0
  BY <1>1 DEF BlastInv, SafeInv
<1> QED BY <1>1, <1>2, FS_EmptySet

(* Nothing a step writes then makes a readable line unreadable. *)
LEMMA StepKeeps ==
    ASSUME TypeOK, TailGuarded, [Next]_vars, losses' = losses,
           NEW i \in Readable(file)
    PROVE  ReadableAt(file', i)
<1>0. file \in Seq(Pieces) /\ i \in 1..Len(file) /\ ReadableAt(file, i)
  BY DEF TypeOK, Readable
<1>1. CASE UNCHANGED file
  BY <1>0, <1>1
<1>2. ASSUME NEW w \in Writers, CloseTail(w) \/ WriteLine(w)
      PROVE  ReadableAt(file', i)
  <2>1. file' = file \o Chunk(w)
    BY <1>2 DEF CloseTail, WriteLine
  <2>2. Chunk(w) \in Seq(Pieces)
    BY ChunkShape
  <2> QED BY <1>0, <2>1, <2>2, ChunkGuarded, AppendKeeps
<1>3. ASSUME NEW w \in Writers, NEW n \in 0..Len(Chunk(w)), Interrupt(w, n)
      PROVE  ReadableAt(file', i)
  <2>1. file' = file \o SubSeq(Chunk(w), 1, n)
    BY <1>3 DEF Interrupt
  <2> QED BY <1>0, <2>1, PrefixGuarded, AppendKeeps
<1>4. ASSUME NEW n \in 0..Len(file), PowerLoss(n) PROVE FALSE
  BY <1>4 DEF PowerLoss, TypeOK
<1>5. \/ UNCHANGED file
      \/ \E w \in Writers : CloseTail(w) \/ WriteLine(w)
      \/ \E w \in Writers : \E n \in 0..Len(Chunk(w)) : Interrupt(w, n)
      \/ \E n \in 0..Len(file) : PowerLoss(n)
  BY DEF Next, vars, Open, CheckTail, ReadAll
<1> QED BY <1>1, <1>2, <1>3, <1>4, <1>5

(* Until writers have raced, no append, torn or whole, makes an earlier line *)
(* unreadable, whoever wrote it.                                             *)
THEOREM HistoryStaysReadable == Spec => HistoryStable
<1>1. BlastInv /\ [Next]_vars =>
        [losses' = losses /\ races = 0 => \A i \in Readable(file) : ReadableAt(file', i)]_vars
  <2> SUFFICES ASSUME BlastInv, [Next]_vars, losses' = losses, races = 0,
                      NEW i \in Readable(file)
               PROVE  ReadableAt(file', i)
    OBVIOUS
  <2>1. TypeOK /\ TailGuarded
    BY GuardedUnraced DEF BlastInv, SafeInv
  <2> QED BY <2>1, StepKeeps
<1> QED BY <1>1, BlastInvariant, PTL DEF Spec, HistoryStable

(* A line that is read in a longer file, and began in the shorter one, was    *)
(* read there, if another line begins behind it.                              *)
LEMMA ReadBefore ==
    ASSUME NEW f \in Seq(Pieces), NEW s \in Seq(Pieces), NEW i \in 1..Len(f),
           i + 1 \in 1..Len(f), ReadableAt(f \o s, i)
    PROVE  ReadableAt(f, i)
<1> DEFINE g == f \o s
<1>1. g \in Seq(Pieces) /\ Len(g) = Len(f) + Len(s) /\ \A k \in 1..Len(f) : g[k] = f[k]
  OBVIOUS
<1> HIDE DEF g
<1>2. ReadableAt(g, i)
  BY DEF g
<1>3. i + 2 \in 1..Len(f) => i + 2 \in 1..Len(g)
  BY <1>1
<1>4. QED
  BY <1>1, <1>2, <1>3 DEF ReadableAt, StartsLine

(* The file of a step without a loss of power has grown at its end. *)
LEMMA FileGrows ==
    ASSUME TypeOK, [Next]_vars, losses' = losses
    PROVE  \E s \in Seq(Pieces) : file' = file \o s
<1>0. file \in Seq(Pieces) /\ <<>> \in Seq(Pieces) /\ file = file \o <<>>
  BY DEF TypeOK
<1>1. CASE UNCHANGED file
  BY <1>0, <1>1
<1>2. ASSUME NEW w \in Writers, CloseTail(w) \/ WriteLine(w)
      PROVE  \E s \in Seq(Pieces) : file' = file \o s
  BY <1>2, ChunkShape DEF CloseTail, WriteLine
<1>3. ASSUME NEW w \in Writers, NEW n \in 0..Len(Chunk(w)), Interrupt(w, n)
      PROVE  \E s \in Seq(Pieces) : file' = file \o s
  BY <1>3, PrefixGuarded DEF Interrupt
<1>4. ASSUME NEW n \in 0..Len(file), PowerLoss(n) PROVE FALSE
  BY <1>4 DEF PowerLoss, TypeOK
<1>5. \/ UNCHANGED file
      \/ \E w \in Writers : CloseTail(w) \/ WriteLine(w)
      \/ \E w \in Writers : \E n \in 0..Len(Chunk(w)) : Interrupt(w, n)
      \/ \E n \in 0..Len(file) : PowerLoss(n)
  BY DEF Next, vars, Open, CheckTail, ReadAll
<1> QED BY <1>1, <1>2, <1>3, <1>4, <1>5

Hits(f, id) == {i \in Readable(f) : IdOf[f[i].record] = id}
FirstHit(f, id, i) == i \in Hits(f, id) /\ \A j \in Hits(f, id) : i <= j

(* What get answers is the record at the first place of its id. *)
LEMMA GetFirst ==
    ASSUME NEW f \in Seq(Pieces), NEW id, NEW i \in Nat, FirstHit(f, id, i)
    PROVE  Get(f, id) = f[i].record
<1>1. Hits(f, id) \subseteq Nat
  BY DEF Hits, Readable
<1>2. \A k : FirstHit(f, id, k) => k = i
  BY <1>1 DEF FirstHit
<1>3. (CHOOSE k \in Hits(f, id) : \A j \in Hits(f, id) : k <= j) = i
  BY <1>2 DEF FirstHit
<1>4. Hits(f, id) # {}
  BY DEF FirstHit
<1> QED BY <1>3, <1>4 DEF Get, Hits

(* Until writers have raced or power is lost, get stays with its answer.      *)
THEOREM GetAnswersStable == Spec => GetStable
<1>1. BlastInv /\ [Next]_vars =>
        [\A r \in Records :
            losses' = losses /\ races = 0 /\ Answered(IdOf[r])
            => Get(file', IdOf[r]) = Get(file, IdOf[r])]_vars
  <2> SUFFICES ASSUME BlastInv, [Next]_vars, NEW r \in Records,
                      losses' = losses, races = 0, Answered(IdOf[r])
               PROVE  Get(file', IdOf[r]) = Get(file, IdOf[r])
    OBVIOUS
  <2> DEFINE id == IdOf[r]
  <2>1. TypeOK /\ TailGuarded /\ file \in Seq(Pieces)
    BY GuardedUnraced DEF BlastInv, SafeInv, TypeOK
  <2>2. PICK s \in Seq(Pieces) : file' = file \o s
    BY <2>1, FileGrows
  <2>3. Hits(file, id) \in SUBSET Nat /\ Hits(file, id) # {}
    <3>1. Hits(file, id) \subseteq DOMAIN file
      BY DEF Hits, Readable
    <3>2. DOMAIN file \subseteq Nat
      BY <2>1
    <3>3. Hits(file, id) # {}
      BY DEF Answered, Get, Hits
    <3> QED BY <3>1, <3>2, <3>3
  <2>4. PICK i \in Hits(file, id) : \A j \in Hits(file, id) : i <= j
    BY <2>3, LeastElement
  <2>5. i \in 1..Len(file) /\ ReadableAt(file, i) /\ IdOf[file[i].record] = id
    BY <2>1, <2>4 DEF Hits, Readable
  <2>6. /\ file' \in Seq(Pieces) /\ Len(file') = Len(file) + Len(s)
        /\ \A k \in 1..Len(file) : k \in 1..Len(file') /\ file'[k] = file[k]
    BY <2>1, <2>2
  <2> HIDE DEF id
  <2>7. i \in Hits(file', id)
    BY <2>1, <2>5, <2>6, StepKeeps DEF Hits, Readable
  <2>8. ASSUME NEW j \in Hits(file', id) PROVE i <= j
    <3> SUFFICES ASSUME j < i PROVE FALSE
      BY <2>5, <2>6 DEF Hits, Readable
    <3>1. j \in 1..Len(file) /\ j + 1 \in 1..Len(file) /\ ReadableAt(file', j)
      BY <2>5, <2>6, <2>8 DEF Hits, Readable
    <3>2. ReadableAt(file, j)
      BY <2>1, <2>2, <3>1, ReadBefore
    <3>3. j \in Hits(file, id)
      BY <2>1, <2>6, <2>8, <3>1, <3>2 DEF Hits, Readable
    <3> QED BY <2>4, <2>5, <3>1, <3>3
  <2>9. FirstHit(file, id, i) /\ FirstHit(file', id, i) /\ i \in Nat
    BY <2>4, <2>5, <2>7, <2>8 DEF FirstHit
  <2>10. Get(file, id) = file[i].record /\ Get(file', id) = file'[i].record
    BY <2>1, <2>6, <2>9, GetFirst
  <2> QED BY <2>5, <2>6, <2>10 DEF id
<1> QED BY <1>1, BlastInvariant, PTL DEF Spec, GetStable

-----------------------------------------------------------------------------
(* No loss is silent.                                                      *)

(* An acknowledged line is a whole line to its right. *)
WholeAt(f, i) ==
    /\ f[i].part = "opening" /\ f[i + 1].part = "closing"
    /\ i + 2 \in 1..Len(f) => f[i + 2] = Newline

AckedWhole == \A i \in acked : WholeAt(file, i)

LEMMA WholeKept ==
    ASSUME NEW f \in Seq(Pieces), NEW s \in Seq(Pieces), NEW i \in 1..Len(f),
           i + 1 \in 1..Len(f), WholeAt(f, i),
           s = <<>> \/ s[1] = Newline \/ Terminated(f) \/ i + 2 \in 1..Len(f)
    PROVE  WholeAt(f \o s, i)
<1> DEFINE g == f \o s
<1>1. /\ g \in Seq(Pieces) /\ Len(g) = Len(f) + Len(s) /\ Len(s) \in Nat /\ Len(f) \in Nat
      /\ \A k \in 1..Len(f) : g[k] = f[k]
      /\ s # <<>> => g[Len(f) + 1] = s[1]
      /\ s = <<>> => g = f
  OBVIOUS
<1> HIDE DEF g
<1>2. ASSUME i + 2 \in 1..Len(g) PROVE g[i + 2] = Newline
  <2>1. CASE i + 2 \in 1..Len(f)
    BY <1>1, <2>1 DEF WholeAt
  <2>2. CASE i + 2 \notin 1..Len(f)
    <3>1. i + 1 = Len(f) /\ i + 2 = Len(f) + 1 /\ Len(f) # 0
      BY <1>1, <2>2
    <3>2. s # <<>>
      BY <1>1, <1>2, <2>2
    <3>3. f[Len(f)] # Newline
      BY <3>1 DEF WholeAt, Newline
    <3>4. s[1] = Newline
      BY <2>2, <3>1, <3>2, <3>3 DEF Terminated
    <3> QED BY <1>1, <3>1, <3>2, <3>4
  <2> QED BY <2>1, <2>2
<1>3. WholeAt(g, i)
  BY <1>1, <1>2 DEF WholeAt
<1> QED BY <1>3 DEF g

LEMMA WholeStep == BlastInv /\ AckedWhole /\ [Next]_vars => AckedWhole'
<1> SUFFICES ASSUME BlastInv, AckedWhole, [Next]_vars PROVE AckedWhole'
  OBVIOUS
<1>0. /\ TypeOK /\ TornBehind /\ file \in Seq(Pieces)
      /\ \A i \in acked : i \in 1..Len(file) /\ i + 1 \in 1..Len(file)
  BY BlastFacts DEF TypeOK
<1>1. ASSUME NEW w \in Writers, NEW s \in Seq(Pieces), file' = file \o s,
             \/ s = <<>> \/ s[1] = Newline \/ Terminated(file)
             \/ w \in Relying /\ ~TailGuarded
      PROVE  \A i \in acked : WholeAt(file', i)
  <2> TAKE i \in acked
  <2>1. s = <<>> \/ s[1] = Newline \/ Terminated(file) \/ i + 2 \in 1..Len(file)
    BY <1>0, <1>1 DEF TornBehind
  <2>2. WholeAt(file \o s, i)
    BY <1>0, <2>1, WholeKept DEF AckedWhole
  <2> QED BY <1>1, <2>2
<1>2. ASSUME NEW w \in Writers, CloseTail(w) PROVE AckedWhole'
  <2>1. file' = file \o Chunk(w) /\ acked' = acked /\ Chunk(w) \in Seq(Pieces)
    BY <1>0, <1>2, ChunkShape DEF CloseTail
  <2>2. \A i \in acked : WholeAt(file', i)
    BY <1>0, <1>1, <2>1, ChunkGuarded
  <2> QED BY <2>1, <2>2 DEF AckedWhole
<1>3. ASSUME NEW w \in Writers, WriteLine(w) PROVE AckedWhole'
  <2>1. /\ file' = file \o Chunk(w) /\ acked' = acked \cup {Len(file') - 2}
        /\ Chunk(w) \in Buffers(holding[w]) /\ holding[w] \in Records
    BY <1>0, <1>3, ChunkShape DEF WriteLine, TypeOK
  <2>2. Chunk(w) \in Seq(Pieces)
    BY <1>0, ChunkShape
  <2>3. \A i \in acked : WholeAt(file', i)
    BY <1>0, <1>1, <2>1, <2>2, ChunkGuarded
  <2>4. WholeAt(file', Len(file') - 2)
    <3> DEFINE b == Chunk(w)
               m == Len(b)
    <3>1. /\ m \in {3, 4} /\ b[m] = Newline
          /\ b[m - 1] = Closing(holding[w]) /\ b[m - 2] = Opening(holding[w])
      BY <2>1, BufferShape
    <3>2. Len(file') = Len(file) + m /\ \A k \in 1..m : file'[Len(file) + k] = b[k]
      BY <1>0, <2>1, <2>2
    <3> HIDE DEF b, m
    <3>3. m \in 1..m /\ m - 1 \in 1..m /\ m - 2 \in 1..m /\ Len(file) \in Nat
      BY <1>0, <3>1
    <3>4. /\ file'[Len(file) + m] = Newline
          /\ file'[Len(file) + (m - 1)].part = "closing"
          /\ file'[Len(file) + (m - 2)].part = "opening"
      BY <3>1, <3>2, <3>3 DEF Closing, Opening
    <3>5. /\ Len(file') - 2 = Len(file) + (m - 2)
          /\ (Len(file') - 2) + 1 = Len(file) + (m - 1)
          /\ (Len(file') - 2) + 2 = Len(file) + m
      BY <3>1, <3>2, <3>3
    <3> QED BY <3>4, <3>5 DEF WholeAt
  <2> QED BY <2>1, <2>3, <2>4 DEF AckedWhole
<1>4. ASSUME NEW w \in Writers, NEW n \in 0..Len(Chunk(w)), Interrupt(w, n) PROVE AckedWhole'
  <2>1. file' = file \o SubSeq(Chunk(w), 1, n) /\ acked' = acked
    BY <1>4 DEF Interrupt
  <2>2. \A i \in acked : WholeAt(file', i)
    BY <1>0, <1>1, <2>1, PrefixGuarded
  <2> QED BY <2>1, <2>2 DEF AckedWhole
<1>5. ASSUME NEW n \in 0..Len(file), PowerLoss(n) PROVE AckedWhole'
  <2>1. /\ file' = SubSeq(file, 1, n) /\ acked' = {i \in acked : i + 1 <= n}
    BY <1>5 DEF PowerLoss
  <2>2. Len(file') = n /\ \A k \in 1..n : file'[k] = file[k]
    BY <1>0, <2>1
  <2>3. \A i \in acked' : WholeAt(file', i)
    <3> TAKE i \in acked'
    <3>1. /\ i \in 1..n /\ i + 1 \in 1..n /\ WholeAt(file, i)
          /\ i + 2 \in 1..n => i + 2 \in 1..Len(file)
      BY <1>0, <2>1 DEF AckedWhole
    <3> QED BY <2>2, <3>1 DEF WholeAt
  <2> QED BY <2>3 DEF AckedWhole
<1>6. CASE UNCHANGED <<file, acked>>
  BY <1>6 DEF AckedWhole
<1>7. \/ UNCHANGED <<file, acked>>
      \/ \E w \in Writers : CloseTail(w) \/ WriteLine(w)
      \/ \E w \in Writers : \E n \in 0..Len(Chunk(w)) : Interrupt(w, n)
      \/ \E n \in 0..Len(file) : PowerLoss(n)
  BY DEF Next, vars, Open, CheckTail, ReadAll
<1> QED BY <1>2, <1>3, <1>4, <1>5, <1>6, <1>7

(* The line at i begins at s. *)
BeginsAt(f, i, s) == s \in 1..i /\ StartsLine(f, s) /\ \A k \in s..i : f[k] # Newline

LEMMA LineBegins ==
    ASSUME NEW f \in Seq(Pieces), NEW i \in 1..Len(f), f[i] # Newline
    PROVE  \E s : BeginsAt(f, i, s)
<1> DEFINE S == {s \in 1..i : \A k \in s..i : f[k] # Newline}
<1>1. S \in SUBSET Nat /\ i \in S
  OBVIOUS
<1>2. PICK s \in S : \A t \in S : s <= t
  BY <1>1, LeastElement
<1>3. CASE s = 1
  BY <1>2, <1>3 DEF BeginsAt, StartsLine
<1>4. CASE s # 1
  <2>1. s - 1 \in 1..i /\ s - 1 \notin S
    BY <1>2, <1>4
  <2>2. PICK k \in (s - 1)..i : f[k] = Newline
    BY <2>1
  <2>3. k = s - 1
    BY <1>2, <2>1, <2>2
  <2>4. s \in 1..i /\ \A l \in s..i : f[l] # Newline
    BY <1>2
  <2>5. s \in s..i /\ f[s - 1] = Newline
    BY <2>2, <2>3, <2>4
  <2> QED BY <2>4, <2>5 DEF BeginsAt, StartsLine
<1> QED BY <1>3, <1>4

(* A lost record is on a damaged line, and no other is on that line. *)
LEMMA LostOnDamaged ==
    ASSUME TypeOK, AckedWhole
    PROVE  /\ \A i \in LostAcks : \E s \in Damaged(file) : BeginsAt(file, i, s)
           /\ \A s : \A i, j \in LostAcks : BeginsAt(file, i, s) /\ BeginsAt(file, j, s) => i = j
<1>0. /\ file \in Seq(Pieces) /\ Len(file) \in Nat /\ DOMAIN file = 1..Len(file)
      /\ \A i \in LostAcks : /\ i \in 1..Len(file) /\ i + 1 \in 1..Len(file) /\ i \in Nat
                             /\ WholeAt(file, i) /\ i \notin Readable(file)
                             /\ file[i] # Newline
  BY DEF TypeOK, LostAcks, AckedWhole, WholeAt, Newline
<1>1. ASSUME NEW i \in LostAcks PROVE \E s \in Damaged(file) : BeginsAt(file, i, s)
  <2>1. PICK s : BeginsAt(file, i, s)
    BY <1>0, LineBegins
  <2>2. s \in 1..i /\ s \in 1..Len(file) /\ StartsLine(file, s)
    BY <1>0, <2>1 DEF BeginsAt
  <2>3. s \notin Readable(file)
    <3> SUFFICES ASSUME ReadableAt(file, s) PROVE FALSE
      BY DEF Readable
    <3>1. s # i
      BY <1>0, <2>2 DEF Readable
    <3>2. s + 1 # i
      BY <1>0, <2>2 DEF ReadableAt, WholeAt, Closing
    <3>3. s + 2 \in s..i /\ s + 2 \in DOMAIN file
      BY <1>0, <2>2, <3>1, <3>2
    <3>4. file[s + 2] = Newline /\ file[s + 2] # Newline
      BY <2>1, <3>3 DEF ReadableAt, BeginsAt
    <3> QED BY <3>4
  <2> QED BY <1>0, <2>1, <2>2, <2>3 DEF Damaged
<1>2. ASSUME NEW i \in LostAcks, NEW j \in LostAcks, NEW s,
             BeginsAt(file, i, s), BeginsAt(file, j, s), i < j
      PROVE  FALSE
  <2>1. j # i + 1
    BY <1>0 DEF WholeAt
  <2>2. i + 2 \in s..j /\ i + 2 \in 1..Len(file)
    BY <1>0, <1>2, <2>1 DEF BeginsAt
  <2>3. file[i + 2] = Newline /\ file[i + 2] # Newline
    BY <1>0, <1>2, <2>2 DEF WholeAt, BeginsAt
  <2> QED BY <2>3
<1>3. \A i, j \in LostAcks : i = j \/ i < j \/ j < i
  BY <1>0
<1> QED BY <1>1, <1>2, <1>3

LEMMA LossCounted ==
    ASSUME TypeOK, AckedWhole
    PROVE  Cardinality(Damaged(file)) >= Cardinality(LostAcks)
<1> DEFINE line == [i \in LostAcks |-> CHOOSE s \in Damaged(file) : BeginsAt(file, i, s)]
<1>1. \A i \in LostAcks : line[i] \in Damaged(file) /\ BeginsAt(file, i, line[i])
  BY LostOnDamaged
<1> HIDE DEF line
<1>2. \A i, j \in LostAcks : line[i] = line[j] => i = j
  BY <1>1, LostOnDamaged
<1>3. line \in [LostAcks -> Damaged(file)]
  BY <1>1 DEF line
<1>4. line \in Injection(LostAcks, Damaged(file))
  BY <1>2, <1>3 DEF Injection, IsInjective
<1>5. IsFiniteSet(Damaged(file))
  <2>1. Damaged(file) \subseteq 1..Len(file) /\ Len(file) \in Nat
    BY DEF TypeOK, Damaged
  <2>2. IsFiniteSet(1..Len(file))
    BY <2>1, FS_Interval
  <2> QED BY <2>1, <2>2, FS_Subset
<1>6. Cardinality(LostAcks) <= Cardinality(Damaged(file))
  BY <1>4, <1>5, FS_Injection
<1>7. Cardinality(LostAcks) \in Nat /\ Cardinality(Damaged(file)) \in Nat
  BY <1>5, LostFinite, FS_CardinalityType
<1> QED BY <1>6, <1>7

(* A step that is neither a read nor a restart leaves the report alone. *)
LEMMA ReportStep ==
    ASSUME TypeOK, AckedWhole, LossReported, [Next]_vars
    PROVE  LossReported'
<1>1. ASSUME ReadAll PROVE LossReported'
  BY <1>1, LossCounted DEF ReadAll, LossReported
<1>2. ASSUME NEW n, PowerLoss(n) PROVE LossReported'
  BY <1>2 DEF PowerLoss, LossReported
<1>3. CASE UNCHANGED <<damagedLines, missing>>
  BY <1>3 DEF LossReported
<1>4. ReadAll \/ (\E n : PowerLoss(n)) \/ UNCHANGED <<damagedLines, missing>>
  BY DEF Next, vars, Open, CheckTail, CloseTail, WriteLine, Interrupt
<1> QED BY <1>1, <1>2, <1>3, <1>4

(* What the last all() reported as damaged is at least what it could not      *)
(* return of what was acknowledged: LossCounted holds of the file it read.    *)
THEOREM LossesReported == Spec => []LossReported
<1>1. Init => AckedWhole /\ LossReported
  BY DEF Init, AckedWhole, LossReported
<1>2. BlastInv /\ AckedWhole /\ LossReported /\ [Next]_vars => LossReported'
  BY ReportStep DEF BlastInv, SafeInv
<1> QED BY <1>1, <1>2, BlastInvariant, WholeStep, PTL DEF Spec

(* The two ways the sink is used on which its contract holds: writers take *)
(* turns, or no write is ever cut short.                                   *)
Disciplined == MaxOpen = 1 \/ MaxTears = 0
Unraced == races = 0 /\ (MaxOpen = 1 => \A v, w \in InFlight : v = w)

(* A writer that has the sink to itself keeps it to itself. *)
LEMMA AloneStep ==
    TypeOK /\ MaxOpen = 1 /\ (\A v, w \in InFlight : v = w) /\ [Next]_vars
        => \A v, w \in InFlight' : v = w
<1> SUFFICES ASSUME TypeOK, \A v, w \in InFlight : v = w, [Next]_vars, MaxOpen = 1
             PROVE  \A v, u \in InFlight' : v = u
  OBVIOUS
<1>1. ASSUME NEW w \in Writers, NEW r \in Records, Open(w, r)
      PROVE  \A v, u \in InFlight' : v = u
  <2>1. IsFiniteSet(InFlight)
    BY WritersAssumption, FS_Subset DEF InFlight
  <2>2. Cardinality(InFlight) = 0
    BY <1>1, <2>1, FS_CardinalityType DEF Open
  <2>3. InFlight = {}
    BY <2>1, <2>2, FS_EmptySet
  <2>4. InFlight' \subseteq {w}
    BY <1>1, <2>3 DEF Open, InFlight, TypeOK
  <2> QED BY <2>4
<1>2. ASSUME InFlight' \subseteq InFlight
      PROVE  \A v, u \in InFlight' : v = u
  BY <1>2
<1>3. ASSUME NEW w \in Writers, CheckTail(w) PROVE InFlight' \subseteq InFlight
  BY <1>3 DEF CheckTail, InFlight, TypeOK
<1>4. ASSUME NEW w \in Writers, Leave(w) PROVE InFlight' \subseteq InFlight
  BY <1>4 DEF Leave, InFlight, TypeOK
<1>5. ASSUME NEW n \in 0..Len(file), PowerLoss(n) PROVE InFlight' \subseteq InFlight
  BY <1>5 DEF PowerLoss, InFlight
<1>6. ASSUME UNCHANGED stage PROVE InFlight' \subseteq InFlight
  BY <1>6 DEF InFlight
<1>7. \/ \E w \in Writers, r \in Records : Open(w, r)
      \/ \E w \in Writers : CheckTail(w) \/ Leave(w)
      \/ \E n \in 0..Len(file) : PowerLoss(n)
      \/ UNCHANGED stage
  BY DEF Next, CloseTail, WriteLine, Interrupt, ReadAll, vars
<1> QED BY <1>1, <1>2, <1>3, <1>4, <1>5, <1>6, <1>7

(* Disciplined writers never race. *)
LEMMA UnracedInvariant == ASSUME Disciplined PROVE Spec => []Unraced
<1>1. Init => Unraced
  BY DEF Init, Unraced, InFlight
<1>2. TypeOK /\ Unraced /\ [Next]_vars => Unraced'
  <2> SUFFICES ASSUME TypeOK, Unraced, [Next]_vars PROVE races' = 0
    BY AloneStep DEF Unraced
  <2>1. ASSUME NEW w \in Writers, NEW n \in 0..Len(Chunk(w)), Interrupt(w, n)
        PROVE  races' = 0
    <3>1. CASE n > 0 /\ Chunk(w)[n] # Newline /\ Relying \ {w} # {}
      <4>1. w \in InFlight /\ Relying \subseteq InFlight
        BY <2>1 DEF Interrupt, InFlight, Relying
      <4>2. MaxOpen # 1
        BY <3>1, <4>1 DEF Unraced
      <4>3. tears' = tears + 1 /\ tears' <= MaxTears /\ tears \in Nat
        BY <2>1, <3>1, BoundsAssumption DEF Interrupt, TypeOK
      <4> QED BY <4>2, <4>3, BoundsAssumption DEF Disciplined
    <3>2. CASE ~(n > 0 /\ Chunk(w)[n] # Newline /\ Relying \ {w} # {})
      BY <2>1, <3>2 DEF Interrupt, Unraced
    <3> QED BY <3>1, <3>2
  <2>2. \/ UNCHANGED races
        \/ \E w \in Writers : \E n \in 0..Len(Chunk(w)) : Interrupt(w, n)
    BY DEF Next, vars, Open, CheckTail, CloseTail, WriteLine, PowerLoss, ReadAll
  <2> QED BY <2>1, <2>2 DEF Unraced
<1> QED BY <1>1, <1>2, TypeCorrect, PTL DEF Spec

(* When writers take turns, or none is cut short, a record whose append     *)
(* returned can be read back for as long as its bytes survive.              *)
THEOREM AckedStaysReadable ==
    ASSUME Disciplined PROVE Spec => []AckedReadable
<1>1. BlastInv /\ Unraced => AckedReadable
  BY GuardedUnraced DEF Unraced, LostAcks, AckedReadable, Readable
<1> QED BY <1>1, BlastInvariant, UnracedInvariant, PTL

-----------------------------------------------------------------------------
(* What readers see.                                                       *)

LEMMA PieceRecords ==
    ASSUME NEW f \in Seq(Pieces), NEW i \in 1..Len(f)
    PROVE  f[i] \in Pieces /\ f[i].record \in Records \cup {NoRecord}
<1>1. f[i] \in Pieces
  OBVIOUS
<1>2. QED
  BY <1>1 DEF Pieces

(* ReadTo is what its definition says: the recursion ends. *)
LEMMA ReadUnfolds ==
    ASSUME NEW f \in Seq(Pieces)
    PROVE  /\ ReadTo(f)[0] = <<>>
           /\ \A n \in 1..Len(f) :
                ReadTo(f)[n] = IF ReadableAt(f, n) THEN Append(ReadTo(f)[n - 1], f[n].record)
                               ELSE ReadTo(f)[n - 1]
           /\ \A n \in 0..Len(f) : ReadTo(f)[n] \in Seq(Records \cup {NoRecord})
<1> DEFINE N == Len(f)
           V == Seq(Records \cup {NoRecord})
           up == [n \in 1..N |-> n - 1]
           h == [n \in 1..N |-> [s \in V |-> IF ReadableAt(f, n) THEN Append(s, f[n].record)
                                             ELSE s]]
           Equation(read) == read = [n \in 0..N |->
                                       IF n = 0 THEN <<>>
                                       ELSE IF ReadableAt(f, n)
                                            THEN Append(read[n - 1], f[n].record)
                                            ELSE read[n - 1]]
<1>1. N \in Nat /\ \A n \in 1..N : f[n].record \in Records \cup {NoRecord}
  BY PieceRecords
<1>2. <<>> \in V
  OBVIOUS
<1>3. Recursion(N, V, up, h)
  <2>1. up \in [1..N -> Nat] /\ \A n \in 1..N : up[n] < n
    BY <1>1
  <2>2. ASSUME NEW n \in 1..N, NEW s \in V PROVE Append(s, f[n].record) \in V
    BY <1>1
  <2>3. h \in [1..N -> [V -> V]]
    <3> HIDE DEF V
    <3>1. QED
      BY <2>2
  <2> HIDE DEF N, V, up, h
  <2>4. QED
    BY <2>1, <2>3 DEF Recursion
<1> HIDE DEF up, h, N, V
<1>4. \E r : Recursive(r, N, V, <<>>, up, h)
  BY <1>1, <1>2, <1>3, RecursionBelow
<1>5. PICK r \in [0..N -> V] : r[0] = <<>> /\ \A n \in 1..N : r[n] = h[n][r[up[n]]]
  BY <1>4 DEF Recursive
<1>6. \A n \in 1..N : r[n] = IF ReadableAt(f, n) THEN Append(r[n - 1], f[n].record) ELSE r[n - 1]
  <2> TAKE n \in 1..N
  <2>1. up[n] = n - 1 /\ n - 1 \in 0..N
    BY <1>1 DEF up
  <2>2. r[n - 1] \in V
    BY <2>1
  <2>3. h[n][r[n - 1]] = IF ReadableAt(f, n) THEN Append(r[n - 1], f[n].record) ELSE r[n - 1]
    BY <2>2 DEF h
  <2>4. QED
    BY <1>5, <2>1, <2>3
<1>7. Equation(r)
  <2>1. \A n \in 0..N : r[n] = IF n = 0 THEN <<>>
                               ELSE IF ReadableAt(f, n) THEN Append(r[n - 1], f[n].record)
                                    ELSE r[n - 1]
    <3> TAKE n \in 0..N
    <3>1. n = 0 \/ n \in 1..N
      BY <1>1
    <3>2. n \in 1..N => n # 0
      BY <1>1
    <3>3. QED
      BY <1>5, <1>6, <3>1, <3>2
  <2>2. QED
    BY <2>1
<1>8. ReadTo(f) = CHOOSE read : Equation(read)
  BY DEF ReadTo, N
<1>9. Equation(ReadTo(f))
  <2> HIDE DEF Equation
  <2>1. QED
    BY <1>7, <1>8
<1> DEFINE read == ReadTo(f)
<1>10. /\ read[0] = <<>>
       /\ \A n \in 1..N : read[n] = IF ReadableAt(f, n) THEN Append(read[n - 1], f[n].record)
                                    ELSE read[n - 1]
  <2> HIDE DEF read
  <2>1. read = [n \in 0..N |-> IF n = 0 THEN <<>>
                               ELSE IF ReadableAt(f, n) THEN Append(read[n - 1], f[n].record)
                                    ELSE read[n - 1]]
    BY <1>9 DEF read
  <2>2. 0 \in 0..N /\ \A n \in 1..N : n \in 0..N /\ n # 0
    BY <1>1
  <2>3. QED
    BY <2>1, <2>2
<1>11. \A n \in 0..N : read[n] \in V
  <2> DEFINE Odd == {n \in 0..N : read[n] \notin V}
  <2>1. SUFFICES ASSUME Odd # {} PROVE FALSE
    OBVIOUS
  <2>2. Odd \in SUBSET Nat
    BY <1>1
  <2> HIDE DEF Odd
  <2>3. PICK m \in Odd : \A k \in Odd : m <= k
    BY <2>1, <2>2, LeastElement
  <2>4. m \in 0..N /\ read[m] \notin V
    BY DEF Odd
  <2> HIDE DEF read
  <2>5. m \in 1..N /\ m - 1 \in 0..N
    BY <1>1, <1>2, <1>10, <2>4
  <2>6. m - 1 \notin Odd
    BY <2>3, <2>5
  <2>7. read[m - 1] \in V
    BY <2>5, <2>6 DEF Odd
  <2>8. Append(read[m - 1], f[m].record) \in V
    BY <1>1, <2>5, <2>7 DEF V
  <2>9. QED
    BY <1>10, <2>4, <2>5, <2>7, <2>8
<1>12. QED
  BY <1>10, <1>11 DEF N, V

(* Files that read alike up to n have the same records up to n. *)
LEMMA ReadAlike ==
    ASSUME NEW f \in Seq(Pieces), NEW g \in Seq(Pieces), NEW n \in Nat,
           n <= Len(f), n <= Len(g),
           \A i \in 1..n : /\ ReadableAt(f, i) <=> ReadableAt(g, i)
                           /\ f[i].record = g[i].record
    PROVE  ReadTo(f)[n] = ReadTo(g)[n]
<1> DEFINE Differ == {k \in 0..n : ReadTo(f)[k] # ReadTo(g)[k]}
<1>1. SUFFICES ASSUME Differ # {} PROVE FALSE
  OBVIOUS
<1>2. Differ \in SUBSET Nat
  OBVIOUS
<1> HIDE DEF Differ
<1>3. PICK m \in Differ : \A k \in Differ : m <= k
  BY <1>1, <1>2, LeastElement
<1>4. m \in 0..n /\ ReadTo(f)[m] # ReadTo(g)[m]
  BY DEF Differ
<1>5. m # 0
  BY <1>4, ReadUnfolds
<1>6. m \in 1..n /\ m \in 1..Len(f) /\ m \in 1..Len(g) /\ m - 1 \in 0..n
  BY <1>4, <1>5
<1>7. m - 1 \notin Differ
  BY <1>3, <1>6
<1>8. ReadTo(f)[m - 1] = ReadTo(g)[m - 1]
  BY <1>6, <1>7 DEF Differ
<1>9. QED
  BY <1>4, <1>6, <1>8, ReadUnfolds

(* Where no line can be read, no record is. *)
LEMMA ReadNothing ==
    ASSUME NEW f \in Seq(Pieces), NEW m \in Nat, NEW n \in Nat, m <= n, n <= Len(f),
           \A i \in (m + 1)..n : ~ReadableAt(f, i)
    PROVE  ReadTo(f)[n] = ReadTo(f)[m]
<1> DEFINE Differ == {k \in m..n : ReadTo(f)[k] # ReadTo(f)[m]}
<1>1. SUFFICES ASSUME Differ # {} PROVE FALSE
  BY DEF Differ
<1>2. Differ \in SUBSET Nat
  OBVIOUS
<1> HIDE DEF Differ
<1>3. PICK k \in Differ : \A j \in Differ : k <= j
  BY <1>1, <1>2, LeastElement
<1>4. k \in m..n /\ ReadTo(f)[k] # ReadTo(f)[m]
  BY DEF Differ
<1>5. k # m
  BY <1>4
<1>6. k \in (m + 1)..n /\ k \in 1..Len(f) /\ k - 1 \in m..n
  BY <1>4, <1>5
<1>7. k - 1 \notin Differ
  BY <1>3, <1>6
<1>8. ReadTo(f)[k - 1] = ReadTo(f)[m]
  BY <1>6, <1>7 DEF Differ
<1>9. QED
  BY <1>4, <1>6, <1>8, ReadUnfolds

(* The records read up to m are the first of those read up to n. *)
IsPrefixOf(s, t) == Len(s) \in 0..Len(t) /\ s = SubSeq(t, 1, Len(s))

LEMMA PrefixAppended ==
    ASSUME NEW S, NEW s \in Seq(S), NEW t \in Seq(S), NEW e \in S, IsPrefixOf(s, t)
    PROVE  IsPrefixOf(s, Append(t, e))
<1> DEFINE l == Len(s)
           u == Append(t, e)
<1>1. l \in 0..Len(t) /\ s = SubSeq(t, 1, l) /\ Len(t) \in Nat
  BY DEF IsPrefixOf
<1>2. u \in Seq(S) /\ Len(u) = Len(t) + 1 /\ \A i \in 1..Len(t) : u[i] = t[i]
  OBVIOUS
<1> HIDE DEF u
<1>3. l \in 0..Len(u)
  BY <1>1, <1>2
<1>4. SubSeq(u, 1, l) = SubSeq(t, 1, l)
  <2>1. \A i \in 1..l : u[i] = t[i]
    BY <1>1, <1>2
  <2> HIDE DEF l
  <2>2. QED
    BY <1>1, <1>2, <1>3, <2>1
<1>5. QED
  BY <1>1, <1>3, <1>4 DEF IsPrefixOf, u

LEMMA ReadGrows ==
    ASSUME NEW f \in Seq(Pieces), NEW m \in Nat, NEW n \in Nat, m <= n, n <= Len(f)
    PROVE  IsPrefixOf(ReadTo(f)[m], ReadTo(f)[n])
<1> DEFINE R == Records \cup {NoRecord}
           read == ReadTo(f)
           Off == {k \in m..n : ~IsPrefixOf(read[m], read[k])}
<1>1. SUFFICES ASSUME Off # {} PROVE FALSE
  OBVIOUS
<1>2. Off \in SUBSET Nat
  OBVIOUS
<1>3. \A k \in 0..Len(f) : read[k] \in Seq(R)
  BY ReadUnfolds
<1> HIDE DEF Off, R, read
<1>4. PICK k \in Off : \A j \in Off : k <= j
  BY <1>1, <1>2, LeastElement
<1>5. k \in m..n /\ ~IsPrefixOf(read[m], read[k])
  BY DEF Off
<1>6. read[m] \in Seq(R)
  BY <1>3
<1>7. k # m
  <2>1. IsPrefixOf(read[m], read[m])
    BY <1>6 DEF IsPrefixOf
  <2>2. QED
    BY <1>5, <2>1
<1>8. k \in 1..Len(f) /\ k - 1 \in m..n /\ k - 1 \in 0..Len(f)
  BY <1>5, <1>7
<1>9. k - 1 \notin Off
  BY <1>4, <1>8
<1>10. IsPrefixOf(read[m], read[k - 1])
  BY <1>8, <1>9 DEF Off
<1>11. f[k].record \in R
  BY <1>8, PieceRecords DEF R
<1>12. IsPrefixOf(read[m], Append(read[k - 1], f[k].record))
  BY <1>3, <1>6, <1>8, <1>10, <1>11, PrefixAppended
<1>13. read[k] = IF ReadableAt(f, k) THEN Append(read[k - 1], f[k].record) ELSE read[k - 1]
  BY <1>8, ReadUnfolds DEF read
<1>14. QED
  BY <1>5, <1>10, <1>12, <1>13

-----------------------------------------------------------------------------
(* What a step puts behind the file.                                       *)

\* The pieces s are the first of a newline (if d is 1) and the line of r.
Writes(s, d, r) ==
    /\ s \in Seq(Pieces) /\ d \in {0, 1} /\ Len(s) <= d + 3
    /\ \A k \in 1..Len(s) : s[k] = IF k = d + 1 THEN Opening(r)
                                   ELSE IF k = d + 2 THEN Closing(r) ELSE Newline

LEMMA BufferWrites ==
    ASSUME NEW r \in Records, NEW b \in Buffers(r), NEW n \in 0..Len(b)
    PROVE  \E d : Writes(SubSeq(b, 1, n), d, r)
<1>1. b \in Seq(Pieces) /\ n \in Nat
  BY BufferShape
<1> DEFINE s == SubSeq(b, 1, n)
<1>2. s \in Seq(Pieces) /\ Len(s) = n /\ \A k \in 1..n : s[k] = b[k]
  BY <1>1
<1> HIDE DEF s
<1>3. CASE Len(b) = 3
  <2>1. b[1] = Opening(r) /\ b[2] = Closing(r) /\ b[3] = Newline
    <3>1. Len(b) - 1 = 2 /\ Len(b) - 2 = 1
      BY <1>3
    <3>2. QED
      BY <1>3, <3>1, BufferShape
  <2>2. Writes(s, 0, r)
    BY <1>1, <1>2, <1>3, <2>1 DEF Writes
  <2>3. QED
    BY <2>2 DEF s
<1>4. CASE Len(b) = 4
  <2>1. b[1] = Newline /\ b[2] = Opening(r) /\ b[3] = Closing(r) /\ b[4] = Newline
    <3>1. Len(b) # 3 /\ Len(b) - 1 = 3 /\ Len(b) - 2 = 2
      BY <1>4
    <3>2. b[1] = Newline
      BY <3>1, BufferShape
    <3>3. QED
      BY <1>4, <3>1, <3>2, BufferShape
  <2>2. Writes(s, 1, r)
    BY <1>1, <1>2, <1>4, <2>1 DEF Writes
  <2>3. QED
    BY <2>2 DEF s
<1>5. QED
  BY <1>3, <1>4, BufferShape

LEMMA ChunkWrites ==
    ASSUME TypeOK, NEW w \in Writers, NEW n \in 0..Len(Chunk(w)), stage[w] = "checked"
    PROVE  \E r \in Records : \E d : Writes(SubSeq(Chunk(w), 1, n), d, r)
<1>1. Chunk(w) \in Seq(Pieces) /\ holding[w] \in Records
  BY ChunkShape DEF TypeOK
<1>2. CASE FlushedApart(w)
  <2>1. Chunk(w) = <<Newline>>
    BY <1>2, ChunkShape
  <2>2. Writes(SubSeq(Chunk(w), 1, n), 1, holding[w])
    BY <1>1, <2>1 DEF Writes
  <2>3. QED
    BY <1>1, <2>2
<1>3. CASE ~FlushedApart(w)
  <2>1. Chunk(w) \in Buffers(holding[w])
    BY <1>3, ChunkShape
  <2>2. \E d : Writes(SubSeq(Chunk(w), 1, n), d, holding[w])
    BY <1>1, <2>1, BufferWrites
  <2>3. QED
    BY <1>1, <2>2
<1>4. QED
  BY <1>2, <1>3

\* In what it puts there, one line can be read at most.
LEMMA WrittenRead ==
    ASSUME NEW f \in Seq(Pieces), NEW s, NEW d, NEW r \in Records, Writes(s, d, r)
    PROVE  LET g == f \o s IN
           /\ g \in Seq(Pieces) /\ Len(f) \in Nat /\ Len(g) \in Nat /\ Len(f) <= Len(g)
           /\ \A i \in Len(f)..Len(g) :
                ReadableAt(g, i) =>
                  i = Len(f) + d + 1 /\ i > Len(f) /\ g[i].record = r
<1> DEFINE g == f \o s
           L == Len(f)
<1>1. s \in Seq(Pieces) /\ Len(s) \in Nat /\ d \in {0, 1} /\ L \in Nat
  BY DEF Writes
<1>2. g \in Seq(Pieces) /\ Len(g) = L + Len(s) /\ \A k \in 1..Len(s) : g[L + k] = s[k]
  BY <1>1
<1> HIDE DEF g, L
<1>3. ASSUME NEW i \in L..Len(g), ReadableAt(g, i)
      PROVE  i = L + d + 1 /\ i > L /\ g[i].record = r
  <2>1. i + 1 \in 1..Len(g) /\ g[i].part = "opening" /\ g[i + 1].part = "closing"
    BY <1>2, <1>3 DEF ReadableAt, Opening, Closing
  <2>2. PICK k \in 0..Len(s) : i = L + k
    BY <1>1, <1>2
  <2>3. k + 1 \in 1..Len(s) /\ g[i + 1] = s[k + 1]
    BY <1>1, <1>2, <2>1, <2>2
  <2>4. k + 1 = d + 2
    BY <1>1, <2>1, <2>3 DEF Writes, Opening, Newline
  <2>5. k \in 1..Len(s) /\ g[i] = s[k]
    BY <1>1, <1>2, <2>2, <2>3, <2>4
  <2>6. s[k] = Opening(r)
    BY <1>1, <2>4, <2>5 DEF Writes
  <2>7. QED
    BY <1>1, <2>2, <2>4, <2>5, <2>6 DEF Opening
<1>4. QED
  BY <1>1, <1>2, <1>3 DEF g, L

\* Behind a tail that is in order, or after a newline, what is written is read
\* behind what was read.
LEMMA ReadExtended ==
    ASSUME NEW f \in Seq(Pieces), NEW s, NEW d, NEW r \in Records, Writes(s, d, r),
           s = <<>> \/ s[1] = Newline \/ Terminated(f)
    PROVE  LET g == f \o s IN
           \/ ReadTo(g)[Len(g)] = ReadTo(f)[Len(f)]
           \/ ReadTo(g)[Len(g)] = Append(ReadTo(f)[Len(f)], r)
<1> DEFINE g == f \o s
           L == Len(f)
<1>0. s \in Seq(Pieces) /\ d \in {0, 1}
  BY DEF Writes
<1>1. /\ g \in Seq(Pieces) /\ L \in Nat /\ Len(g) \in Nat /\ L <= Len(g)
      /\ \A i \in L..Len(g) : ReadableAt(g, i) =>
                                  i = L + d + 1 /\ i > L /\ g[i].record = r
  BY WrittenRead
<1>2. \A i \in 1..L : g[i] = f[i]
  BY <1>0
<1>3. ASSUME NEW i \in 1..L PROVE ReadableAt(f, i) <=> ReadableAt(g, i)
  <2>1. ReadableAt(f, i) => ReadableAt(g, i)
    BY <1>0, AppendKeeps
  <2>2. ReadableAt(g, i) => i + 1 \in 1..L
    <3>1. CASE i = L
      BY <1>1, <3>1
    <3>2. CASE i # L
      BY <1>1, <3>2
    <3>3. QED
      BY <3>1, <3>2
  <2>3. ReadableAt(g, i) => ReadableAt(f, i)
    BY <1>0, <2>2, ReadBefore
  <2>4. QED
    BY <2>1, <2>3
<1> HIDE DEF g, L
<1>4. ReadTo(g)[L] = ReadTo(f)[L]
  BY <1>1, <1>2, <1>3, ReadAlike DEF L
<1> DEFINE m == L + d + 1
<1>5. CASE m \in 1..Len(g) /\ ReadableAt(g, m)
  <2>1. m - 1 \in Nat /\ L <= m - 1 /\ m - 1 <= Len(g) /\ m \in Nat /\ m <= Len(g) /\ m \in L..Len(g)
    BY <1>0, <1>1, <1>5
  <2>2. \A i \in (L + 1)..(m - 1) : ~ReadableAt(g, i)
    BY <1>1, <2>1
  <2>3. \A i \in (m + 1)..Len(g) : ~ReadableAt(g, i)
    BY <1>1, <2>1
  <2> HIDE DEF m
  <2>4. ReadTo(g)[m - 1] = ReadTo(g)[L]
    BY <1>1, <2>1, <2>2, ReadNothing
  <2>5. ReadTo(g)[Len(g)] = ReadTo(g)[m]
    <3>1. Len(g) <= Len(g)
      BY <1>1
    <3>2. QED
      BY <1>1, <2>1, <2>3, <3>1, ReadNothing
  <2>6. g[m].record = r
    BY <1>1, <1>5, <2>1
  <2>7. ReadTo(g)[m] = Append(ReadTo(g)[m - 1], r)
    BY <1>1, <1>5, <2>6, ReadUnfolds
  <2>8. QED
    BY <1>4, <2>4, <2>5, <2>7 DEF g, L
<1>6. CASE ~(m \in 1..Len(g) /\ ReadableAt(g, m))
  <2>1. \A i \in (L + 1)..Len(g) : ~ReadableAt(g, i)
    BY <1>0, <1>1, <1>6
  <2>2. ReadTo(g)[Len(g)] = ReadTo(g)[L]
    BY <1>1, <2>1, ReadNothing
  <2>3. QED
    BY <1>4, <2>2 DEF g, L
<1>7. QED
  BY <1>5, <1>6

\* A line that is put behind a torn one cannot be read, and takes the line it is
\* put behind with it, if that one could be read.
LEMMA ReadGlued ==
    ASSUME NEW f \in Seq(Pieces), NEW s, NEW d, NEW r \in Records, Writes(s, d, r),
           s # <<>>, s[1] # Newline, ~Terminated(f)
    PROVE  LET g == f \o s
               log == ReadTo(f)[Len(f)]
           IN  \/ ReadTo(g)[Len(g)] = log
               \/ log # <<>> /\ ReadTo(g)[Len(g)] = SubSeq(log, 1, Len(log) - 1)
<1> DEFINE g == f \o s
           L == Len(f)
<1>0. s \in Seq(Pieces) /\ Len(s) \in Nat \ {0} /\ d = 0 /\ s[1] = Opening(r)
  <2>1. s \in Seq(Pieces) /\ Len(s) \in Nat \ {0} /\ 1 \in 1..Len(s)
    BY DEF Writes
  <2>2. QED
    BY <2>1 DEF Writes
<1>1. /\ g \in Seq(Pieces) /\ L \in Nat /\ Len(g) \in Nat /\ L <= Len(g)
      /\ \A i \in L..Len(g) : ReadableAt(g, i) => i = L + 1
  BY <1>0, WrittenRead
<1>2. /\ \A i \in 1..L : g[i] = f[i]
      /\ g[L + 1] = Opening(r) /\ L + 1 \in 1..Len(g) /\ DOMAIN g = 1..Len(g)
  BY <1>0
<1>3. L # 0 /\ f[L] # Newline
  BY DEF Terminated
<1> HIDE DEF g, L
<1>4. \A i \in L..Len(g) : ~ReadableAt(g, i)
  <2>1. ~ReadableAt(g, L + 1)
    BY <1>1, <1>2, <1>3 DEF ReadableAt, StartsLine
  <2>2. QED
    BY <1>1, <2>1
<1>5. ~ReadableAt(g, L - 1)
  <2> SUFFICES ASSUME ReadableAt(g, L - 1) PROVE FALSE
    OBVIOUS
  <2>1. (L - 1) + 2 \in DOMAIN g /\ (L - 1) + 2 = L + 1
    BY <1>1, <1>2
  <2>2. g[L + 1] = Newline
    BY <2>1 DEF ReadableAt
  <2>3. QED
    BY <1>2, <2>2 DEF Opening, Newline
<1>6. ~ReadableAt(f, L)
  BY <1>1 DEF ReadableAt, L
<1>7. ASSUME NEW i \in 1..(L - 2) PROVE ReadableAt(f, i) <=> ReadableAt(g, i)
  <2>1. i \in 1..L /\ i + 1 \in 1..L /\ i + 2 \in 1..L
    BY <1>1
  <2>2. ReadableAt(f, i) => ReadableAt(g, i)
    BY <1>0, <2>1, AppendKeeps DEF g, L
  <2>3. ReadableAt(g, i) => ReadableAt(f, i)
    BY <1>0, <2>1, ReadBefore DEF g, L
  <2>4. QED
    BY <2>2, <2>3
<1>8. CASE L = 1
  <2>1. ReadTo(f)[L] = <<>>
    <3>1. ReadTo(f)[1] = ReadTo(f)[0]
      BY <1>6, <1>8, ReadUnfolds DEF L
    <3>2. QED
      BY <1>8, <3>1, ReadUnfolds
  <2>2. ReadTo(g)[Len(g)] = <<>>
    <3>1. \A i \in (0 + 1)..Len(g) : ~ReadableAt(g, i)
      BY <1>4, <1>8
    <3>2. ReadTo(g)[Len(g)] = ReadTo(g)[0]
      BY <1>1, <3>1, ReadNothing
    <3>3. QED
      BY <1>1, <3>2, ReadUnfolds
  <2>3. QED
    BY <2>1, <2>2 DEF g, L
<1>9. CASE L # 1
  <2> DEFINE m == L - 2
             log == ReadTo(f)[L]
             R == Records \cup {NoRecord}
  <2>1. /\ m \in Nat /\ m <= L /\ m <= Len(g) /\ m + 1 = L - 1 /\ L \in 1..L /\ L - 1 \in 1..L
        /\ (L - 1) - 1 = m /\ m \in 0..L
    BY <1>1, <1>3, <1>9
  <2>2. \A i \in 1..m : f[i] = g[i] /\ f[i].record = g[i].record
    BY <1>2, <2>1
  <2>3. \A i \in 1..m : ReadableAt(f, i) <=> ReadableAt(g, i)
    BY <1>7
  <2>4. \A i \in (m + 1)..Len(g) : ~ReadableAt(g, i)
    BY <1>1, <1>4, <1>5, <2>1
  <2> HIDE DEF m
  <2>5. ReadTo(f)[m] = ReadTo(g)[m]
    BY <1>1, <2>1, <2>2, <2>3, ReadAlike DEF L
  <2>6. ReadTo(g)[Len(g)] = ReadTo(g)[m]
    <3>1. Len(g) <= Len(g)
      BY <1>1
    <3>2. QED
      BY <1>1, <2>1, <2>4, <3>1, ReadNothing
  <2>7. log = ReadTo(f)[L - 1]
    BY <1>6, <2>1, ReadUnfolds DEF L
  <2>8. ReadTo(f)[L - 1] = IF ReadableAt(f, L - 1)
                           THEN Append(ReadTo(f)[m], f[L - 1].record) ELSE ReadTo(f)[m]
    BY <2>1, ReadUnfolds DEF L
  <2>9. CASE ~ReadableAt(f, L - 1)
    BY <2>5, <2>6, <2>7, <2>8, <2>9 DEF g, L
  <2>10. CASE ReadableAt(f, L - 1)
    <3> DEFINE old == ReadTo(f)[m]
               e == f[L - 1].record
    <3>1. old \in Seq(R) /\ e \in R
      BY <2>1, ReadUnfolds, PieceRecords DEF L
    <3>2. log = Append(old, e)
      BY <2>7, <2>8, <2>10
    <3> HIDE DEF old, e, log, R
    <3>3. log # <<>> /\ SubSeq(log, 1, Len(log) - 1) = old
      BY <3>1, <3>2, AppendProperties
    <3>4. QED
      BY <2>5, <2>6, <3>3 DEF old, log, g, L
  <2>11. QED
    BY <2>9, <2>10
<1>10. QED
  BY <1>8, <1>9

-----------------------------------------------------------------------------
(* What is left of the file when power is lost.                            *)

\* Only a race puts something behind the text of a record.
Glued(f) == \E i \in 1..Len(f) : /\ i + 2 \in 1..Len(f)
                                 /\ f[i].part = "opening" /\ f[i + 1].part = "closing"
                                 /\ f[i + 2] # Newline

LEMMA ReadCut ==
    ASSUME NEW f \in Seq(Pieces), NEW n \in 0..Len(f)
    PROVE  LET g == SubSeq(f, 1, n)
               log == ReadTo(f)[Len(f)]
           IN  \E k \in 0..Len(log) :
                  \/ ReadTo(g)[Len(g)] = SubSeq(log, 1, k)
                  \/ /\ Glued(f)
                     /\ \E i \in 1..Len(f) :
                          /\ f[i].part = "opening"
                          /\ ReadTo(g)[Len(g)] = Append(SubSeq(log, 1, k), f[i].record)
<1> DEFINE g == SubSeq(f, 1, n)
           L == Len(f)
           log == ReadTo(f)[L]
<1>1. /\ g \in Seq(Pieces) /\ Len(g) = n /\ DOMAIN g = 1..n /\ \A i \in 1..n : g[i] = f[i]
      /\ L \in Nat /\ n \in Nat /\ n <= L /\ DOMAIN f = 1..L
  OBVIOUS
<1> HIDE DEF g, L, log
<1>2. \A m \in 0..n : IsPrefixOf(ReadTo(f)[m], log)
  <2> TAKE m \in 0..n
  <2>1. m \in Nat /\ m <= L /\ L <= L
    BY <1>1
  <2>2. QED
    BY <1>1, <2>1, ReadGrows DEF log, L
<1>3. SUFFICES \E s : /\ IsPrefixOf(s, log)
                      /\ \/ ReadTo(g)[n] = s
                         \/ /\ Glued(f)
                            /\ \E i \in 1..L : /\ f[i].part = "opening"
                                               /\ ReadTo(g)[n] = Append(s, f[i].record)
  BY <1>1 DEF IsPrefixOf, g, L, log
<1>4. \A i \in 1..n : i + 2 \in 1..n => (ReadableAt(f, i) <=> ReadableAt(g, i))
  BY <1>1 DEF ReadableAt, StartsLine
<1>5. ~ReadableAt(g, n)
  BY <1>1 DEF ReadableAt
<1>6. CASE n = 0
  <2>1. ReadTo(g)[n] = ReadTo(f)[n]
    BY <1>1, <1>6, ReadUnfolds
  <2>2. QED
    BY <1>1, <1>2, <2>1
<1>7. CASE n = 1
  <2>1. ReadTo(g)[1] = ReadTo(g)[0] /\ ReadTo(g)[0] = ReadTo(f)[0]
    <3>1. 1 \in 1..Len(g) /\ 1 - 1 = 0 /\ ~ReadableAt(g, 1)
      BY <1>1, <1>5, <1>7
    <3>2. ReadTo(g)[1] = ReadTo(g)[0]
      BY <1>1, <3>1, ReadUnfolds
    <3>3. QED
      BY <1>1, <3>2, ReadUnfolds
  <2>2. 0 \in 0..n
    BY <1>7
  <2>3. QED
    BY <1>2, <1>7, <2>1, <2>2
<1>8. CASE n > 1
  <2> DEFINE m == n - 2
  <2>1. /\ m \in Nat /\ m <= L /\ m <= n /\ m \in 0..n /\ n - 1 \in 0..n /\ n - 1 \in 1..n /\ n \in 1..n
        /\ n - 1 \in 1..L /\ (n - 1) - 1 = m /\ (n - 1) + 1 = n /\ (n - 1) + 2 = n + 1 /\ n \in 1..L
    BY <1>1, <1>8
  <2>2. \A i \in 1..m : i \in 1..n /\ i + 2 \in 1..n
    BY <1>1, <1>8
  <2> HIDE DEF m
  <2>3. \A i \in 1..m : /\ ReadableAt(f, i) <=> ReadableAt(g, i)
                        /\ f[i].record = g[i].record
    BY <1>1, <1>4, <2>2
  <2>4. ReadTo(f)[m] = ReadTo(g)[m]
    BY <1>1, <2>1, <2>3, ReadAlike DEF L
  <2>5. ReadTo(g)[n] = ReadTo(g)[n - 1]
    BY <1>1, <1>5, <2>1, ReadUnfolds
  <2>6. ReadTo(g)[n - 1] = IF ReadableAt(g, n - 1)
                           THEN Append(ReadTo(f)[m], f[n - 1].record) ELSE ReadTo(f)[m]
    <3>1. g[n - 1] = f[n - 1]
      BY <1>1, <2>1
    <3>2. QED
      BY <1>1, <2>1, <2>4, <3>1, ReadUnfolds
  <2>7. CASE ~ReadableAt(g, n - 1)
    BY <1>2, <2>1, <2>5, <2>6, <2>7
  <2>8. CASE ReadableAt(g, n - 1) /\ ReadableAt(f, n - 1)
    <3>1. ReadTo(f)[n - 1] = Append(ReadTo(f)[m], f[n - 1].record)
      BY <2>1, <2>8, ReadUnfolds DEF L
    <3>2. QED
      BY <1>2, <2>1, <2>5, <2>6, <2>8, <3>1
  <2>9. CASE ReadableAt(g, n - 1) /\ ~ReadableAt(f, n - 1)
    <3>1. /\ g[n - 1] = f[n - 1] /\ g[n] = f[n]
          /\ n - 1 # 1 => g[(n - 1) - 1] = f[(n - 1) - 1]
      <4>1. n - 1 # 1 => (n - 1) - 1 \in 1..n
        BY <1>1, <1>8
      <4>2. QED
        BY <1>1, <2>1, <4>1
    <3>2. StartsLine(f, n - 1)
      BY <2>9, <3>1 DEF ReadableAt, StartsLine
    <3>3. f[n - 1] = Opening(f[n - 1].record) /\ f[n] = Closing(f[n - 1].record)
      BY <2>1, <2>9, <3>1 DEF ReadableAt
    <3>4. n + 1 \in 1..L /\ f[n + 1] # Newline
      BY <1>1, <2>1, <2>9, <3>2, <3>3 DEF ReadableAt
    <3>5. f[n - 1].part = "opening" /\ f[n].part = "closing"
      BY <3>3 DEF Opening, Closing
    <3>6. Glued(f)
      BY <2>1, <3>4, <3>5 DEF Glued, L
    <3>7. QED
      BY <1>2, <2>1, <2>5, <2>6, <2>9, <3>5, <3>6
  <2>10. QED
    BY <2>7, <2>8, <2>9
<1>9. QED
  BY <1>1, <1>6, <1>7, <1>8

-----------------------------------------------------------------------------
(* The refinement.                                                         *)

\* Every line was opened by an append, and until writers have raced nothing is
\* glued onto one.
FileInv ==
    /\ \A i \in 1..Len(file) : file[i].part = "opening" => file[i].record \in Records
    /\ Glued(file) => races > 0

LEMMA GluedAppended ==
    ASSUME NEW f \in Seq(Pieces), NEW s, NEW d, NEW r \in Records, Writes(s, d, r),
           s = <<>> \/ s[1] = Newline \/ Terminated(f), Glued(f \o s)
    PROVE  Glued(f)
<1> DEFINE g == f \o s
           L == Len(f)
<1>1. s \in Seq(Pieces) /\ Len(s) \in Nat /\ d \in {0, 1} /\ L \in Nat
  BY DEF Writes
<1>2. /\ g \in Seq(Pieces) /\ Len(g) = L + Len(s)
      /\ \A k \in 1..L : g[k] = f[k]
      /\ \A k \in 1..Len(s) : g[L + k] = s[k]
  BY <1>1
<1> HIDE DEF g, L
<1>3. PICK i \in 1..Len(g) : /\ i + 2 \in 1..Len(g)
                             /\ g[i].part = "opening" /\ g[i + 1].part = "closing"
                             /\ g[i + 2] # Newline
  BY DEF Glued, g
<1>4. CASE i + 2 <= L
  <2>1. i \in 1..L /\ i + 1 \in 1..L /\ i + 2 \in 1..L
    BY <1>1, <1>4
  <2>2. QED
    BY <1>2, <1>3, <2>1 DEF Glued, L
<1>5. CASE i + 2 = L + 1
  <2>1. i + 1 \in 1..L /\ i + 1 = L /\ 1 \in 1..Len(s)
    BY <1>1, <1>2, <1>3, <1>5
  <2>2. f[L] # Newline
    BY <1>2, <1>3, <2>1 DEF Newline
  <2>3. g[i + 2] = s[1]
    BY <1>2, <1>5, <2>1
  <2>4. s = <<>> \/ Terminated(f)
    BY <1>3, <2>3
  <2>5. s # <<>> /\ L # 0
    BY <2>1
  <2>6. QED
    BY <2>2, <2>4, <2>5 DEF Terminated, L
<1>6. CASE i + 2 > L + 1
  <2>1. PICK k \in 0..Len(s) : i = L + k
    <3> DEFINE l == Len(s)
    <3>1. i \in 1..(L + l) /\ i + 2 > L + 1 /\ L \in Nat /\ l \in Nat
      BY <1>1, <1>2, <1>6
    <3> HIDE DEF l
    <3>2. i - L \in 0..l /\ i = L + (i - L)
      BY <3>1
    <3>3. QED
      BY <3>2 DEF l
  <2>2. k + 1 \in 1..Len(s) /\ i + 1 = L + (k + 1) /\ k + 2 \in 1..Len(s) /\ i + 2 = L + (k + 2)
    <3> DEFINE l == Len(s)
    <3>1. k \in 0..l /\ i = L + k /\ i + 2 \in 1..(L + l) /\ L \in Nat /\ l \in Nat
      BY <1>1, <1>2, <1>3, <2>1
    <3> HIDE DEF l
    <3>2. k + 1 \in 1..l /\ i + 1 = L + (k + 1) /\ k + 2 \in 1..l /\ i + 2 = L + (k + 2)
      BY <3>1
    <3>3. QED
      BY <3>2 DEF l
  <2>3. s[k + 1].part = "closing" /\ s[k + 2] # Newline
    BY <1>2, <1>3, <2>2
  <2>4. k + 1 = d + 2
    BY <1>1, <2>2, <2>3 DEF Writes, Opening, Newline
  <2>5. s[k + 2] = Newline
    BY <1>1, <2>2, <2>4 DEF Writes
  <2>6. QED
    BY <2>3, <2>5
<1>7. QED
  BY <1>1, <1>2, <1>3, <1>4, <1>5, <1>6

LEMMA OpeningsAppended ==
    ASSUME NEW f \in Seq(Pieces), NEW s, NEW d, NEW r \in Records, Writes(s, d, r),
           \A i \in 1..Len(f) : f[i].part = "opening" => f[i].record \in Records
    PROVE  LET g == f \o s IN
           \A i \in 1..Len(g) : g[i].part = "opening" => g[i].record \in Records
<1> DEFINE g == f \o s
           L == Len(f)
<1>1. s \in Seq(Pieces) /\ Len(s) \in Nat /\ d \in {0, 1} /\ L \in Nat
  BY DEF Writes
<1>2. /\ g \in Seq(Pieces) /\ Len(g) = L + Len(s)
      /\ \A k \in 1..L : g[k] = f[k]
      /\ \A k \in 1..Len(s) : g[L + k] = s[k]
  BY <1>1
<1> HIDE DEF g, L
<1>3. ASSUME NEW i \in 1..Len(g), g[i].part = "opening" PROVE g[i].record \in Records
  <2>1. CASE i \in 1..L
    BY <1>2, <1>3, <2>1 DEF L
  <2>2. CASE i \notin 1..L
    <3>1. PICK k \in 1..Len(s) : i = L + k
      <4> DEFINE n == Len(s)
      <4>1. n \in Nat /\ i \in 1..(L + n) /\ i \notin 1..L
        BY <1>1, <1>2, <2>2
      <4> HIDE DEF n
      <4>2. i - L \in 1..n /\ i = L + (i - L)
        BY <1>1, <4>1
      <4>3. QED
        BY <4>2 DEF n
    <3>2. g[i] = s[k] /\ s[k].part = "opening"
      BY <1>2, <1>3, <3>1
    <3>3. s[k] = Opening(r)
      BY <3>1, <3>2 DEF Writes, Closing, Newline
    <3>4. QED
      BY <3>2, <3>3 DEF Opening
  <2>3. QED
    BY <2>1, <2>2
<1>4. QED
  BY <1>3 DEF g

\* A step that appends pieces to the file appends a record to the log, or none,
\* or glues the last one.
LEMMA AppendImplements ==
    ASSUME BlastInv, FileInv, TypeOK, NEW w \in Writers, NEW s,
           NEW d, NEW r \in Records, Writes(s, d, r), file' = file \o s,
           \/ s = <<>> \/ s[1] = Newline \/ Terminated(file)
           \/ w \in Relying /\ ~TailGuarded,
           races' \in {races, races + 1}, losses' = losses
    PROVE  [Log!LogNext]_Log!logVars /\ FileInv'
<1>1. file \in Seq(Pieces) /\ races \in Nat /\ Cardinality(LostAcks) \in Nat
      /\ Cardinality(LostAcks) + Debt <= races
  BY BlastFacts
<1>2. races' \in Nat /\ races' >= races
  BY <1>1
<1>3. \A i \in 1..Len(file') : file'[i].part = "opening" => file'[i].record \in Records
  BY <1>1, OpeningsAppended DEF FileInv
<1>4. RecordsRead = ReadTo(file)[Len(file)] /\ RecordsRead' = ReadTo(file')[Len(file')]
  BY DEF RecordsRead
<1>5. CASE s = <<>> \/ s[1] = Newline \/ Terminated(file)
  <2>1. RecordsRead' = RecordsRead \/ RecordsRead' = Append(RecordsRead, r)
    BY <1>1, <1>4, <1>5, ReadExtended
  <2>2. Glued(file)' => Glued(file)
    BY <1>1, <1>5, GluedAppended DEF Glued
  <2>3. FileInv'
    BY <1>1, <1>2, <1>3, <2>2 DEF FileInv
  <2>4. CASE RecordsRead' = Append(RecordsRead, r)
    <3>1. Log!Extend(r)
      BY <2>4 DEF Log!Extend
    <3>2. QED
      BY <2>3, <3>1 DEF Log!LogNext
  <2>5. CASE RecordsRead' = RecordsRead
    BY <2>3, <2>5 DEF Log!LogNext, Log!Race, Log!logVars
  <2>6. QED
    BY <2>1, <2>4, <2>5
<1>6. CASE ~(s = <<>> \/ s[1] = Newline \/ Terminated(file))
  <2>1. races > 0 /\ races' > 0
    BY <1>1, <1>2, <1>6 DEF Debt
  <2>2. FileInv'
    BY <1>3, <2>1 DEF FileInv
  <2>3. \/ RecordsRead' = RecordsRead
        \/ /\ RecordsRead # <<>>
           /\ RecordsRead' = SubSeq(RecordsRead, 1, Len(RecordsRead) - 1)
    BY <1>1, <1>4, <1>6, ReadGlued
  <2>4. QED
    BY <2>1, <2>2, <2>3 DEF Log!LogNext, Log!Spoil, Log!Race, Log!logVars
<1>7. QED
  BY <1>5, <1>6

LEMMA LossImplements ==
    ASSUME TypeOK, FileInv, NEW n \in 0..Len(file), PowerLoss(n)
    PROVE  Log!Lose /\ FileInv'
<1>1. file \in Seq(Pieces) /\ file' = SubSeq(file, 1, n) /\ races' = races /\ losses' = losses + 1
  BY DEF TypeOK, PowerLoss
<1>2. Len(file') = n /\ \A i \in 1..n : i \in 1..Len(file) /\ file'[i] = file[i]
  BY <1>1
<1>3. RecordsRead = ReadTo(file)[Len(file)] /\ RecordsRead' = ReadTo(file')[Len(file')]
  BY DEF RecordsRead
<1>4. PICK k \in 0..Len(RecordsRead) :
        \/ RecordsRead' = SubSeq(RecordsRead, 1, k)
        \/ /\ Glued(file)
           /\ \E i \in 1..Len(file) :
                /\ file[i].part = "opening"
                /\ RecordsRead' = Append(SubSeq(RecordsRead, 1, k), file[i].record)
  BY <1>1, <1>3, ReadCut
<1>5. Log!Lose
  BY <1>1, <1>4 DEF Log!Lose, FileInv
<1>6. ASSUME Glued(file') PROVE Glued(file)
  <2>1. PICK i \in 1..n : /\ i + 2 \in 1..n
                          /\ file'[i].part = "opening" /\ file'[i + 1].part = "closing"
                          /\ file'[i + 2] # Newline
    BY <1>2, <1>6 DEF Glued
  <2>2. i + 1 \in 1..n
    BY <2>1
  <2>3. QED
    BY <1>2, <2>1, <2>2 DEF Glued
<1>7. QED
  BY <1>1, <1>2, <1>5, <1>6 DEF FileInv, Glued

LEMMA StepImplements ==
    BlastInv /\ FileInv /\ [Next]_vars => [Log!LogNext]_Log!logVars /\ FileInv'
<1> SUFFICES ASSUME BlastInv, FileInv, [Next]_vars
             PROVE  [Log!LogNext]_Log!logVars /\ FileInv'
  OBVIOUS
<1>1. TypeOK /\ file \in Seq(Pieces)
  BY BlastFacts
<1>2. CASE UNCHANGED <<file, losses, races>>
  BY <1>2 DEF FileInv, Glued, RecordsRead, Log!logVars
<1>3. ASSUME NEW w \in Writers, CloseTail(w) \/ WriteLine(w)
      PROVE  [Log!LogNext]_Log!logVars /\ FileInv'
  <2>1. /\ stage[w] = "checked" /\ file' = file \o Chunk(w) /\ races' = races /\ losses' = losses
        /\ Chunk(w) \in Seq(Pieces)
    BY <1>1, <1>3, ChunkShape DEF CloseTail, WriteLine
  <2>2. SubSeq(Chunk(w), 1, Len(Chunk(w))) = Chunk(w) /\ Len(Chunk(w)) \in 0..Len(Chunk(w))
    BY <2>1
  <2>3. PICK r \in Records : \E d : Writes(Chunk(w), d, r)
    BY <1>1, <2>1, <2>2, ChunkWrites
  <2>4. PICK d : Writes(Chunk(w), d, r)
    BY <2>3
  <2>5. \/ Chunk(w) = <<>> \/ Chunk(w)[1] = Newline \/ Terminated(file)
        \/ w \in Relying /\ ~TailGuarded
    BY <1>1, ChunkGuarded
  <2>6. QED
    BY <1>1, <2>1, <2>4, <2>5, AppendImplements
<1>4. ASSUME NEW w \in Writers, NEW n \in 0..Len(Chunk(w)), Interrupt(w, n)
      PROVE  [Log!LogNext]_Log!logVars /\ FileInv'
  <2> DEFINE s == SubSeq(Chunk(w), 1, n)
  <2>1. file' = file \o s /\ losses' = losses
    BY <1>4 DEF Interrupt
  <2>2. races' \in {races, races + 1}
    BY <1>4 DEF Interrupt
  <2>3. \/ s = <<>> \/ s[1] = Newline \/ Terminated(file)
        \/ w \in Relying /\ ~TailGuarded
    BY <1>1, PrefixGuarded
  <2>4. CASE stage[w] = "checked"
    <3>1. PICK r \in Records : \E d : Writes(s, d, r)
      BY <1>1, <2>4, ChunkWrites
    <3>2. PICK d : Writes(s, d, r)
      BY <3>1
    <3> HIDE DEF s
    <3>3. QED
      BY <1>1, <2>1, <2>2, <2>3, <3>2, AppendImplements
  <2>5. CASE stage[w] # "checked"
    <3>1. Chunk(w) = <<>>
      BY <1>1, <2>5, ChunkShape
    <3>2. n = 0 /\ s = <<>>
      BY <3>1
    <3>3. file' = file
      BY <1>1, <2>1, <3>2
    <3>4. races' = races
      BY <1>4, <3>2 DEF Interrupt
    <3>5. QED
      BY <1>2, <2>1, <3>3, <3>4
  <2>6. QED
    BY <2>4, <2>5
<1>5. ASSUME NEW n \in 0..Len(file), PowerLoss(n)
      PROVE  [Log!LogNext]_Log!logVars /\ FileInv'
  BY <1>1, <1>5, LossImplements DEF Log!LogNext
<1>6. \/ UNCHANGED <<file, losses, races>>
      \/ \E w \in Writers : CloseTail(w) \/ WriteLine(w)
      \/ \E w \in Writers : \E n \in 0..Len(Chunk(w)) : Interrupt(w, n)
      \/ \E n \in 0..Len(file) : PowerLoss(n)
  BY DEF Next, vars, Open, CheckTail, ReadAll
<1>7. QED
  BY <1>2, <1>3, <1>4, <1>5, <1>6

LEMMA InitImplements == Init => Log!LogInit /\ FileInv
<1> SUFFICES ASSUME Init PROVE Log!LogInit /\ FileInv
  OBVIOUS
<1>1. file = <<>> /\ file \in Seq(Pieces) /\ Len(file) = 0
  BY DEF Init
<1>2. RecordsRead = <<>>
  BY <1>1, ReadUnfolds DEF RecordsRead
<1>3. QED
  BY <1>1, <1>2 DEF Init, Log!LogInit, FileInv, Glued

\* The records all() reads behave as the log of RecordLog, for any writers,
\* records, tears and losses of power: they grow at their end, a race spoils the
\* last one at most, and a loss of power leaves a prefix (JsonlSink's promise of
\* an append-only history).
THEOREM SinkImplementsLog == Spec => ImplementsLog
<1>1. Init => Log!LogInit /\ FileInv
  BY InitImplements
<1>2. BlastInv /\ FileInv /\ [Next]_vars => [Log!LogNext]_Log!logVars /\ FileInv'
  BY StepImplements
<1>3. QED
  BY <1>1, <1>2, BlastInvariant, PTL DEF Spec, ImplementsLog, Log!LogSpec
==============================================================================
