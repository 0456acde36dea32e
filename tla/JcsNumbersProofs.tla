--------------------------- MODULE JcsNumbersProofs ---------------------------
(***************************************************************************)
(* The numbers in a signed record, proved.  First what rounding and the    *)
(* shortest spelling do, for every number format: rounding does not cross  *)
(* a double, the shortest text of a double is read back as that double,    *)
(* and a safe integer is its own shortest text.  Then what a number means  *)
(* on its way through writers, parsers and rewriters.                      *)
(***************************************************************************)
EXTENDS JcsNumbers, LogLemmas

-----------------------------------------------------------------------------
(* Products and divisions.                                                 *)

\* Z3 takes these one at a time; the proofs below cite them.
LEMMA TimesMonotonic ==
    \A a, b, c \in Nat : a <= b => a * c <= b * c
OBVIOUS

LEMMA TimesStrict ==
    \A a, b \in Nat : \A c \in Nat \ {0} : a < b => a * c < b * c
OBVIOUS

LEMMA TimesPositive ==
    \A a, b \in Nat \ {0} : a * b \in Nat \ {0}
OBVIOUS

LEMMA TimesAssociative ==
    \A a, b, c \in Int : (a * b) * c = a * (b * c)
OBVIOUS

LEMMA TimesCommutes ==
    \A a, b \in Int : a * b = b * a
OBVIOUS

LEMMA Distributes ==
    \A a, b, c \in Int : (a + b) * c = a * c + b * c
OBVIOUS

LEMMA Division ==
    ASSUME NEW a \in Nat, NEW d \in Nat \ {0}
    PROVE  /\ a \div d \in Nat /\ a % d \in 0..(d - 1)
           /\ a = (a \div d) * d + (a % d)
OBVIOUS

LEMMA Multiples ==
    ASSUME NEW q \in Nat, NEW d \in Nat \ {0}
    PROVE  (q * d) % d = 0 /\ (q * d) \div d = q
OBVIOUS

LEMMA DividesIff ==
    ASSUME NEW a \in Nat, NEW d \in Nat \ {0}
    PROVE  a % d = 0 <=> \E q \in Nat : a = q * d
<1>1. ASSUME a % d = 0 PROVE \E q \in Nat : a = q * d
  <2>1. a \div d \in Nat /\ a = (a \div d) * d + (a % d)
    BY Division
  <2>2. (a \div d) * d \in Nat
    BY <2>1
  <2>3. a = (a \div d) * d
    BY <1>1, <2>1, <2>2
  <2>4. QED
    BY <2>1, <2>3
<1>2. ASSUME NEW q \in Nat, a = q * d PROVE a % d = 0
  BY <1>2, Multiples
<1>3. QED
  BY <1>1, <1>2

-----------------------------------------------------------------------------
(* Powers.                                                                 *)

\* f holds the powers of b up to the N-th.
Powers(f, N, b) ==
    /\ f \in [0..N -> Nat \ {0}] /\ f[0] = 1
    /\ \A n \in 1..N : f[n] = b * f[n - 1]

\* The recursive definition of the powers has a solution, so it can be unfolded.
LEMMA PowersUnfold ==
    ASSUME NEW N \in Nat, NEW b \in Nat \ {0}, NEW f,
           f = CHOOSE g : g = [n \in 0..N |-> IF n = 0 THEN 1 ELSE b * g[n - 1]]
    PROVE  Powers(f, N, b)
<1> DEFINE V == Nat \ {0}
           up == [n \in 1..N |-> n - 1]
           h == [n \in 1..N |-> [v \in V |-> b * v]]
           Equation(g) == g = [n \in 0..N |-> IF n = 0 THEN 1 ELSE b * g[n - 1]]
<1>1. \A v \in V : b * v \in V
  BY TimesPositive
<1>2. Recursion(N, V, up, h)
  <2>1. up \in [1..N -> Nat] /\ \A n \in 1..N : up[n] < n
    OBVIOUS
  <2> HIDE DEF V
  <2>2. h \in [1..N -> [V -> V]]
    BY <1>1
  <2> HIDE DEF up, h
  <2>3. QED
    BY <2>1, <2>2 DEF Recursion
<1>3. 1 \in V
  OBVIOUS
<1> HIDE DEF V, up, h
<1>4. \E g : Recursive(g, N, V, 1, up, h)
  BY <1>2, <1>3, RecursionBelow
<1>5. PICK r \in [0..N -> V] : r[0] = 1 /\ \A n \in 1..N : r[n] = h[n][r[up[n]]]
  BY <1>4 DEF Recursive
<1>6. \A n \in 1..N : r[n] = b * r[n - 1]
  <2> TAKE n \in 1..N
  <2>1. up[n] = n - 1 /\ n - 1 \in 0..N
    BY DEF up
  <2>2. r[n - 1] \in V
    BY <2>1
  <2>3. h[n][r[n - 1]] = b * r[n - 1]
    BY <2>2 DEF h
  <2>4. QED
    BY <1>5, <2>1, <2>3
<1>7. Equation(r)
  <2>1. \A n \in 0..N : r[n] = IF n = 0 THEN 1 ELSE b * r[n - 1]
    BY <1>5, <1>6
  <2>2. QED
    BY <2>1
<1>8. Equation(f)
  <2>1. f = CHOOSE g : Equation(g)
    OBVIOUS
  <2> HIDE DEF Equation
  <2>2. QED
    BY <1>7, <2>1
<1>9. f[0] = 1 /\ \A n \in 1..N : f[n] = b * f[n - 1]
  <2>1. \A n \in 0..N : f[n] = IF n = 0 THEN 1 ELSE b * f[n - 1]
    BY <1>8
  <2>2. 0 \in 0..N /\ \A n \in 1..N : n \in 0..N /\ n # 0
    OBVIOUS
  <2> HIDE DEF Equation
  <2>3. f[0] = 1
    BY <2>1, <2>2
  <2>4. ASSUME NEW n \in 1..N PROVE f[n] = b * f[n - 1]
    BY <2>1, <2>2
  <2>5. QED
    BY <2>3, <2>4
<1>10. \A n \in 0..N : f[n] \in V
  <2> DEFINE Odd == {n \in 0..N : f[n] \notin V}
  <2>1. SUFFICES ASSUME Odd # {} PROVE FALSE
    OBVIOUS
  <2>2. Odd \in SUBSET Nat
    OBVIOUS
  <2> HIDE DEF Odd
  <2>3. PICK m \in Odd : \A k \in Odd : m <= k
    BY <2>1, <2>2, LeastElement
  <2>4. m \in 0..N /\ f[m] \notin V
    BY DEF Odd
  <2>5. m \in 1..N /\ m - 1 \in 0..N
    BY <1>3, <1>9, <2>4
  <2>6. m - 1 \notin Odd
    BY <2>3, <2>5
  <2>7. f[m - 1] \in V
    BY <2>5, <2>6 DEF Odd
  <2>8. QED
    BY <1>1, <1>9, <2>4, <2>5, <2>7
<1>11. QED
  <2>1. f = [n \in 0..N |-> f[n]]
    <3>1. f = [n \in 0..N |-> IF n = 0 THEN 1 ELSE b * f[n - 1]]
      BY <1>8
    <3>2. QED
      BY <3>1
  <2>2. QED
    BY <1>9, <1>10, <2>1 DEF Powers, V

\* A power divides the greater ones.
LEMMA PowersDivide ==
    ASSUME NEW N \in Nat, NEW b \in Nat \ {0}, NEW f, Powers(f, N, b),
           NEW k \in 0..N, NEW n \in k..N
    PROVE  \E q \in Nat \ {0} : f[n] = q * f[k]
<1> DEFINE Odd == {m \in k..N : ~\E q \in Nat \ {0} : f[m] = q * f[k]}
<1>1. SUFFICES ASSUME Odd # {} PROVE FALSE
  OBVIOUS
<1>2. Odd \in SUBSET Nat
  OBVIOUS
<1> HIDE DEF Odd
<1>3. PICK m \in Odd : \A j \in Odd : m <= j
  BY <1>1, <1>2, LeastElement
<1>4. m \in k..N /\ ~\E q \in Nat \ {0} : f[m] = q * f[k]
  BY DEF Odd
<1>5. \A i \in 0..N : f[i] \in Nat \ {0}
  BY DEF Powers
<1>6. m # k
  <2>1. f[k] = 1 * f[k]
    BY <1>5
  <2>2. QED
    BY <1>4, <2>1
<1>7. m \in 1..N /\ m - 1 \in k..N
  BY <1>4, <1>6
<1>8. m - 1 \notin Odd
  BY <1>3, <1>7
<1>9. PICK q \in Nat \ {0} : f[m - 1] = q * f[k]
  BY <1>7, <1>8 DEF Odd
<1>10. f[m] = b * (q * f[k])
  BY <1>7, <1>9 DEF Powers
<1>11. f[m] = (b * q) * f[k] /\ b * q \in Nat \ {0}
  BY <1>5, <1>10, TimesAssociative, TimesPositive
<1>12. QED
  BY <1>4, <1>11

\* A power is less than the greater ones.
LEMMA PowersGrow ==
    ASSUME NEW N \in Nat, NEW b \in Nat \ {0, 1}, NEW f, Powers(f, N, b),
           NEW k \in 0..N, NEW n \in k..N
    PROVE  f[k] <= f[n] /\ (k < n => f[k] < f[n])
<1>1. \A i \in 0..N : f[i] \in Nat \ {0}
  BY DEF Powers
<1>2. \A i \in 0..N : \A j \in i..N : f[i] <= f[j]
  <2> TAKE i \in 0..N
  <2> TAKE j \in i..N
  <2>1. PICK q \in Nat \ {0} : f[j] = q * f[i]
    BY PowersDivide
  <2>2. QED
    BY <1>1, <2>1
<1>3. ASSUME k < n PROVE f[k] < f[n]
  <2>1. k + 1 \in 1..N /\ k + 1 \in 0..N /\ n \in (k + 1)..N /\ (k + 1) - 1 = k
    BY <1>3
  <2>2. f[k + 1] = b * f[k]
    BY <2>1 DEF Powers
  <2>3. f[k + 1] <= f[n]
    BY <1>2, <2>1
  <2>4. f[k] < f[k + 1]
    BY <1>1, <2>2
  <2>5. QED
    BY <1>1, <2>1, <2>3, <2>4
<1>4. QED
  BY <1>2, <1>3

\* The exponents of a product add up.
LEMMA PowersAdd ==
    ASSUME NEW N \in Nat, NEW b \in Nat \ {0}, NEW f, Powers(f, N, b),
           NEW i \in 0..N, NEW j \in 0..N, i + j <= N
    PROVE  f[i + j] = f[j] * f[i]
<1> DEFINE Odd == {k \in 0..j : f[i + k] # f[k] * f[i]}
<1>1. SUFFICES ASSUME Odd # {} PROVE FALSE
  OBVIOUS
<1>2. Odd \in SUBSET Nat
  OBVIOUS
<1>3. \A k \in Odd : k \in 0..j /\ f[i + k] # f[k] * f[i]
  OBVIOUS
<1>4. \A k \in 0..j : k \notin Odd => f[i + k] = f[k] * f[i]
  OBVIOUS
<1> HIDE DEF Odd
<1>5. PICK m \in Odd : \A k \in Odd : m <= k
  BY <1>1, <1>2, LeastElement
<1>6. f[0] = 1 /\ \A k \in 0..N : f[k] \in Nat \ {0}
  BY DEF Powers
<1>7. m # 0
  <2>1. f[i + 0] = f[0] * f[i]
    BY <1>6
  <2>2. QED
    BY <1>3, <2>1
<1>8. /\ m \in 1..N /\ m - 1 \in 0..N /\ m - 1 \in 0..j
      /\ i + m \in 1..N /\ (i + m) - 1 = i + (m - 1)
  BY <1>3, <1>7
<1>9. m - 1 \notin Odd
  BY <1>5, <1>8
<1>10. f[i + (m - 1)] = f[m - 1] * f[i]
  BY <1>4, <1>8, <1>9
<1>11. f[i + m] = b * (f[m - 1] * f[i]) /\ f[m] = b * f[m - 1]
  BY <1>8, <1>10 DEF Powers
<1>12. f[i + m] = f[m] * f[i]
  BY <1>6, <1>8, <1>11, TimesAssociative
<1>13. QED
  BY <1>3, <1>12

LEMMA TenToPowers == Powers(TenTo, Width, 10)
<1>1. Width \in Nat
  BY FormatAssumption
<1>2. TenTo = CHOOSE g : g = [n \in 0..Width |-> IF n = 0 THEN 1 ELSE 10 * g[n - 1]]
  BY DEF TenTo
<1>3. QED
  BY <1>1, <1>2, PowersUnfold

LEMMA TwoToPowers == Powers(TwoTo, P + EMax - EMin, 2) /\ P + EMax - EMin \in Nat
<1>1. P + EMax - EMin \in Nat
  BY FormatAssumption
<1>2. TwoTo = CHOOSE g : g = [n \in 0..(P + EMax - EMin) |-> IF n = 0 THEN 1 ELSE 2 * g[n - 1]]
  BY DEF TwoTo
<1>3. QED
  BY <1>1, <1>2, PowersUnfold

\* Decimal places: 10^k, k places.
LEMMA TenToGrows ==
    /\ TenTo[0] = 1 /\ \A k \in 0..Width : TenTo[k] \in Nat \ {0}
    /\ \A n \in 1..Width : TenTo[n] = 10 * TenTo[n - 1]
    /\ \A k \in 0..Width : \A n \in k..Width :
          /\ TenTo[k] <= TenTo[n] /\ (k < n => TenTo[k] < TenTo[n])
          /\ \E q \in Nat \ {0} : TenTo[n] = q * TenTo[k]
<1>1. Width \in Nat /\ 10 \in Nat \ {0, 1} /\ 10 \in Nat \ {0}
  BY FormatAssumption
<1>2. TenTo[0] = 1 /\ \A k \in 0..Width : TenTo[k] \in Nat \ {0}
  BY TenToPowers DEF Powers
<1>3. \A n \in 1..Width : TenTo[n] = 10 * TenTo[n - 1]
  BY TenToPowers DEF Powers
<1>4. ASSUME NEW k \in 0..Width, NEW n \in k..Width
      PROVE  /\ TenTo[k] <= TenTo[n] /\ (k < n => TenTo[k] < TenTo[n])
             /\ \E q \in Nat \ {0} : TenTo[n] = q * TenTo[k]
  <2>1. TenTo[k] <= TenTo[n] /\ (k < n => TenTo[k] < TenTo[n])
    BY <1>1, TenToPowers, PowersGrow
  <2>2. \E q \in Nat \ {0} : TenTo[n] = q * TenTo[k]
    BY <1>1, TenToPowers, PowersDivide
  <2>3. QED
    BY <2>1, <2>2
<1>5. QED
  BY <1>2, <1>3, <1>4

LEMMA FracPlaces ==
    /\ Width \in Nat \ {0} /\ Frac \in 1..Width
    /\ Plain + Frac \in Frac..Width /\ Small + Frac \in 0..(Frac - 1)
    /\ One \in Nat \ {0}
<1>1. /\ Width \in Nat \ {0} /\ Frac \in 1..Width
      /\ Plain + Frac \in Frac..Width /\ Small + Frac \in 0..(Frac - 1)
  BY FormatAssumption
<1>2. One \in Nat \ {0}
  BY <1>1, TenToGrows DEF One
<1>3. QED
  BY <1>1, <1>2

\* The bits of the format: each is twice the one below, and the 0-th is One.
Unit == One \div TwoTo[-EMin]

LEMMA Units ==
    Unit \in Nat \ {0} /\ One = TwoTo[-EMin] * Unit
<1>1. -EMin \in 0..(P + EMax - EMin)
  BY FormatAssumption
<1>2. TwoTo[-EMin] \in Nat \ {0}
  BY <1>1, TwoToPowers DEF Powers
<1>3. One \in Nat \ {0}
  BY FracPlaces
<1> DEFINE d == TwoTo[-EMin]
<1>4. d \in Nat \ {0}
  BY <1>2
<1>5. One % d = 0
  BY PlacesAssumption
<1>6. Unit = One \div d
  BY DEF Unit
<1> HIDE DEF d
<1>7. One \div d \in Nat /\ One = (One \div d) * d + (One % d)
  BY <1>3, <1>4, Division
<1>8. One = (One \div d) * d
  BY <1>5, <1>7, <1>4
<1>9. Unit # 0
  BY <1>3, <1>4, <1>6, <1>8
<1>10. QED
  BY <1>4, <1>6, <1>7, <1>8, <1>9, TimesCommutes DEF d

LEMMA Bits ==
    /\ EMin \in Int /\ EMax \in Int /\ EMin < 0 /\ EMax >= 0
    /\ \A e \in EMin..EMax : Bit(e) \in Nat \ {0}
    /\ \A e \in (EMin + 1)..EMax : Bit(e) = 2 * Bit(e - 1)
    /\ \A d \in EMin..EMax : \A e \in d..EMax :
          /\ Bit(d) <= Bit(e)
          /\ \E q \in Nat \ {0} : Bit(e) = q * Bit(d)
    /\ Bit(0) = One
<1>1. EMin \in Int /\ EMax \in Int /\ EMin < 0 /\ EMax >= 0
  BY FormatAssumption
<1> DEFINE N == P + EMax - EMin
<1>2. N \in Nat /\ 2 \in Nat \ {0} /\ 2 \in Nat \ {0, 1} /\ Powers(TwoTo, N, 2)
  BY TwoToPowers
<1>3. \A e \in EMin..EMax : e - EMin \in 0..N
  BY FormatAssumption
<1>4. \A e \in (EMin + 1)..EMax : e - EMin \in 1..N /\ (e - EMin) - 1 = (e - 1) - EMin
  BY FormatAssumption
<1>5. \A d \in EMin..EMax : \A e \in d..EMax : e - EMin \in (d - EMin)..N
  BY FormatAssumption
<1> HIDE DEF N
<1>6. \A k \in 0..N : TwoTo[k] \in Nat \ {0}
  BY <1>2 DEF Powers
<1>7. Unit \in Nat \ {0} /\ One = TwoTo[-EMin] * Unit
  BY Units
<1>8. \A e : Bit(e) = TwoTo[e - EMin] * Unit
  BY DEF Bit, Unit
<1>9. \A e \in EMin..EMax : Bit(e) \in Nat \ {0}
  BY <1>3, <1>6, <1>7, <1>8, TimesPositive
<1>10. ASSUME NEW e \in (EMin + 1)..EMax PROVE Bit(e) = 2 * Bit(e - 1)
  <2>1. TwoTo[e - EMin] = 2 * TwoTo[(e - 1) - EMin]
    BY <1>2, <1>4 DEF Powers
  <2>2. (e - 1) - EMin \in 0..N
    BY <1>1, <1>2, <1>4
  <2>3. TwoTo[(e - 1) - EMin] \in Nat
    BY <2>2, <1>6
  <2>4. QED
    BY <1>7, <1>8, <2>1, <2>3, TimesAssociative
<1>11. ASSUME NEW d \in EMin..EMax, NEW e \in d..EMax
       PROVE  /\ Bit(d) <= Bit(e)
              /\ \E q \in Nat \ {0} : Bit(e) = q * Bit(d)
  <2>1. d - EMin \in 0..N /\ e - EMin \in (d - EMin)..N
    BY <1>3, <1>5
  <2>2. PICK q \in Nat \ {0} : TwoTo[e - EMin] = q * TwoTo[d - EMin]
    BY <1>2, <2>1, PowersDivide
  <2>3. Bit(e) = q * Bit(d)
    BY <1>6, <1>7, <1>8, <2>1, <2>2, TimesAssociative
  <2>4. Bit(d) <= Bit(e)
    BY <1>9, <2>3
  <2>5. QED
    BY <2>3, <2>4
<1>12. Bit(0) = One
  <2>1. 0 - EMin = -EMin
    BY <1>1
  <2>2. QED
    BY <1>7, <1>8, <2>1
<1>13. QED
  BY <1>1, <1>9, <1>10, <1>11, <1>12

\* The bounds of a significand.
LEMMA Significands ==
    /\ TwoTo[P] \in Nat \ {0, 1, 2, 3} /\ TwoTo[P - 1] \in Nat \ {0} /\ TwoTo[P] = 2 * TwoTo[P - 1]
    /\ TwoTo[P] * Bit(EMax) <= TenTo[Width]
    /\ TwoTo[P] * One <= TenTo[Plain + Frac]
<1>1. P \in 2..(P + EMax - EMin) /\ P - 1 \in 1..(P + EMax - EMin) /\ P - 2 \in 0..(P + EMax - EMin)
      /\ (P - 1) - 1 = P - 2
  BY FormatAssumption
<1> DEFINE N == P + EMax - EMin
<1>2. Powers(TwoTo, N, 2) /\ N \in Nat
  BY TwoToPowers
<1>3. /\ EMax \in 0..N /\ -EMin \in 0..N /\ EMax + (-EMin) <= N /\ EMax + (-EMin) = EMax - EMin
      /\ -EMin + EMax = EMax - EMin /\ -EMin + EMax <= N
  BY FormatAssumption
<1>4. P \in 1..N /\ P - 1 \in 1..N /\ P - 2 \in 0..N
  BY <1>1
<1> HIDE DEF N
<1>5. /\ \A k \in 0..N : TwoTo[k] \in Nat \ {0}
      /\ TwoTo[P] = 2 * TwoTo[P - 1] /\ TwoTo[P - 1] = 2 * TwoTo[P - 2]
  BY <1>1, <1>2, <1>4 DEF Powers
<1>6. TwoTo[P] \in Nat \ {0, 1, 2, 3} /\ TwoTo[P - 1] \in Nat \ {0}
  <2>1. TwoTo[P - 2] \in Nat \ {0}
    BY <1>4, <1>5
  <2>2. QED
    BY <1>5, <2>1
<1>7. TwoTo[EMax - EMin] = TwoTo[EMax] * TwoTo[-EMin]
  BY <1>2, <1>3, PowersAdd
<1>8. Bit(EMax) = TwoTo[EMax] * One
  <2>1. Bit(EMax) = TwoTo[EMax - EMin] * Unit
    BY DEF Bit, Unit
  <2>2. Unit \in Nat /\ One = TwoTo[-EMin] * Unit
    BY Units
  <2>3. TwoTo[EMax] \in Nat /\ TwoTo[-EMin] \in Nat
    BY <1>3, <1>5
  <2>4. QED
    BY <1>7, <2>1, <2>2, <2>3, TimesAssociative
<1>9. QED
  BY <1>5, <1>6, <1>8, PlacesAssumption

-----------------------------------------------------------------------------
(* Rounding.                                                               *)

\* A quantity below the greatest power lies in one binade.
LEMMA Binade ==
    ASSUME NEW a \in Nat, a < TwoTo[P] * Bit(EMax)
    PROVE  \E e \in EMin..EMax :
              /\ Ulp(a) = Bit(e) /\ a < TwoTo[P] * Bit(e)
              /\ e = EMin \/ a >= TwoTo[P] * Bit(e - 1)
<1> DEFINE In(e) == a < TwoTo[P] * Bit(e) /\ (e = EMin \/ a >= TwoTo[P] * Bit(e - 1))
           Above == {k \in 0..(EMax - EMin) : a < TwoTo[P] * Bit(EMin + k)}
<1>1. EMin \in Int /\ EMax \in Int /\ EMin < 0 /\ EMax >= 0
  BY Bits
<1>2. EMax - EMin \in Above
  <2>1. EMax - EMin \in 0..(EMax - EMin) /\ EMin + (EMax - EMin) = EMax
    BY <1>1
  <2>2. QED
    BY <2>1
<1>3. Above \in SUBSET Nat
  BY <1>1
<1>4. \A k \in Above : k \in 0..(EMax - EMin) /\ a < TwoTo[P] * Bit(EMin + k)
  OBVIOUS
<1>5. \A k \in 0..(EMax - EMin) : k \notin Above => ~(a < TwoTo[P] * Bit(EMin + k))
  OBVIOUS
<1> HIDE DEF Above
<1>6. PICK m \in Above : \A k \in Above : m <= k
  BY <1>2, <1>3, LeastElement
<1>7. EMin + m \in EMin..EMax /\ a < TwoTo[P] * Bit(EMin + m)
  BY <1>1, <1>4
<1>8. ASSUME m # 0 PROVE a >= TwoTo[P] * Bit((EMin + m) - 1)
  <2>1. m - 1 \in 0..(EMax - EMin) /\ m - 1 \notin Above /\ EMin + (m - 1) = (EMin + m) - 1
        /\ (EMin + m) - 1 \in EMin..EMax
    BY <1>1, <1>4, <1>6, <1>8
  <2>2. ~(a < TwoTo[P] * Bit((EMin + m) - 1))
    BY <1>5, <2>1
  <2>3. TwoTo[P] \in Nat /\ Bit((EMin + m) - 1) \in Nat
    BY <2>1, Bits, Significands
  <2>4. QED
    BY <2>2, <2>3
<1>9. In(EMin + m)
  BY <1>1, <1>4, <1>7, <1>8
<1> DEFINE c == CHOOSE e \in EMin..EMax : In(e)
<1>10. \E e \in EMin..EMax : In(e)
  BY <1>7, <1>9
<1>11. Ulp(a) = Bit(c)
  BY DEF Ulp
<1>12. c \in EMin..EMax /\ In(c)
  <2> HIDE DEF In
  <2>1. QED
    BY <1>10
<1> HIDE DEF c
<1>13. QED
  BY <1>11, <1>12

\* What Nearest computes below the greatest power, in parts.
LEMMA Rounding ==
    ASSUME NEW a \in Nat, a < TwoTo[P] * Bit(EMax)
    PROVE  \E e \in EMin..EMax, q \in 0..(TwoTo[P] - 1), n \in Nat :
              /\ q * Bit(e) <= a /\ a < (q + 1) * Bit(e)
              /\ e = EMin \/ a >= TwoTo[P] * Bit(e - 1)
              /\ n = q * Bit(e) \/ (n = (q + 1) * Bit(e) /\ a # q * Bit(e))
              /\ Nearest(a) = IF n > MaxDouble THEN Infinite ELSE n
<1>1. PICK e \in EMin..EMax :
              /\ Ulp(a) = Bit(e) /\ a < TwoTo[P] * Bit(e)
              /\ e = EMin \/ a >= TwoTo[P] * Bit(e - 1)
  BY Binade
<1> DEFINE u == Ulp(a)
           q == a \div u
           up == 2 * (a % u) > u \/ (2 * (a % u) = u /\ q % 2 = 1)
           n == Rounded(a, u)
<1>2. u = Bit(e) /\ u \in Nat \ {0} /\ a < TwoTo[P] * u /\ TwoTo[P] \in Nat /\ TwoTo[P] * u \in Nat
  <2>1. u = Bit(e)
    BY <1>1
  <2>2. Bit(e) \in Nat \ {0} /\ a < TwoTo[P] * Bit(e)
    BY <1>1, Bits
  <2>3. TwoTo[P] \in Nat
    BY Significands
  <2> HIDE DEF u
  <2>4. QED
    BY <2>1, <2>2, <2>3
<1>3. Nearest(a) = IF n > MaxDouble THEN Infinite ELSE n
  <2>1. ~(a >= TwoTo[P] * Bit(EMax))
    <3>1. TwoTo[P] * Bit(EMax) \in Nat
      <4>1. EMax \in EMin..EMax
        BY Bits
      <4>2. TwoTo[P] \in Nat /\ Bit(EMax) \in Nat
        BY <4>1, Bits, Significands
      <4>3. QED
        BY <4>2
    <3>2. QED
      BY <3>1
  <2>2. QED
    BY <2>1 DEF Nearest, InRange
<1> HIDE DEF u
<1>4. q \in Nat /\ a % u \in 0..(u - 1) /\ a = q * u + (a % u)
  BY <1>2, Division
<1> DEFINE r == a % u
<1>5. n = q * u \/ (n = (q + 1) * u /\ r # 0)
  <2>1. r = 0 => ~up
    BY <1>2
  <2>2. n = IF up THEN (q + 1) * u ELSE q * u
    BY DEF Rounded
  <2> HIDE DEF up, r, q, n
  <2>3. QED
    BY <2>1, <2>2
<1>6. r \in 0..(u - 1) /\ a = q * u + r
  BY <1>4
<1> HIDE DEF n, q, r
<1>7. q * u \in Nat /\ (q + 1) * u = q * u + u
  <2>1. q \in Int /\ u \in Int /\ 1 \in Int /\ q * u \in Nat
    BY <1>2, <1>4
  <2>2. (q + 1) * u = q * u + 1 * u
    BY <2>1, Distributes
  <2>3. QED
    BY <2>1, <2>2
<1>8. q * u <= a /\ a < (q + 1) * u /\ (r # 0 => a # q * u)
  BY <1>2, <1>6, <1>7
<1>9. q <= TwoTo[P] - 1
  <2>1. SUFFICES ASSUME TwoTo[P] <= q PROVE FALSE
    BY <1>2, <1>4
  <2>2. TwoTo[P] * u <= q * u
    BY <1>2, <1>4, <2>1, TimesMonotonic
  <2>3. QED
    BY <1>2, <1>7, <1>8, <2>2
<1>10. n \in Nat
  BY <1>2, <1>5, <1>7
<1>11. q \in 0..(TwoTo[P] - 1)
  BY <1>2, <1>4, <1>9
<1>12. q * Bit(e) <= a /\ a < (q + 1) * Bit(e) /\ (n = q * Bit(e) \/ (n = (q + 1) * Bit(e) /\ a # q * Bit(e)))
  BY <1>2, <1>5, <1>8
<1>13. QED
  BY <1>1, <1>3, <1>10, <1>11, <1>12

\* A magnitude is a multiple of a bit, with a significand that fits.
LEMMA MagnitudeParts ==
    /\ \A a \in Magnitudes : \E m \in 0..(TwoTo[P] - 1), e \in EMin..EMax : a = m * Bit(e)
    /\ \A m \in 0..(TwoTo[P] - 1), e \in EMin..EMax : m * Bit(e) \in Magnitudes
    /\ \A a \in Magnitudes : a \in Nat /\ a <= MaxDouble /\ a < TwoTo[P] * Bit(EMax)
    /\ 0 \in Magnitudes /\ One \in Magnitudes
    /\ MaxDouble \in Nat \ {0} /\ MaxDouble < TwoTo[P] * Bit(EMax)
<1>1. TwoTo[P] \in Nat \ {0, 1, 2, 3}
  BY Significands
<1>2. EMax \in EMin..EMax /\ 0 \in EMin..EMax /\ Bit(0) = One /\ \A e \in EMin..EMax : EMax \in e..EMax
  BY Bits
<1>3. \A e \in EMin..EMax : Bit(e) \in Nat \ {0} /\ Bit(e) <= Bit(EMax)
  BY <1>2, Bits
<1>4. /\ \A a \in Magnitudes : \E m \in 0..(TwoTo[P] - 1), e \in EMin..EMax : a = m * Bit(e)
      /\ \A m \in 0..(TwoTo[P] - 1), e \in EMin..EMax : m * Bit(e) \in Magnitudes
  BY DEF Magnitudes
<1> DEFINE t == TwoTo[P]
           b == Bit(EMax)
<1>5. t \in Nat \ {0, 1, 2, 3} /\ b \in Nat \ {0} /\ MaxDouble = (t - 1) * b
  BY <1>1, <1>2, <1>3 DEF MaxDouble
<1>6. MaxDouble \in Nat \ {0} /\ MaxDouble < TwoTo[P] * Bit(EMax)
  <2> HIDE DEF t, b
  <2>1. t - 1 \in Nat \ {0} /\ t - 1 < t /\ t \in Nat
    BY <1>5
  <2>2. (t - 1) * b \in Nat \ {0} /\ (t - 1) * b < t * b
    BY <1>5, <2>1, TimesStrict, TimesPositive
  <2>3. QED
    BY <1>5, <2>2 DEF t, b
<1>7. ASSUME NEW a \in Magnitudes
      PROVE  a \in Nat /\ a <= MaxDouble /\ a < TwoTo[P] * Bit(EMax)
  <2>1. PICK m \in 0..(TwoTo[P] - 1), e \in EMin..EMax : a = m * Bit(e)
    BY <1>4
  <2> DEFINE c == Bit(e)
  <2>2. c \in Nat /\ c <= b /\ m \in Nat /\ m <= t - 1 /\ t - 1 \in Nat /\ b \in Nat
    BY <1>3, <1>5, <2>1
  <2>3. a = m * c
    BY <2>1
  <2> HIDE DEF c, t, b
  <2>4. m * c <= (t - 1) * c
    BY <2>2, TimesMonotonic
  <2>5. c * (t - 1) <= b * (t - 1)
    BY <2>2, TimesMonotonic
  <2>6. c * (t - 1) = (t - 1) * c /\ b * (t - 1) = (t - 1) * b
    BY <2>2, TimesCommutes
  <2>7. a \in Nat /\ (t - 1) * c \in Nat
    BY <2>2, <2>3
  <2>8. a <= MaxDouble
    BY <1>5, <1>6, <2>3, <2>4, <2>5, <2>6, <2>7
  <2>9. a < TwoTo[P] * Bit(EMax)
    <3>1. TwoTo[P] * Bit(EMax) \in Nat
      BY <1>5 DEF t, b
    <3>2. QED
      BY <1>6, <2>7, <2>8, <3>1
  <2>10. QED
    BY <2>7, <2>8, <2>9
<1>8. 0 \in Magnitudes
  <2>1. 0 \in 0..(TwoTo[P] - 1) /\ 0 * Bit(0) = 0
    BY <1>1, <1>2, <1>3
  <2>2. QED
    BY <1>2, <1>4, <2>1
<1>9. One \in Magnitudes
  <2>1. 1 \in 0..(TwoTo[P] - 1) /\ 1 * Bit(0) = One
    BY <1>1, <1>2, <1>3
  <2>2. QED
    BY <1>2, <1>4, <2>1
<1>10. QED
  BY <1>4, <1>6, <1>7, <1>8, <1>9

\* Rounding does not cross a magnitude.
LEMMA NearestBetween ==
    ASSUME NEW a \in Nat, NEW m \in Magnitudes
    PROVE  /\ a <= m => Nearest(a) <= m
           /\ a >= m => Nearest(a) >= m
<1>1. m \in Nat /\ m <= MaxDouble /\ m < TwoTo[P] * Bit(EMax) /\ MaxDouble \in Nat
  BY MagnitudeParts
<1> DEFINE t == TwoTo[P]
<1>2. t \in Nat \ {0, 1, 2, 3} /\ EMax \in EMin..EMax /\ Bit(EMax) \in Nat \ {0} /\ t * Bit(EMax) \in Nat
  <2>1. t \in Nat \ {0, 1, 2, 3} /\ EMax \in EMin..EMax /\ Bit(EMax) \in Nat \ {0}
    BY Bits, Significands
  <2>2. QED
    BY <2>1
<1>3. Infinite = MaxDouble + 1
  BY DEF Infinite
<1>4. CASE a >= TwoTo[P] * Bit(EMax)
  <2>1. Nearest(a) = Infinite
    BY <1>4 DEF Nearest
  <2>2. a > m
    BY <1>1, <1>2, <1>4
  <2>3. QED
    BY <1>1, <1>3, <2>1, <2>2
<1>5. CASE a < TwoTo[P] * Bit(EMax)
  <2>1. PICK e \in EMin..EMax, q \in 0..(TwoTo[P] - 1), n \in Nat :
              /\ q * Bit(e) <= a /\ a < (q + 1) * Bit(e)
              /\ e = EMin \/ a >= TwoTo[P] * Bit(e - 1)
              /\ n = q * Bit(e) \/ (n = (q + 1) * Bit(e) /\ a # q * Bit(e))
              /\ Nearest(a) = IF n > MaxDouble THEN Infinite ELSE n
    BY <1>5, Rounding
  <2>2. PICK k \in 0..(TwoTo[P] - 1), d \in EMin..EMax : m = k * Bit(d)
    BY MagnitudeParts
  <2> DEFINE u == Bit(e)
             h == TwoTo[P - 1]
  <2>3. u \in Nat \ {0} /\ Bit(d) \in Nat \ {0} /\ h \in Nat \ {0} /\ t = 2 * h
    BY Bits, Significands
  <2>4. q \in Nat /\ q <= t - 1 /\ k \in Nat /\ k <= t - 1
    BY <1>2
  <2>5. CASE e <= d
    <3>1. d \in e..EMax
      BY <2>5, Bits
    <3>2. PICK j \in Nat \ {0} : Bit(d) = j * Bit(e)
      BY <3>1, Bits
    <3> DEFINE i == k * j
    <3>3. m = i * u /\ i \in Nat
      BY <2>2, <2>3, <2>4, <3>2, TimesAssociative
    <3>4. q * u <= a /\ a < (q + 1) * u
      BY <2>1
    <3>5. n = q * u \/ (n = (q + 1) * u /\ a # q * u)
      BY <2>1
    <3> HIDE DEF u, i, h, t
    <3>6. ASSUME a <= m PROVE n <= m
      <4>1. CASE n = q * u
        BY <1>1, <2>3, <2>4, <3>4, <3>6, <4>1
      <4>2. CASE n = (q + 1) * u /\ a # q * u
        <5>1. q * u < i * u
          BY <1>1, <2>3, <2>4, <3>3, <3>4, <3>6, <4>2
        <5>2. ~(i <= q)
          BY <2>3, <2>4, <3>3, <5>1, TimesMonotonic
        <5>3. q + 1 <= i /\ q + 1 \in Nat
          BY <2>4, <3>3, <5>2
        <5>4. (q + 1) * u <= i * u
          BY <2>3, <3>3, <5>3, TimesMonotonic
        <5>5. QED
          BY <3>3, <4>2, <5>4
      <4>3. QED
        BY <3>5, <4>1, <4>2
    <3>7. ASSUME a >= m PROVE n >= m
      <4>1. i * u < (q + 1) * u
        BY <1>1, <2>3, <2>4, <3>3, <3>4, <3>7
      <4>2. ~(q + 1 <= i)
        BY <2>3, <2>4, <3>3, <4>1, TimesMonotonic
      <4>3. i <= q
        BY <2>4, <3>3, <4>2
      <4>4. i * u <= q * u /\ q * u <= (q + 1) * u
        BY <2>3, <2>4, <3>3, <4>3, TimesMonotonic
      <4>5. QED
        BY <2>3, <2>4, <3>3, <3>5, <4>4
    <3>8. QED
      BY <1>1, <1>3, <2>1, <3>6, <3>7
  <2>6. CASE d < e
    <3>1. e # EMin /\ e - 1 \in EMin..EMax /\ e - 1 \in d..EMax /\ e \in (EMin + 1)..EMax
      BY <2>6, Bits
    <3> DEFINE l == Bit(e - 1)
    <3>2. l \in Nat \ {0} /\ u = 2 * l /\ Bit(d) <= l /\ a >= t * l
      BY <2>1, <3>1, Bits
    <3>3. m < t * l
      <4> DEFINE b == Bit(d)
      <4>1. b \in Nat \ {0} /\ b <= l /\ m = k * b
        BY <2>2, <2>3, <3>2
      <4>2. k < t
        BY <1>2, <2>4
      <4> HIDE DEF b, l, t, u, h
      <4>3. k * b < t * b
        BY <1>2, <2>4, <4>1, <4>2, TimesStrict
      <4>4. b * t <= l * t
        BY <1>2, <3>2, <4>1, TimesMonotonic
      <4>5. b * t = t * b /\ l * t = t * l
        BY <1>2, <3>2, <4>1, TimesCommutes
      <4>6. QED
        BY <1>1, <1>2, <2>4, <3>2, <4>1, <4>3, <4>4, <4>5
    <3>4. t * l = h * u
      <4>1. (h * 2) * l = h * (2 * l) /\ 2 * h = h * 2
        BY <2>3, <3>2, TimesAssociative, TimesCommutes
      <4> HIDE DEF l, t, u, h
      <4>2. QED
        BY <2>3, <3>2, <4>1
    <3>5. h * u \in Nat
      BY <2>3
    <3>6. q * u <= a /\ a < (q + 1) * u
      BY <2>1
    <3>7. n = q * u \/ n = (q + 1) * u
      BY <2>1
    <3> HIDE DEF u, h, t, l
    <3>8. ~(a <= m)
      BY <1>1, <3>2, <3>3, <3>4, <3>5
    <3>9. h * u < (q + 1) * u
      BY <2>3, <2>4, <3>2, <3>4, <3>5, <3>6
    <3>10. ~(q + 1 <= h)
      BY <2>3, <2>4, <3>9, TimesMonotonic
    <3>11. h <= q
      BY <2>3, <2>4, <3>10
    <3>12. h * u <= q * u /\ q * u <= (q + 1) * u
      BY <2>3, <2>4, <3>11, TimesMonotonic
    <3>13. n >= m
      BY <1>1, <2>3, <2>4, <3>3, <3>4, <3>5, <3>7, <3>12
    <3>14. QED
      BY <1>1, <1>3, <2>1, <3>8, <3>13
  <2>7. QED
    BY <2>5, <2>6, Bits
<1>6. QED
  BY <1>2, <1>4, <1>5

\* Rounding finds a magnitude, or infinity.
LEMMA NearestRange ==
    ASSUME NEW a \in Nat
    PROVE  Nearest(a) \in Magnitudes \cup {Infinite}
<1>1. CASE a >= TwoTo[P] * Bit(EMax)
  BY <1>1 DEF Nearest
<1>2. CASE a < TwoTo[P] * Bit(EMax)
  <2>1. PICK e \in EMin..EMax, q \in 0..(TwoTo[P] - 1), n \in Nat :
              /\ q * Bit(e) <= a /\ a < (q + 1) * Bit(e)
              /\ e = EMin \/ a >= TwoTo[P] * Bit(e - 1)
              /\ n = q * Bit(e) \/ (n = (q + 1) * Bit(e) /\ a # q * Bit(e))
              /\ Nearest(a) = IF n > MaxDouble THEN Infinite ELSE n
    BY <1>2, Rounding
  <2>2. TwoTo[P] \in Nat \ {0, 1, 2, 3} /\ MaxDouble \in Nat /\ MaxDouble < TwoTo[P] * Bit(EMax)
    BY MagnitudeParts, Significands
  <2>3. CASE n = q * Bit(e)
    BY <2>1, <2>3, MagnitudeParts
  <2>4. CASE n = (q + 1) * Bit(e) /\ q + 1 \in 0..(TwoTo[P] - 1)
    BY <2>1, <2>4, MagnitudeParts
  <2>5. CASE n = (q + 1) * Bit(e) /\ q + 1 = TwoTo[P] /\ e = EMax
    BY <2>1, <2>2, <2>5
  <2>6. CASE n = (q + 1) * Bit(e) /\ q + 1 = TwoTo[P] /\ e # EMax
    <3>1. e + 1 \in (EMin + 1)..EMax /\ (e + 1) - 1 = e /\ e + 1 \in EMin..EMax
      BY <2>6, Bits
    <3> DEFINE h == TwoTo[P - 1]
               u == Bit(e)
               w == Bit(e + 1)
    <3>2. w = 2 * u /\ u \in Nat
      BY <3>1, Bits
    <3>3. h \in Nat \ {0} /\ TwoTo[P] = 2 * h
      BY Significands
    <3>4. h \in 0..(TwoTo[P] - 1)
      BY <2>2, <3>3
    <3>5. n = TwoTo[P] * u
      BY <2>6
    <3>6. h * w \in Magnitudes
      BY <3>1, <3>4, MagnitudeParts
    <3> HIDE DEF h, u, w
    <3>7. (h * 2) * u = h * (2 * u) /\ h * 2 = 2 * h
      BY <3>2, <3>3, TimesAssociative, TimesCommutes
    <3>8. n = h * w
      BY <3>2, <3>3, <3>5, <3>7
    <3>9. QED
      BY <2>1, <3>6, <3>8
  <2>7. q + 1 \in 0..(TwoTo[P] - 1) \/ q + 1 = TwoTo[P]
    BY <2>2
  <2>8. QED
    BY <2>1, <2>3, <2>4, <2>5, <2>6, <2>7
<1>3. QED
  <2>1. TwoTo[P] * Bit(EMax) \in Nat
    <3>1. EMax \in EMin..EMax
      BY Bits
    <3>2. TwoTo[P] \in Nat /\ Bit(EMax) \in Nat
      BY <3>1, Bits, Significands
    <3>3. QED
      BY <3>2
  <2>2. QED
    BY <1>1, <1>2, <2>1

\* A magnitude is its own rounding; other names for the values there are.
LEMMA NearestIdentity ==
    \A a \in Magnitudes : a \in Nat /\ Nearest(a) = a
<1> TAKE a \in Magnitudes
<1>1. a \in Nat /\ a <= MaxDouble /\ MaxDouble \in Nat
  BY MagnitudeParts
<1>2. a <= a /\ a >= a
  BY <1>1
<1>3. Nearest(a) <= a /\ Nearest(a) >= a
  BY <1>1, <1>2, NearestBetween
<1>4. Nearest(a) \in Nat
  <2>1. Nearest(a) \in Magnitudes \cup {Infinite}
    BY <1>1, NearestRange
  <2>2. Infinite \in Nat
    BY <1>1 DEF Infinite
  <2>3. \A b \in Magnitudes : b \in Nat
    BY MagnitudeParts
  <2>4. QED
    BY <2>1, <2>2, <2>3
<1>5. QED
  BY <1>1, <1>3, <1>4

LEMMA Floats ==
    /\ \A v \in Int : Float(v) \in Doubles \cup {Infinite, -Infinite}
    /\ \A x \in Doubles : x \in Int /\ x \notin NonFinite /\ Float(x) = x /\ Abs(x) \in Magnitudes
    /\ 0 \in Doubles /\ One \in Doubles
<1>1. MaxDouble \in Nat \ {0} /\ \A a \in Magnitudes : a \in Nat /\ a <= MaxDouble
  BY MagnitudeParts
<1>2. ASSUME NEW v \in Int PROVE Float(v) \in Doubles \cup {Infinite, -Infinite}
  <2>1. Abs(v) \in Nat
    BY DEF Abs
  <2>2. Nearest(Abs(v)) \in Magnitudes \cup {Infinite}
    BY <2>1, NearestRange
  <2>3. QED
    BY <2>2 DEF Float, Signed, Doubles
<1>3. ASSUME NEW x \in Doubles
      PROVE  x \in Int /\ x \notin NonFinite /\ Float(x) = x /\ Abs(x) \in Magnitudes
  <2>1. PICK a \in Magnitudes : x = a \/ x = -a
    BY DEF Doubles
  <2>2. a \in Nat /\ a <= MaxDouble /\ Nearest(a) = a
    BY <1>1, NearestIdentity
  <2>3. Abs(x) = a /\ x \in Int
    BY <2>1, <2>2 DEF Abs
  <2>4. Float(x) = x
    BY <2>1, <2>2, <2>3 DEF Float, Signed
  <2>5. x \notin NonFinite
    BY <1>1, <2>1, <2>2 DEF NonFinite, Infinite, NaN
  <2>6. QED
    BY <2>3, <2>4, <2>5
<1>4. 0 \in Doubles /\ One \in Doubles
  BY MagnitudeParts DEF Doubles
<1>5. QED
  BY <1>2, <1>3, <1>4

-----------------------------------------------------------------------------
(* Spelling.                                                               *)

\* The quantities that Width decimal places hold.
Written == 1..(TenTo[Width] - 1)

LEMMA WrittenIs ==
    /\ Width \in Nat \ {0} /\ TenTo[Width] \in Nat
    /\ \A c : c \in Written <=> c \in Nat /\ 0 < c /\ c < TenTo[Width]
<1>1. Width \in Nat \ {0} /\ TenTo[Width] \in Nat
  <2>1. Width \in Nat \ {0}
    BY FracPlaces
  <2>2. Width \in 0..Width
    BY <2>1
  <2>3. QED
    BY <2>1, <2>2, TenToGrows
<1>2. QED
  BY <1>1 DEF Written

\* The length of a text: the least power above it.
LEMMA Lengths ==
    ASSUME NEW c \in Written
    PROVE  /\ Length(c) \in 1..Width
           /\ \A j \in 0..Width : c < TenTo[j] <=> Length(c) <= j
<1> DEFINE Is(l) == c < TenTo[l] /\ (l = 1 \/ c >= TenTo[l - 1])
           Above == {l \in 1..Width : c < TenTo[l]}
<1>1. c \in Nat /\ 0 < c /\ c < TenTo[Width] /\ Width \in Nat \ {0}
  BY WrittenIs
<1>2. Width \in Above /\ Above \in SUBSET Nat
  BY <1>1
<1>3. \A l \in 1..Width : l \in Above <=> c < TenTo[l]
  OBVIOUS
<1>4. \A l \in Above : l \in 1..Width
  OBVIOUS
<1> HIDE DEF Above
<1>5. PICK m \in Above : \A l \in Above : m <= l
  BY <1>2, LeastElement
<1>6. m \in 1..Width /\ c < TenTo[m]
  BY <1>3, <1>4
<1>7. ASSUME m # 1 PROVE c >= TenTo[m - 1]
  <2>1. m - 1 \in 1..Width /\ m - 1 \notin Above /\ m - 1 \in 0..Width
    BY <1>1, <1>4, <1>5, <1>7
  <2>2. ~(c < TenTo[m - 1]) /\ TenTo[m - 1] \in Nat
    BY <1>3, <2>1, TenToGrows
  <2>3. QED
    BY <1>1, <2>2
<1>8. Is(m)
  BY <1>6, <1>7
<1>9. Length(c) = CHOOSE l \in 1..Width : Is(l)
  BY DEF Length
<1> HIDE DEF Is
<1>10. Length(c) \in 1..Width /\ Is(Length(c))
  BY <1>6, <1>8, <1>9
<1> DEFINE l == Length(c)
<1>11. l \in 1..Width /\ c < TenTo[l] /\ (l = 1 \/ c >= TenTo[l - 1])
  BY <1>10 DEF Is
<1> HIDE DEF l
<1>12. ASSUME NEW j \in 0..Width, l <= j PROVE c < TenTo[j]
  <2>1. l \in 0..Width /\ j \in l..Width /\ j \in 0..Width
    BY <1>11, <1>12
  <2>2. TenTo[l] <= TenTo[j] /\ TenTo[l] \in Nat /\ TenTo[j] \in Nat
    BY <2>1, TenToGrows
  <2>3. QED
    BY <1>1, <1>11, <2>2
<1>13. ASSUME NEW j \in 0..Width, c < TenTo[j] PROVE l <= j
  <2>1. SUFFICES ASSUME ~(l <= j) PROVE FALSE
    OBVIOUS
  <2>2. CASE l = 1
    <3>1. j = 0
      BY <2>1, <2>2
    <3>2. QED
      BY <1>1, <1>13, <3>1, TenToGrows
  <2>3. CASE l # 1
    <3>1. l - 1 \in 0..Width /\ l - 1 \in j..Width /\ j \in 0..Width
      BY <1>1, <1>11, <2>1, <2>3
    <3>2. TenTo[j] <= TenTo[l - 1] /\ TenTo[j] \in Nat /\ TenTo[l - 1] \in Nat
      BY <3>1, TenToGrows
    <3>3. QED
      BY <1>1, <1>11, <1>13, <2>3, <3>2
  <2>4. QED
    BY <2>2, <2>3
<1>14. QED
  BY <1>11, <1>12, <1>13 DEF l

\* What a power divides, the ones below it divide.
LEMMA DividesBelow ==
    ASSUME NEW c \in Nat, NEW j \in 0..Width, NEW k \in j..Width, c % TenTo[k] = 0
    PROVE  c % TenTo[j] = 0
<1>1. k \in 0..Width
  OBVIOUS
<1>2. TenTo[k] \in Nat \ {0} /\ TenTo[j] \in Nat \ {0}
  BY <1>1, TenToGrows
<1>3. PICK q \in Nat \ {0} : TenTo[k] = q * TenTo[j]
  BY TenToGrows
<1>4. PICK p \in Nat : c = p * TenTo[k]
  BY <1>2, DividesIff
<1>5. c = (p * q) * TenTo[j] /\ p * q \in Nat
  BY <1>2, <1>3, <1>4, TimesAssociative
<1>6. QED
  BY <1>2, <1>5, Multiples

\* The zeros at its end: the greatest power that divides it.
LEMMA ZerosAre ==
    ASSUME NEW c \in Written
    PROVE  /\ Zeros(c) \in 0..(Width - 1)
           /\ \A j \in 0..Width : c % TenTo[j] = 0 <=> j <= Zeros(c)
           /\ Zeros(c) < Length(c)
<1> DEFINE Is(z) == c % TenTo[z] = 0 /\ c % TenTo[z + 1] # 0
           Ends == {z \in 0..(Width - 1) : c % TenTo[z + 1] # 0}
<1>1. c \in Nat /\ 0 < c /\ c < TenTo[Width] /\ Width \in Nat \ {0} /\ TenTo[Width] \in Nat
  BY WrittenIs
<1>2. Width - 1 \in Ends
  <2>1. Width - 1 \in 0..(Width - 1) /\ (Width - 1) + 1 = Width
    BY <1>1
  <2>2. c % TenTo[Width] = c
    <3> DEFINE t == TenTo[Width]
    <3>1. t \in Nat /\ c < t
      BY <1>1
    <3> HIDE DEF t
    <3>2. c % t = c
      BY <1>1, <3>1
    <3>3. QED
      BY <3>2 DEF t
  <2>3. QED
    BY <1>1, <2>1, <2>2
<1>3. Ends \in SUBSET Nat /\ \A z \in Ends : z \in 0..(Width - 1) /\ c % TenTo[z + 1] # 0
  BY <1>1
<1>4. \A z \in 0..(Width - 1) : z \notin Ends => c % TenTo[z + 1] = 0
  OBVIOUS
<1> HIDE DEF Ends
<1>5. PICK m \in Ends : \A z \in Ends : m <= z
  BY <1>2, <1>3, LeastElement
<1>6. m \in 0..(Width - 1) /\ c % TenTo[m + 1] # 0
  BY <1>3
<1>7. c % TenTo[m] = 0
  <2>1. CASE m = 0
    <3>1. TenTo[0] = 1
      BY TenToGrows
    <3>2. c % 1 = 0
      BY <1>1
    <3>3. QED
      BY <2>1, <3>1, <3>2
  <2>2. CASE m # 0
    <3>1. m - 1 \in 0..(Width - 1) /\ m - 1 \notin Ends /\ (m - 1) + 1 = m
      BY <1>1, <1>3, <1>5, <2>2
    <3>2. QED
      BY <1>4, <3>1
  <2>3. QED
    BY <2>1, <2>2
<1>8. Is(m)
  BY <1>6, <1>7
<1>9. Zeros(c) = CHOOSE z \in 0..(Width - 1) : Is(z)
  BY DEF Zeros
<1> HIDE DEF Is
<1>10. Zeros(c) \in 0..(Width - 1) /\ Is(Zeros(c))
  BY <1>6, <1>8, <1>9
<1> DEFINE z == Zeros(c)
<1>11. z \in 0..(Width - 1) /\ c % TenTo[z] = 0 /\ c % TenTo[z + 1] # 0
  BY <1>10 DEF Is
<1> HIDE DEF z
<1>12. ASSUME NEW j \in 0..Width, j <= z PROVE c % TenTo[j] = 0
  <2>1. z \in j..Width
    BY <1>1, <1>11, <1>12
  <2>2. QED
    BY <1>1, <1>11, <2>1, DividesBelow
<1>13. ASSUME NEW j \in 0..Width, c % TenTo[j] = 0 PROVE j <= z
  <2>1. SUFFICES ASSUME ~(j <= z) PROVE FALSE
    OBVIOUS
  <2>2. z + 1 \in 0..Width /\ j \in (z + 1)..Width
    BY <1>1, <1>11, <2>1
  <2>3. c % TenTo[z + 1] = 0
    BY <1>1, <1>13, <2>2, DividesBelow
  <2>4. QED
    BY <1>11, <2>3
<1>14. z < Length(c)
  <2>1. z \in 0..Width /\ TenTo[z] \in Nat \ {0}
    BY <1>1, <1>11, TenToGrows
  <2>2. PICK p \in Nat : c = p * TenTo[z]
    BY <1>1, <1>11, <2>1, DividesIff
  <2>3. ~(c < TenTo[z])
    BY <1>1, <2>1, <2>2
  <2>4. ~(Length(c) <= z) /\ Length(c) \in 1..Width
    BY <2>1, <2>3, Lengths
  <2>5. QED
    BY <1>11, <2>4
<1>15. QED
  BY <1>11, <1>12, <1>13, <1>14 DEF z

\* The texts that are read back as a, and the choice among them.
Cut(a, z) == (a \div TenTo[z]) * TenTo[z]
Near(a) == {c \in UNION {{Cut(a, z), Cut(a, z) + TenTo[z]} : z \in 0..(Width - 1)} :
               c > 0 /\ Nearest(c) = a}
Fewest(a) == {c \in Near(a) : \A d \in Near(a) : Digits(c) <= Digits(d)}

\* The double itself is such a text, and all of them can be written down.
LEMMA NearWritten ==
    ASSUME NEW a \in Magnitudes \ {0}
    PROVE  /\ a \in Near(a)
           /\ \A c \in Near(a) : c \in Written /\ c \in Nat \ {0} /\ Nearest(c) = a
<1>1. a \in Nat \ {0} /\ Nearest(a) = a /\ a <= MaxDouble /\ MaxDouble \in Nat
  BY NearestIdentity, MagnitudeParts
<1>2. Width \in Nat \ {0} /\ 0 \in 0..(Width - 1)
  BY FracPlaces
<1>3. Cut(a, 0) = a
  <2>1. TenTo[0] = 1
    BY TenToGrows
  <2>2. (a \div 1) * 1 = a
    BY <1>1
  <2>3. QED
    BY <2>1, <2>2 DEF Cut
<1>4. a \in Near(a)
  BY <1>1, <1>2, <1>3 DEF Near
<1>5. ASSUME NEW c \in Near(a)
      PROVE  c \in Written /\ c \in Nat \ {0} /\ Nearest(c) = a
  <2>1. c > 0 /\ Nearest(c) = a
    BY DEF Near
  <2>2. PICK z \in 0..(Width - 1) : c = Cut(a, z) \/ c = Cut(a, z) + TenTo[z]
    BY DEF Near
  <2>3. TenTo[z] \in Nat \ {0}
    BY <1>2, <2>2, TenToGrows
  <2>4. a \div TenTo[z] \in Nat
    BY <1>1, <2>3, Division
  <2>5. Cut(a, z) \in Nat
    BY <2>3, <2>4 DEF Cut
  <2>6. c \in Nat \ {0}
    BY <2>1, <2>2, <2>3, <2>5
  <2>7. TwoTo[P] * Bit(EMax) \in Nat
    <3>1. EMax \in EMin..EMax
      BY Bits
    <3>2. TwoTo[P] \in Nat /\ Bit(EMax) \in Nat
      BY <3>1, Bits, Significands
    <3>3. QED
      BY <3>2
  <2>8. ~(c >= TwoTo[P] * Bit(EMax))
    <3>1. SUFFICES ASSUME c >= TwoTo[P] * Bit(EMax) PROVE FALSE
      OBVIOUS
    <3>2. Nearest(c) = MaxDouble + 1
      BY <3>1 DEF Nearest, Infinite
    <3>3. QED
      BY <1>1, <2>1, <3>2
  <2>9. c < TenTo[Width]
    BY <2>6, <2>7, <2>8, Significands, WrittenIs
  <2>10. QED
    BY <2>1, <2>6, <2>9, WrittenIs
<1>6. QED
  BY <1>4, <1>5

\* So Repr chooses what its definition asks for.
LEMMA ShortestIs ==
    ASSUME NEW a \in Magnitudes \ {0}
    PROVE  /\ Repr[a] \in Fewest(a)
           /\ \A d \in Fewest(a) : Abs(Repr[a] - a) <= Abs(d - a)
<1>1. /\ a \in Near(a) /\ a \in Nat
      /\ \A c \in Near(a) : c \in Written /\ c \in Nat \ {0} /\ Nearest(c) = a
  BY NearWritten, NearestIdentity
<1>2. Width \in Nat \ {0}
  BY FracPlaces
<1>3. \A c \in Near(a) : Digits(c) \in Nat
  BY <1>1, <1>2, Lengths, ZerosAre DEF Digits
<1>4. Fewest(a) # {}
  <2> DEFINE counts == {Digits(c) : c \in Near(a)}
  <2>1. counts \in SUBSET Nat /\ counts # {}
    BY <1>1, <1>3
  <2>2. \A c \in Near(a) : Digits(c) \in counts
    OBVIOUS
  <2>3. \A k \in counts : \E c \in Near(a) : k = Digits(c)
    OBVIOUS
  <2> HIDE DEF counts
  <2>4. PICK k \in counts : \A n \in counts : k <= n
    BY <2>1, LeastElement
  <2>5. PICK c \in Near(a) : k = Digits(c)
    BY <2>3
  <2>6. c \in Fewest(a)
    BY <2>2, <2>4, <2>5 DEF Fewest
  <2>7. QED
    BY <2>6
<1>5. \A c \in Fewest(a) : Abs(c - a) \in Nat
  BY <1>1 DEF Fewest, Abs
<1> DEFINE Best(c) == \A d \in Fewest(a) : Abs(c - a) <= Abs(d - a)
<1>6. \E c \in Fewest(a) : Best(c)
  <2> DEFINE gaps == {Abs(c - a) : c \in Fewest(a)}
  <2>1. gaps \in SUBSET Nat /\ gaps # {}
    BY <1>4, <1>5
  <2>2. \A c \in Fewest(a) : Abs(c - a) \in gaps
    OBVIOUS
  <2>3. \A k \in gaps : \E c \in Fewest(a) : k = Abs(c - a)
    OBVIOUS
  <2> HIDE DEF gaps
  <2>4. PICK k \in gaps : \A n \in gaps : k <= n
    BY <2>1, LeastElement
  <2>5. PICK c \in Fewest(a) : k = Abs(c - a)
    BY <2>3
  <2>6. Best(c)
    BY <2>2, <2>4, <2>5
  <2>7. QED
    BY <2>6
<1>7. Repr[a] = Shortest(a)
  BY DEF Repr
<1>8. Shortest(a) = CHOOSE c \in Fewest(a) : Best(c)
  BY DEF Shortest, Fewest, Near, Cut
<1>9. Shortest(a) \in Fewest(a) /\ Best(Shortest(a))
  <2> HIDE DEF Best
  <2>1. QED
    BY <1>6, <1>8
<1>10. QED
  BY <1>7, <1>9

\* The safe integers are magnitudes.
LEMMA SafeMagnitude ==
    ASSUME NEW j \in Nat, j * One < TwoTo[P] * One
    PROVE  j * One \in Magnitudes
<1>1. One \in Nat \ {0} /\ TwoTo[P] \in Nat \ {0, 1, 2, 3} /\ 0 \in EMin..EMax /\ Bit(0) = One
  BY FracPlaces, Significands, Bits
<1> DEFINE t == TwoTo[P]
<1>2. t \in Nat /\ One \in Nat /\ j * One < t * One /\ j * One \in Nat /\ t * One \in Nat
  BY <1>1
<1> HIDE DEF t
<1>3. ~(t <= j)
  <2>1. SUFFICES ASSUME t <= j PROVE FALSE
    OBVIOUS
  <2>2. t * One <= j * One
    BY <1>2, <2>1, TimesMonotonic
  <2>3. QED
    BY <1>2, <2>2
<1>4. j \in 0..(TwoTo[P] - 1)
  BY <1>1, <1>2, <1>3 DEF t
<1>5. QED
  BY <1>1, <1>4, MagnitudeParts

\* No shorter text is read back as a safe integer: repr writes it out.
LEMMA SafeVerbatim ==
    ASSUME NEW i \in Nat \ {0}, i * One < TwoTo[P] * One
    PROVE  i * One \in Magnitudes \ {0} /\ Repr[i * One] = i * One
<1> DEFINE a == i * One
<1>1. One \in Nat \ {0} /\ Frac \in 1..Width /\ Width \in Nat \ {0} /\ One = TenTo[Frac]
  BY FracPlaces DEF One
<1>2. a \in Magnitudes \ {0} /\ a \in Nat \ {0} /\ a < TwoTo[P] * One /\ TwoTo[P] * One \in Nat
  <2>1. TwoTo[P] \in Nat
    BY Significands
  <2>2. a \in Nat \ {0} /\ TwoTo[P] * One \in Nat
    BY <1>1, <2>1, TimesPositive
  <2>3. QED
    BY <2>2, SafeMagnitude
<1>3. a % One = 0
  BY <1>1, Multiples
<1> HIDE DEF a
<1>4. /\ a \in Near(a)
      /\ \A c \in Near(a) : c \in Written /\ c \in Nat \ {0} /\ Nearest(c) = a
  BY <1>2, NearWritten
<1> DEFINE la == Length(a)
           za == Zeros(a)
<1>5. /\ la \in 1..Width /\ za \in 0..(Width - 1) /\ za < la /\ Digits(a) = la - za
      /\ Frac <= za
  <2>1. a \in Written
    BY <1>4
  <2>2. a % TenTo[Frac] = 0 /\ Frac \in 0..Width
    BY <1>1, <1>3
  <2>3. QED
    BY <2>1, <2>2, Lengths, ZerosAre DEF Digits
<1>6. \A j \in 0..Width : a < TenTo[j] <=> la <= j
  BY <1>4, Lengths
<1> HIDE DEF la, za
<1>7. ASSUME NEW c \in Near(a), Digits(c) < Digits(a) PROVE FALSE
  <2>1. c \in Written /\ c \in Nat \ {0} /\ Nearest(c) = a
    BY <1>4
  <2> DEFINE lc == Length(c)
             zc == Zeros(c)
  <2>2. /\ lc \in 1..Width /\ zc \in 0..(Width - 1) /\ zc < lc /\ Digits(c) = lc - zc
        /\ \A j \in 0..Width : c < TenTo[j] <=> lc <= j
        /\ \A j \in 0..Width : c % TenTo[j] = 0 <=> j <= zc
    BY <2>1, Lengths, ZerosAre DEF Digits
  <2> HIDE DEF lc, zc
  <2>3. CASE c % One = 0
    <3>1. PICK j \in Nat : c = j * One
      BY <1>1, <2>1, <2>3, DividesIff
    <3>2. CASE c < TwoTo[P] * One
      <4>1. c \in Magnitudes
        BY <3>1, <3>2, SafeMagnitude
      <4>2. c = a
        BY <2>1, <4>1, NearestIdentity
      <4>3. Digits(a) \in Int
        BY <1>5
      <4>4. QED
        BY <1>7, <4>2, <4>3
    <3>3. CASE c >= TwoTo[P] * One /\ EMax = 0
      <4>1. c >= TwoTo[P] * Bit(EMax)
        BY <3>3, Bits
      <4>2. Nearest(c) = MaxDouble + 1
        BY <4>1 DEF Nearest, Infinite
      <4>3. a <= MaxDouble /\ MaxDouble \in Nat
        BY <1>2, MagnitudeParts
      <4>4. QED
        BY <1>2, <2>1, <4>2, <4>3
    <3>4. CASE c >= TwoTo[P] * One /\ EMax # 0
      <4> DEFINE h == TwoTo[P - 1]
      <4>1. 1 \in (EMin + 1)..EMax /\ 1 \in EMin..EMax /\ 1 - 1 = 0
        BY <3>4, Bits
      <4>2. Bit(1) = 2 * One
        BY <4>1, Bits
      <4>3. h \in Nat \ {0} /\ TwoTo[P] = 2 * h /\ h \in 0..(TwoTo[P] - 1)
        BY Significands
      <4>4. h * Bit(1) \in Magnitudes
        BY <4>1, <4>3, MagnitudeParts
      <4>5. h * Bit(1) = TwoTo[P] * One
        <5> HIDE DEF h
        <5>1. (h * 2) * One = h * (2 * One) /\ h * 2 = 2 * h
          BY <1>1, <4>3, TimesAssociative, TimesCommutes
        <5>2. QED
          BY <4>2, <4>3, <5>1
      <4>6. TwoTo[P] * One \in Magnitudes
        BY <4>4, <4>5
      <4>7. Nearest(c) >= TwoTo[P] * One
        BY <2>1, <3>4, <4>6, NearestBetween
      <4>8. QED
        BY <1>2, <2>1, <4>7
    <3>5. QED
      BY <1>2, <2>1, <3>2, <3>3, <3>4
  <2>4. CASE c % One # 0
    <3>1. ~(Frac <= zc)
      BY <1>1, <2>2, <2>4
    <3>2. lc <= la - 2 /\ la - 2 \in 0..Width
      BY <1>1, <1>5, <1>7, <2>2, <3>1
    <3>3. CASE la - 2 >= Frac
      <4> DEFINE t == TenTo[la - 2]
      <4>1. la - 2 \in Frac..Width /\ la - 1 \in 0..Width /\ la - 1 \in (la - 2)..Width
            /\ la - 2 < la - 1
        BY <1>1, <1>5, <3>2, <3>3
      <4>2. Frac \in 0..Width
        BY <1>1
      <4>3. PICK q \in Nat \ {0} : t = q * One
        BY <1>1, <4>1, <4>2, TenToGrows
      <4>4. t \in Nat /\ TenTo[la - 1] \in Nat /\ t < TenTo[la - 1]
        BY <3>2, <4>1, TenToGrows
      <4>5. c < t
        BY <2>2, <3>2
      <4>6. ~(a < TenTo[la - 1])
        <5>1. ~(la <= la - 1)
          BY <1>5
        <5>2. QED
          BY <1>6, <4>1, <5>1
      <4> HIDE DEF t
      <4>7. t < a
        BY <1>2, <4>4, <4>6
      <4>8. t \in Magnitudes
        BY <1>2, <4>3, <4>4, <4>7, SafeMagnitude
      <4>9. Nearest(c) <= t
        BY <2>1, <4>4, <4>5, <4>8, NearestBetween
      <4>10. QED
        BY <1>2, <2>1, <4>4, <4>7, <4>9
    <3>4. CASE la - 2 < Frac
      BY <1>1, <1>5, <1>7, <2>2, <3>2, <3>4
    <3>5. QED
      BY <1>1, <1>5, <3>3, <3>4
  <2>5. QED
    BY <2>3, <2>4
<1>8. \A c \in Near(a) : Digits(c) \in Nat
  BY <1>1, <1>4, Lengths, ZerosAre DEF Digits
<1>9. a \in Fewest(a)
  BY <1>4, <1>7, <1>8 DEF Fewest
<1>10. Repr[a] \in Fewest(a) /\ Abs(Repr[a] - a) <= Abs(a - a)
  BY <1>2, <1>9, ShortestIs
<1>11. Repr[a] \in Nat
  BY <1>4, <1>10 DEF Fewest
<1>12. Repr[a] = a
  BY <1>2, <1>10, <1>11 DEF Abs
<1>13. QED
  BY <1>2, <1>12 DEF a

\* The conditions of the layouts, in terms of the quantity.
LEMMA LayoutIs ==
    ASSUME NEW c \in Written
    PROVE  /\ Digits(c) <= PointAt(c) <=> c % One = 0
           /\ PointAt(c) <= Plain <=> c < TenTo[Plain + Frac]
           /\ Small < PointAt(c) <=> TenTo[Small + Frac] <= c
           /\ c % One = 0 => TenTo[Small + Frac] <= c
<1>1. /\ Width \in Nat \ {0} /\ Frac \in 1..Width
      /\ Plain + Frac \in Frac..Width /\ Small + Frac \in 0..(Frac - 1)
      /\ One = TenTo[Frac] /\ Plain \in Nat /\ Small \in Int
  BY FracPlaces, FormatAssumption DEF One
<1>2. Frac \in 0..Width /\ Plain + Frac \in 0..Width /\ Small + Frac \in 0..Width
      /\ Frac \in (Small + Frac)..Width
  BY <1>1
<1>3. c \in Nat /\ 0 < c
  BY WrittenIs
<1>4. /\ Length(c) \in 1..Width /\ Zeros(c) \in 0..(Width - 1)
      /\ \A j \in 0..Width : c < TenTo[j] <=> Length(c) <= j
      /\ \A j \in 0..Width : c % TenTo[j] = 0 <=> j <= Zeros(c)
  BY Lengths, ZerosAre
<1>5. Digits(c) <= PointAt(c) <=> c % One = 0
  BY <1>1, <1>2, <1>4 DEF Digits, PointAt
<1>6. PointAt(c) <= Plain <=> c < TenTo[Plain + Frac]
  <2>1. PointAt(c) <= Plain <=> Length(c) <= Plain + Frac
    BY <1>1, <1>4 DEF PointAt
  <2>2. QED
    BY <1>2, <1>4, <2>1
<1>7. TenTo[Small + Frac] \in Nat \ {0} /\ TenTo[Frac] \in Nat \ {0}
  BY <1>2, TenToGrows
<1>8. Small < PointAt(c) <=> TenTo[Small + Frac] <= c
  <2>1. Small < PointAt(c) <=> ~(Length(c) <= Small + Frac)
    BY <1>1, <1>4 DEF PointAt
  <2>2. c < TenTo[Small + Frac] <=> Length(c) <= Small + Frac
    BY <1>2, <1>4
  <2>3. QED
    BY <1>3, <1>7, <2>1, <2>2
<1>9. ASSUME c % One = 0 PROVE TenTo[Small + Frac] <= c
  <2>1. PICK q \in Nat : c = q * One
    BY <1>1, <1>3, <1>7, <1>9, DividesIff
  <2>2. One <= c
    BY <1>1, <1>3, <1>7, <2>1
  <2>3. TenTo[Small + Frac] <= One
    BY <1>1, <1>2, TenToGrows
  <2>4. QED
    BY <1>1, <1>3, <1>7, <2>2, <2>3
<1>10. QED
  BY <1>5, <1>6, <1>8, <1>9

\* The shortest text is read back as what was written.
LEMMA ReprReads ==
    ASSUME NEW x \in Doubles \ {0}
    PROVE  /\ Abs(x) \in Magnitudes \ {0} /\ Repr[Abs(x)] \in Written
           /\ Signed(x, Repr[Abs(x)]) \in Int
           /\ Float(Signed(x, Repr[Abs(x)])) = x
           /\ Repr[Abs(x)] % One = 0 => \E k \in Int : Signed(x, Repr[Abs(x)]) = k * One
<1> DEFINE a == Abs(x)
           c == Repr[a]
           s == Signed(x, c)
<1>1. x \in Int /\ a \in Magnitudes \ {0} /\ a \in Nat \ {0}
  <2>1. x \in Int /\ x # 0 /\ a \in Magnitudes
    BY Floats
  <2>2. a \in Nat \ {0}
    BY <2>1 DEF Abs
  <2>3. QED
    BY <2>1, <2>2
<1> HIDE DEF a
<1>2. c \in Written /\ c \in Nat \ {0} /\ Nearest(c) = a
  <2>1. c \in Near(a)
    BY <1>1, ShortestIs DEF Fewest
  <2>2. QED
    BY <1>1, <2>1, NearWritten
<1> HIDE DEF c
<1>3. s \in Int /\ Abs(s) = c /\ (s < 0 <=> x < 0)
  BY <1>1, <1>2 DEF Signed, Abs
<1>4. Float(s) = Signed(x, a)
  BY <1>2, <1>3 DEF Float, Signed
<1>5. Signed(x, a) = x
  BY <1>1 DEF Signed, Abs, a
<1>6. ASSUME c % One = 0 PROVE \E k \in Int : s = k * One
  <2>1. One \in Nat \ {0}
    BY FracPlaces
  <2>2. PICK q \in Nat : c = q * One
    BY <1>2, <1>6, <2>1, DividesIff
  <2>3. s = q * One \/ s = (-q) * One
    BY <2>1, <2>2 DEF Signed
  <2>4. QED
    BY <2>3
<1>7. QED
  BY <1>1, <1>2, <1>3, <1>4, <1>5, <1>6 DEF a, c

\* ECMAScript spells every double as the core does.
LEMMA LayoutsAgree ==
    \A x \in Doubles \cup NonFinite : JcsDouble(x) = Es6(x)
<1> TAKE x \in Doubles \cup NonFinite
<1>1. CASE x \in NonFinite \/ x = 0
  BY <1>1 DEF JcsDouble, Es6
<1>2. CASE x \notin NonFinite /\ x # 0
  <2> DEFINE c == Repr[Abs(x)]
             plain == TenTo[Small + Frac] <= c /\ c < TenTo[Plain + Frac]
  <2>1. c \in Written
    BY <1>2, ReprReads
  <2>2. JcsDouble(x) = Literal(Layout(Digits(c), PointAt(c)), Signed(x, c))
    BY <1>2 DEF JcsDouble
  <2>3. Es6(x) = Literal(IF ~plain THEN "exponent" ELSE IF c % One = 0 THEN "integer" ELSE "fraction",
                         Signed(x, c))
    BY <1>2 DEF Es6
  <2> HIDE DEF c
  <2>4. Layout(Digits(c), PointAt(c)) =
          IF ~plain THEN "exponent" ELSE IF c % One = 0 THEN "integer" ELSE "fraction"
    BY <2>1, LayoutIs DEF Layout
  <2>5. QED
    BY <2>2, <2>3, <2>4
<1>3. QED
  BY <1>1, <1>2

\* What reading a canonical number gives: the double that was written.
LEMMA JcsReads ==
    \A x \in Doubles :
        \E f \in {"integer", "fraction", "exponent"}, s \in Int :
            /\ JcsDouble(x) = Literal(f, s) /\ Float(s) = x
            /\ f = "integer" => \E k \in Int : s = k * One
<1> TAKE x \in Doubles
<1>1. x \notin NonFinite /\ Float(x) = x
  BY Floats
<1>2. CASE x = 0
  <2>1. JcsDouble(x) = Literal("integer", 0)
    BY <1>1, <1>2 DEF JcsDouble
  <2>2. 0 = 0 * One
    BY FracPlaces
  <2>3. QED
    BY <1>1, <1>2, <2>1, <2>2
<1>3. CASE x # 0
  <2> DEFINE c == Repr[Abs(x)]
             s == Signed(x, c)
             f == Layout(Digits(c), PointAt(c))
  <2>1. c \in Written /\ s \in Int /\ Float(s) = x /\ (c % One = 0 => \E k \in Int : s = k * One)
    BY <1>3, ReprReads
  <2>2. JcsDouble(x) = Literal(f, s)
    BY <1>1, <1>3 DEF JcsDouble
  <2> HIDE DEF c, s
  <2>3. f \in {"integer", "fraction", "exponent"} /\ (f = "integer" => c % One = 0)
    BY <2>1, LayoutIs DEF Layout
  <2> HIDE DEF f
  <2>4. QED
    BY <2>1, <2>2, <2>3
<1>4. QED
  BY <1>2, <1>3

\* Safe integers are exact, and written verbatim.
LEMMA SafeSpelled ==
    ASSUME NEW k \in Int, Safe(k * One)
    PROVE  /\ k * One \in Doubles /\ Float(k * One) = k * One
           /\ JcsDouble(k * One) = Literal("integer", k * One)
<1> DEFINE n == k * One
<1>1. One \in Nat \ {0} /\ TwoTo[P] * One <= TenTo[Plain + Frac] /\ TwoTo[P] * One \in Nat
      /\ TenTo[Plain + Frac] \in Nat
  <2>1. One \in Nat \ {0} /\ TwoTo[P] \in Nat /\ Plain + Frac \in 0..Width
    BY FracPlaces, Significands
  <2>2. TenTo[Plain + Frac] \in Nat
    BY <2>1, TenToGrows
  <2>3. QED
    BY <2>1, <2>2, Significands
<1>2. n \in Int /\ Abs(n) < TwoTo[P] * One
  BY <1>1 DEF Safe
<1>3. PICK i \in Nat : (k = i \/ k = -i) /\ Abs(n) = i * One
  <2>1. k \in Nat \/ -k \in Nat
    OBVIOUS
  <2>2. CASE k \in Nat
    <3>1. n \in Nat /\ n = k * One
      BY <1>1, <2>2
    <3> HIDE DEF n
    <3>2. Abs(n) = k * One
      BY <3>1 DEF Abs
    <3>3. QED
      BY <2>2, <3>2
  <2>3. CASE -k \in Nat
    <3> DEFINE i == -k
    <3>1. i \in Nat /\ k = -i /\ n = -(i * One)
      BY <1>1, <2>3
    <3> HIDE DEF i, n
    <3>2. Abs(n) = i * One
      BY <1>1, <3>1 DEF Abs
    <3>3. QED
      BY <3>1, <3>2
  <2>4. QED
    BY <2>1, <2>2, <2>3
<1>4. n = i * One \/ n = -(i * One)
  BY <1>1, <1>3
<1> HIDE DEF n
<1>5. i * One \in Magnitudes
  BY <1>2, <1>3, SafeMagnitude
<1>6. n \in Doubles /\ Float(n) = n /\ n \notin NonFinite
  <2>1. n \in Doubles
    BY <1>4, <1>5 DEF Doubles
  <2>2. QED
    BY <2>1, Floats
<1>7. CASE n = 0
  BY <1>6, <1>7 DEF JcsDouble, n
<1>8. CASE n # 0
  <2> DEFINE c == Repr[Abs(n)]
  <2>1. i # 0
    BY <1>1, <1>4, <1>8
  <2>2. c = i * One
    BY <1>2, <1>3, <2>1, SafeVerbatim
  <2>3. c \in Written
    BY <1>6, <1>8, ReprReads
  <2>4. JcsDouble(n) = Literal(Layout(Digits(c), PointAt(c)), Signed(n, c))
    BY <1>6, <1>8 DEF JcsDouble
  <2>5. Signed(n, c) = n
    BY <1>2, <1>3, <2>2 DEF Signed, Abs
  <2> HIDE DEF c
  <2>6. c % One = 0 /\ c < TenTo[Plain + Frac]
    <3>1. c % One = 0
      BY <1>1, <2>2, Multiples
    <3>2. c \in Nat /\ c < TwoTo[P] * One
      BY <1>1, <1>2, <1>3, <2>2
    <3>3. QED
      BY <1>1, <3>1, <3>2
  <2>7. Layout(Digits(c), PointAt(c)) = "integer"
    BY <2>3, <2>6, LayoutIs DEF Layout
  <2>8. QED
    BY <1>6, <2>4, <2>5, <2>7 DEF n
<1>9. QED
  BY <1>6, <1>7, <1>8 DEF n

-----------------------------------------------------------------------------
(* The values a program can hold, and the texts between two programs.      *)

Values ==
    {IntValue(k * One) : k \in Int} \cup {FloatValue(x) : x \in Doubles}
      \cup {BoolValue(b) : b \in {0, One}}

Texts ==
    {Literal("integer", k * One) : k \in Int}
      \cup {Literal(f, s) : f \in {"fraction", "exponent"}, s \in {n \in Int : Float(n) \in Doubles}}
      \cup {Literal("word", b) : b \in {0, One}}

\* A value, by its type.
LEMMA ValueCases ==
    ASSUME NEW v \in Values
    PROVE  \/ v.type = "int" /\ \E k \in Int : v.of = k * One /\ v = IntValue(k * One)
           \/ v.type = "float" /\ v.of \in Doubles /\ v = FloatValue(v.of)
           \/ v.type = "bool" /\ v.of \in {0, One} /\ v = BoolValue(v.of)
BY DEF Values, IntValue, FloatValue, BoolValue

LEMMA ValueNumbers ==
    ASSUME NEW v \in Values
    PROVE  /\ v.of \in Int
           /\ v.type \in {"int", "float", "bool"}
           /\ v.type = "float" => v.of \in Doubles /\ Float(v.of) = v.of
           /\ Float(v.of) \in Doubles \cup {Infinite, -Infinite}
<1>1. One \in Int
  BY FracPlaces
<1>2. \A k \in Int : k * One \in Int
  BY <1>1
<1>3. v.of \in Int /\ v.type \in {"int", "float", "bool"} /\ (v.type = "float" => v.of \in Doubles)
  BY <1>1, <1>2, ValueCases, Floats
<1>4. QED
  BY <1>3, Floats

\* The core's text of a value, by its type.
LEMMA JcsIs ==
    ASSUME NEW v \in Values
    PROVE  /\ v.type = "bool" => Jcs(v) = Literal("word", v.of)
           /\ v.type # "bool" => Jcs(v) = JcsDouble(Float(v.of))
<1>1. CASE v.type = "bool"
  BY <1>1 DEF Jcs, Spell
<1>2. CASE v.type = "int"
  BY <1>2 DEF Jcs, Spell
<1>3. CASE v.type = "float"
  BY <1>3, ValueNumbers DEF Jcs, Spell
<1>4. QED
  BY <1>1, <1>2, <1>3, ValueNumbers

\* Two values have one canonical text just when they mean the same number, or
\* the same word.
LEMMA JcsTellsMeanings ==
    ASSUME NEW v \in Values, NEW w \in Values, Jcs(w) # Refused
    PROVE  Jcs(v) # Refused /\ Jcs(v) = Jcs(w) <=> Meaning(v) = Meaning(w)
<1>1. /\ v.type = "bool" => Meaning(v) = <<"word", v.of>>
      /\ v.type # "bool" => Meaning(v) = <<"number", Float(v.of)>>
      /\ w.type = "bool" => Meaning(w) = <<"word", w.of>>
      /\ w.type # "bool" => Meaning(w) = <<"number", Float(w.of)>>
  BY DEF Meaning
<1>2. ASSUME NEW x \in Doubles \cup {Infinite, -Infinite}, JcsDouble(x) # Refused
      PROVE  /\ x \in Doubles /\ JcsDouble(x).form # "word"
             /\ JcsDouble(x).form # "refused" /\ Float(JcsDouble(x).of) = x
  <2>1. x \in Doubles
    BY <1>2 DEF JcsDouble, NonFinite
  <2>2. PICK f \in {"integer", "fraction", "exponent"}, s \in Int :
            JcsDouble(x) = Literal(f, s) /\ Float(s) = x
    BY <2>1, JcsReads
  <2>3. QED
    BY <2>1, <2>2 DEF Literal
<1>3. CASE v.type = "bool" /\ w.type = "bool"
  BY <1>1, <1>3, JcsIs DEF Literal, Refused
<1>4. CASE v.type = "bool" /\ w.type # "bool"
  <2>1. Jcs(w).form # "word" /\ Jcs(v).form = "word"
    BY <1>2, <1>4, JcsIs, ValueNumbers DEF Literal
  <2>2. Meaning(v) # Meaning(w)
    BY <1>1, <1>4
  <2>3. QED
    BY <2>1, <2>2
<1>5. CASE v.type # "bool" /\ w.type = "bool"
  <2>1. Jcs(w).form = "word"
    BY <1>5, JcsIs DEF Literal
  <2>2. Jcs(v) = JcsDouble(Float(v.of)) /\ Float(v.of) \in Doubles \cup {Infinite, -Infinite}
    BY <1>5, JcsIs, ValueNumbers
  <2>3. Jcs(v) # Refused => Jcs(v).form # "word"
    BY <1>2, <2>2
  <2>4. Meaning(v) # Meaning(w)
    BY <1>1, <1>5
  <2>5. QED
    BY <2>1, <2>3, <2>4
<1>6. CASE v.type # "bool" /\ w.type # "bool"
  <2> DEFINE x == Float(v.of)
             y == Float(w.of)
  <2>1. /\ Jcs(v) = JcsDouble(x) /\ x \in Doubles \cup {Infinite, -Infinite}
        /\ Jcs(w) = JcsDouble(y) /\ y \in Doubles \cup {Infinite, -Infinite}
    BY <1>6, JcsIs, ValueNumbers
  <2>2. Meaning(v) = Meaning(w) <=> x = y
    BY <1>1, <1>6
  <2> HIDE DEF x, y
  <2>3. ASSUME Jcs(v) = Jcs(w) PROVE x = y
    <3>1. JcsDouble(x) # Refused /\ JcsDouble(y) # Refused /\ JcsDouble(x) = JcsDouble(y)
      BY <2>1, <2>3
    <3>2. Float(JcsDouble(x).of) = x /\ Float(JcsDouble(y).of) = y
      BY <1>2, <2>1, <3>1
    <3>3. QED
      BY <3>1, <3>2
  <2>4. QED
    BY <2>1, <2>2, <2>3
<1>7. QED
  BY <1>3, <1>4, <1>5, <1>6

\* The three implementations on a value.
LEMMA SpellingsOf ==
    ASSUME NEW v \in Values
    PROVE  /\ Jcs(v) = StandaloneJcs(v) /\ Jcs(v) = CandidateJcs(v)
           /\ LibraryJcs(v) # Refused => LibraryJcs(v) = Jcs(v)
           /\ ~(v.type = "int" /\ ~Safe(v.of)) => LibraryJcs(v) = Jcs(v)
<1>1. CASE v.type = "bool"
  BY <1>1 DEF Jcs, StandaloneJcs, CandidateJcs, LibraryJcs, Spell
<1>2. CASE v.type = "float"
  <2>1. JcsDouble(v.of) = Es6(v.of)
    BY <1>2, ValueNumbers, LayoutsAgree
  <2>2. QED
    BY <1>2, <2>1 DEF Jcs, StandaloneJcs, CandidateJcs, LibraryJcs, Spell
<1>3. CASE v.type = "int"
  <2>1. Float(v.of) \in Doubles \cup NonFinite
    BY ValueNumbers DEF NonFinite
  <2>2. JcsDouble(Float(v.of)) = Es6(Float(v.of))
    BY <2>1, LayoutsAgree
  <2>3. PICK k \in Int : v.of = k * One
    BY <1>3, ValueCases
  <2>4. Safe(v.of) => JcsDouble(Float(v.of)) = Literal("integer", v.of)
    BY <2>3, SafeSpelled
  <2>5. Jcs(v) = JcsDouble(Float(v.of)) /\ StandaloneJcs(v) = Es6(Float(v.of))
    BY <1>3 DEF Jcs, StandaloneJcs, Spell
  <2>6. /\ CandidateJcs(v) = IF Safe(v.of) THEN Literal("integer", v.of) ELSE JcsDouble(Float(v.of))
        /\ LibraryJcs(v) = IF Safe(v.of) THEN Literal("integer", v.of) ELSE Refused
    BY <1>3 DEF CandidateJcs, LibraryJcs, Spell
  <2>7. QED
    BY <1>3, <2>2, <2>4, <2>5, <2>6
<1>4. QED
  BY <1>1, <1>2, <1>3, ValueNumbers

\* Writing a value and reading it gives a value of the same meaning.
LEMMA DumpsReads ==
    ASSUME NEW v \in Values
    PROVE  Dumps(v) \in Texts /\ Meaning(Loads(Dumps(v))) = Meaning(v)
<1>1. CASE v.type = "bool"
  <2>1. Dumps(v) = Literal("word", v.of) /\ v.of \in {0, One}
    BY <1>1, ValueCases DEF Dumps, Spell
  <2>2. Loads(Dumps(v)) = BoolValue(v.of)
    BY <2>1 DEF Loads, Literal
  <2>3. QED
    BY <1>1, <2>1, <2>2 DEF Texts, Meaning, BoolValue
<1>2. CASE v.type = "int"
  <2>1. Dumps(v) = Literal("integer", v.of) /\ \E k \in Int : v.of = k * One
    BY <1>2, ValueCases DEF Dumps, Spell
  <2>2. Loads(Dumps(v)) = IntValue(v.of)
    BY <2>1 DEF Loads, Literal
  <2>3. QED
    BY <1>2, <2>1, <2>2 DEF Texts, Meaning, IntValue
<1>3. CASE v.type = "float"
  <2> DEFINE s == IF v.of = 0 THEN 0 ELSE Signed(v.of, Repr[Abs(v.of)])
  <2>1. v.of \in Doubles /\ Float(v.of) = v.of
    BY <1>3, ValueNumbers
  <2>2. s \in Int /\ Float(s) = v.of
    BY <2>1, ReprReads
  <2>3. Dumps(v) = Literal("fraction", s)
    BY <1>3 DEF Dumps, Spell
  <2> HIDE DEF s
  <2>4. Loads(Dumps(v)) = FloatValue(v.of)
    BY <2>2, <2>3 DEF Loads, Literal
  <2>5. Dumps(v) \in Texts
    BY <2>1, <2>2, <2>3 DEF Texts
  <2>6. QED
    BY <1>3, <2>4, <2>5 DEF Meaning, FloatValue
<1>4. QED
  BY <1>1, <1>2, <1>3, ValueNumbers

\* A text, by its form.
LEMMA TextCases ==
    ASSUME NEW l \in Texts
    PROVE  \/ l.form = "integer" /\ \E k \in Int : l.of = k * One /\ l = Literal("integer", k * One)
           \/ l.form \in {"fraction", "exponent"} /\ l.of \in Int /\ Float(l.of) \in Doubles
           \/ l.form = "word" /\ l.of \in {0, One}
BY DEF Texts, Literal

LEMMA LoadsValue ==
    ASSUME NEW l \in Texts
    PROVE  /\ Loads(l) \in Values
           /\ l.form # "word" => l.of \in Int /\ Meaning(Loads(l)) = <<"number", Float(l.of)>>
<1>1. CASE l.form = "word"
  BY <1>1, TextCases DEF Loads, Values
<1>2. CASE l.form = "integer"
  <2>1. PICK k \in Int : l.of = k * One
    BY <1>2, TextCases
  <2>2. l.of \in Int
    BY <2>1, FracPlaces
  <2>3. Loads(l) = IntValue(l.of)
    BY <1>2 DEF Loads
  <2>4. QED
    BY <2>1, <2>2, <2>3 DEF Values, Meaning, IntValue
<1>3. CASE l.form \in {"fraction", "exponent"}
  <2>1. l.of \in Int /\ Float(l.of) \in Doubles
    BY <1>3, TextCases
  <2>2. Loads(l) = FloatValue(Float(l.of))
    BY <1>3 DEF Loads
  <2>3. Float(Float(l.of)) = Float(l.of)
    BY <2>1, Floats
  <2>4. QED
    BY <2>1, <2>2, <2>3 DEF Values, Meaning, FloatValue
<1>4. QED
  BY <1>1, <1>2, <1>3, TextCases

LEMMA Es6Reads ==
    ASSUME NEW x \in Doubles
    PROVE  Es6(x) \in Texts /\ Es6(x).form # "word" /\ Meaning(Loads(Es6(x))) = <<"number", x>>
<1>1. PICK f \in {"integer", "fraction", "exponent"}, s \in Int :
          /\ JcsDouble(x) = Literal(f, s) /\ Float(s) = x
          /\ f = "integer" => \E k \in Int : s = k * One
  BY JcsReads
<1>2. Es6(x) = Literal(f, s)
  BY <1>1, LayoutsAgree
<1>3. Es6(x) \in Texts
  BY <1>1, <1>2 DEF Texts
<1>4. Es6(x).form = f /\ Es6(x).of = s
  BY <1>2 DEF Literal
<1>5. QED
  BY <1>1, <1>3, <1>4, LoadsValue

-----------------------------------------------------------------------------
(* The life of a signed number.                                            *)

\* A signed record: it was signed over the text of an admitted value, and until
\* somebody alters it, what travels means what was signed.
NumbersInv ==
    /\ stage = "new" => ~altered
    /\ stage \in {"held", "wired"} =>
          origin \in Values /\ Admitted(origin) /\ signed = Jcs(origin) /\ signed # Refused
    /\ stage = "held" => held \in Values /\ (~altered => Meaning(held) = Meaning(origin))
    /\ stage = "wired" =>
          wired \in Texts /\ (~altered => Meaning(Loads(wired)) = Meaning(origin))

\* What passes the guard and has a canonical text is a value.
LEMMA SignedValue ==
    ASSUME NEW v \in AppValues, Jcs(v) # Refused
    PROVE  v \in Values
<1>1. CASE v \in {IntValue(n * One) : n \in AppInts}
  BY <1>1, FormatAssumption DEF Values
<1>2. CASE v \in {FloatValue(x) : x \in Doubles \cup NonFinite}
  <2>1. PICK x \in Doubles \cup NonFinite : v = FloatValue(x)
    BY <1>2
  <2>2. Jcs(v) = JcsDouble(x)
    BY <2>1 DEF Jcs, Spell, FloatValue
  <2>3. x \notin NonFinite
    BY <2>2 DEF JcsDouble
  <2>4. QED
    BY <2>1, <2>3 DEF Values
<1>3. CASE v \in {BoolValue(b) : b \in {0, One}}
  BY <1>3 DEF Values
<1>4. QED
  BY <1>1, <1>2, <1>3 DEF AppValues

\* A forgery is a text of some value.
LEMMA ForgeryText ==
    ASSUME NEW l \in Forgeries
    PROVE  l \in Texts
<1>1. PICK v \in AppValues : v.of \notin NonFinite /\ l = Dumps(v)
  BY DEF Forgeries
<1>2. v \in Values
  <2>1. CASE v \in {IntValue(n * One) : n \in AppInts}
    BY <2>1, FormatAssumption DEF Values
  <2>2. CASE v \in {FloatValue(x) : x \in Doubles \cup NonFinite}
    BY <1>1, <2>2 DEF Values, FloatValue
  <2>3. CASE v \in {BoolValue(b) : b \in {0, One}}
    BY <2>3 DEF Values
  <2>4. QED
    BY <2>1, <2>2, <2>3 DEF AppValues
<1>3. QED
  BY <1>1, <1>2, DumpsReads

LEMMA NumbersInit == Init => NumbersInv
BY DEF Init, NumbersInv

LEMMA NumbersStep == NumbersInv /\ [Next]_vars => NumbersInv'
<1> SUFFICES ASSUME NumbersInv, [Next]_vars PROVE NumbersInv'
  OBVIOUS
<1>1. ASSUME NEW v \in AppValues, Sign(v) PROVE NumbersInv'
  <2>1. stage = "new" /\ ~altered /\ altered' = altered /\ origin' = v
    BY <1>1 DEF Sign, NumbersInv
  <2>2. CASE Admitted(v) /\ Jcs(v) # Refused
    <3>1. stage' = "held" /\ signed' = Jcs(v) /\ held' = v /\ v \in Values
      BY <1>1, <2>2, SignedValue DEF Sign
    <3>2. QED
      BY <2>1, <2>2, <3>1 DEF NumbersInv
  <2>3. CASE ~(Admitted(v) /\ Jcs(v) # Refused)
    <3>1. stage' = "refused"
      BY <1>1, <2>3 DEF Sign
    <3>2. QED
      BY <3>1 DEF NumbersInv
  <2>4. QED
    BY <2>2, <2>3
<1>2. ASSUME Store PROVE NumbersInv'
  <2>1. /\ stage = "held" /\ stage' = "wired" /\ wired' = Dumps(held)
        /\ origin' = origin /\ signed' = signed /\ altered' = altered
    BY <1>2 DEF Store
  <2>2. /\ origin \in Values /\ Admitted(origin) /\ signed = Jcs(origin) /\ signed # Refused
        /\ held \in Values /\ (~altered => Meaning(held) = Meaning(origin))
    BY <2>1 DEF NumbersInv
  <2>3. Dumps(held) \in Texts /\ Meaning(Loads(Dumps(held))) = Meaning(held)
    BY <2>2, DumpsReads
  <2>4. QED
    BY <2>1, <2>2, <2>3 DEF NumbersInv
<1>3. ASSUME Read PROVE NumbersInv'
  <2>1. /\ stage = "wired" /\ stage' = "held" /\ held' = Loads(wired)
        /\ origin' = origin /\ signed' = signed /\ altered' = altered
    BY <1>3 DEF Read
  <2>2. /\ origin \in Values /\ Admitted(origin) /\ signed = Jcs(origin) /\ signed # Refused
        /\ wired \in Texts /\ (~altered => Meaning(Loads(wired)) = Meaning(origin))
    BY <2>1 DEF NumbersInv
  <2>3. Loads(wired) \in Values
    BY <2>2, LoadsValue
  <2>4. QED
    BY <2>1, <2>2, <2>3 DEF NumbersInv
<1>4. ASSUME Rewrite PROVE NumbersInv'
  <2>1. /\ stage = "wired" /\ stage' = stage /\ wired' = Es6(Float(wired.of))
        /\ wired.form # "word" /\ Float(wired.of) \notin NonFinite
        /\ origin' = origin /\ signed' = signed /\ altered' = altered
    BY <1>4 DEF Rewrite
  <2>2. /\ origin \in Values /\ Admitted(origin) /\ signed = Jcs(origin) /\ signed # Refused
        /\ wired \in Texts /\ (~altered => Meaning(Loads(wired)) = Meaning(origin))
    BY <2>1 DEF NumbersInv
  <2>3. wired.of \in Int /\ Meaning(Loads(wired)) = <<"number", Float(wired.of)>>
    BY <2>1, <2>2, LoadsValue
  <2>4. Float(wired.of) \in Doubles
    BY <2>1, <2>3, Floats DEF NonFinite
  <2>5. /\ Es6(Float(wired.of)) \in Texts
        /\ Meaning(Loads(Es6(Float(wired.of)))) = <<"number", Float(wired.of)>>
    BY <2>4, Es6Reads
  <2>6. QED
    BY <2>1, <2>2, <2>3, <2>5 DEF NumbersInv
<1>5. ASSUME NEW l \in Forgeries, Alter(l) PROVE NumbersInv'
  <2>1. /\ stage = "wired" /\ stage' = stage /\ altered' = TRUE /\ wired' = l
        /\ origin' = origin /\ signed' = signed
    BY <1>5 DEF Alter
  <2>2. l \in Texts
    BY ForgeryText
  <2>3. QED
    BY <2>1, <2>2 DEF NumbersInv
<1>6. CASE UNCHANGED vars
  BY <1>6 DEF vars, NumbersInv, Admitted, Jcs, Spell, Meaning
<1>7. QED
  BY <1>1, <1>2, <1>3, <1>4, <1>5, <1>6 DEF Next

\* In every reachable state, a program holds a value that means what was signed
\* unless somebody altered it, and so does the text between two programs.
THEOREM NumbersHold == Spec => []NumbersInv
<1>1. Init => NumbersInv
  BY NumbersInit
<1>2. NumbersInv /\ [Next]_vars => NumbersInv'
  BY NumbersStep
<1>3. QED
  BY <1>1, <1>2, PTL DEF Spec

\* The shape of what is signed, held and wired.
LEMMA Shapes ==
    /\ \A v \in Values : v # NoValue /\ v.type \in {"int", "float", "bool"}
    /\ \A v \in Values : Jcs(v) # Refused =>
          Jcs(v).form \in {"word", "integer", "fraction", "exponent"}
    /\ \A l \in Texts : l # Refused /\ l.form \in {"word", "integer", "fraction", "exponent"}
    /\ \A v \in AppValues : v.type \in {"int", "float", "bool"}
<1>1. ASSUME NEW v \in Values PROVE v # NoValue /\ v.type \in {"int", "float", "bool"}
  <2>1. One # -1 /\ 0 # -1
    BY FracPlaces
  <2>2. NoValue.type = "bool" /\ NoValue.of = -1
    BY DEF NoValue, BoolValue
  <2>3. v = NoValue => v.type = "bool" /\ v.of = -1
    BY <2>2
  <2>4. v.type = "bool" => v.of \in {0, One}
    BY ValueCases
  <2>5. QED
    BY <2>1, <2>3, <2>4, ValueNumbers
<1>2. ASSUME NEW v \in Values, Jcs(v) # Refused
      PROVE  Jcs(v).form \in {"word", "integer", "fraction", "exponent"}
  <2>1. CASE v.type = "bool"
    BY <2>1, JcsIs DEF Literal
  <2>2. CASE v.type # "bool"
    <3>1. Jcs(v) = JcsDouble(Float(v.of)) /\ Float(v.of) \in Doubles \cup {Infinite, -Infinite}
      BY <2>2, JcsIs, ValueNumbers
    <3>2. Float(v.of) \in Doubles
      BY <1>2, <3>1 DEF JcsDouble, NonFinite
    <3>3. PICK f \in {"integer", "fraction", "exponent"}, s \in Int :
              JcsDouble(Float(v.of)) = Literal(f, s)
      BY <3>2, JcsReads
    <3>4. QED
      BY <3>1, <3>3 DEF Literal
  <2>3. QED
    BY <2>1, <2>2
<1>3. ASSUME NEW l \in Texts
      PROVE  l # Refused /\ l.form \in {"word", "integer", "fraction", "exponent"}
  <2>1. Refused.form = "refused"
    BY DEF Refused, Literal
  <2>2. QED
    BY <2>1, TextCases
<1>4. \A v \in AppValues : v.type \in {"int", "float", "bool"}
  BY DEF AppValues, IntValue, FloatValue, BoolValue
<1>5. QED
  BY <1>1, <1>2, <1>3, <1>4

LEMMA TypesStep ==
    NumbersInv /\ NumbersInv' /\ TypeOK /\ [Next]_vars => TypeOK'
<1> SUFFICES ASSUME NumbersInv, NumbersInv', TypeOK, [Next]_vars PROVE TypeOK'
  OBVIOUS
<1>1. /\ stage' = "held" => held' \in Values
      /\ stage' = "wired" => wired' \in Texts
      /\ stage' \in {"held", "wired"} =>
            signed' # Refused /\ signed'.form \in {"word", "integer", "fraction", "exponent"}
  <2>1. /\ stage' = "held" => held' \in Values
        /\ stage' = "wired" => wired' \in Texts
        /\ stage' \in {"held", "wired"} =>
              origin' \in Values /\ signed' = Jcs(origin') /\ signed' # Refused
    BY DEF NumbersInv, Jcs, Spell
  <2>2. QED
    BY <2>1, Shapes
<1>2. /\ stage' = "held" => held' # NoValue /\ held'.type \in {"int", "float", "bool"}
      /\ stage' = "wired" =>
            wired' # Refused /\ wired'.form \in {"word", "integer", "fraction", "exponent"}
  BY <1>1, Shapes
<1>3. NoValue.type = "bool" /\ Refused.form = "refused"
  BY DEF NoValue, BoolValue, Refused, Literal
<1>4. ASSUME NEW v \in AppValues, Sign(v) PROVE TypeOK'
  <2>1. v.type \in {"int", "float", "bool"}
    BY Shapes
  <2>2. CASE Admitted(v) /\ Jcs(v) # Refused
    <3>1. /\ stage = "new" /\ stage' = "held" /\ origin' = v
          /\ wired' = wired /\ altered' = altered /\ hops' = hops
      BY <1>4, <2>2 DEF Sign
    <3>2. QED
      BY <1>1, <1>2, <1>3, <2>1, <3>1 DEF TypeOK
  <2>3. CASE ~(Admitted(v) /\ Jcs(v) # Refused)
    <3>1. /\ stage = "new" /\ stage' = "refused" /\ origin' = v /\ held' = held
          /\ signed' = signed /\ wired' = wired /\ altered' = altered /\ hops' = hops
      BY <1>4, <2>3 DEF Sign
    <3>2. QED
      BY <1>3, <2>1, <3>1 DEF TypeOK
  <2>4. QED
    BY <2>2, <2>3
<1>5. ASSUME Store PROVE TypeOK'
  <2>1. hops' \in 0..MaxHops
    BY <1>5, FormatAssumption DEF Store, TypeOK
  <2>2. /\ stage' = "wired" /\ held' = NoValue /\ origin' = origin /\ altered' = altered
    BY <1>5 DEF Store
  <2>3. QED
    BY <1>1, <1>2, <1>3, <2>1, <2>2 DEF TypeOK
<1>6. ASSUME Read PROVE TypeOK'
  <2>1. /\ stage' = "held" /\ wired' = Refused /\ origin' = origin /\ altered' = altered
        /\ hops' = hops
    BY <1>6 DEF Read
  <2>2. QED
    BY <1>1, <1>2, <1>3, <2>1 DEF TypeOK
<1>7. ASSUME Rewrite \/ \E l \in Forgeries : Alter(l) PROVE TypeOK'
  <2>1. /\ stage = "wired" /\ stage' = stage /\ held' = held /\ origin' = origin
        /\ altered' \in BOOLEAN /\ hops' = hops
    BY <1>7 DEF Rewrite, Alter, TypeOK
  <2>2. QED
    BY <1>1, <1>2, <1>3, <2>1 DEF TypeOK
<1>8. CASE UNCHANGED vars
  BY <1>8 DEF vars, TypeOK
<1>9. QED
  BY <1>4, <1>5, <1>6, <1>7, <1>8 DEF Next

\* The state keeps its shape: what is held is a value, what is wired a text some
\* parser produced, and only a refused signature leaves none.
THEOREM NumbersTyped == Spec => []TypeOK
<1>1. Init => TypeOK
  <2>1. NoValue.type = "bool" /\ Refused.form = "refused"
    BY DEF NoValue, BoolValue, Refused, Literal
  <2>2. 0 \in 0..MaxHops
    BY FormatAssumption
  <2>3. QED
    BY <2>1, <2>2 DEF Init, TypeOK
<1>2. NumbersInv /\ NumbersInv' /\ TypeOK /\ [Next]_vars => TypeOK'
  BY TypesStep
<1>3. QED
  BY <1>1, <1>2, NumbersHold, PTL DEF Spec

\* The signature stands for one binary64 number: verify accepts every spelling
\* of it a program can come to hold, and nothing else.
THEOREM SignatureBinds == Spec => []SignatureBindsNumber
<1>1. NumbersInv => SignatureBindsNumber
  <2> SUFFICES ASSUME NumbersInv, stage = "held"
               PROVE  Accepted(Jcs) <=> Meaning(held) = Meaning(origin)
    BY DEF SignatureBindsNumber
  <2>1. origin \in Values /\ held \in Values /\ signed = Jcs(origin) /\ signed # Refused
    BY DEF NumbersInv
  <2>2. Accepted(Jcs) <=> Jcs(held) # Refused /\ Jcs(held) = Jcs(origin)
    BY <2>1 DEF Accepted
  <2>3. QED
    BY <2>1, <2>2, JcsTellsMeanings
<1>2. QED
  BY <1>1, NumbersHold, PTL

\* The independent implementations spell every number a program can hold alike.
THEOREM SpellingsAlwaysAgree == Spec => []SpellingsAgree
<1>1. NumbersInv => SpellingsAgree
  BY SpellingsOf DEF NumbersInv, SpellingsAgree
<1>2. QED
  BY <1>1, NumbersHold, PTL

\* No reader of an unaltered record gets another number than was signed.
THEOREM NeverRoundsSilently == Spec => []NoSilentRounding
<1>1. NumbersInv => NoSilentRounding
  <2> SUFFICES ASSUME NumbersInv, stage = "held", ~altered
               PROVE  Float(held.of) = origin.of
    BY DEF NoSilentRounding
  <2>1. /\ origin \in Values /\ held \in Values /\ Admitted(origin)
        /\ Meaning(held) = Meaning(origin)
    BY DEF NumbersInv
  <2>2. CASE origin.type = "bool"
    <3>1. held.type = "bool" /\ held.of = origin.of
      BY <2>1, <2>2 DEF Meaning
    <3>2. origin.of \in Doubles
      BY <2>1, <2>2, ValueCases, Floats
    <3>3. QED
      BY <3>1, <3>2, Floats
  <2>3. CASE origin.type # "bool"
    <3>1. Float(held.of) = Float(origin.of)
      BY <2>1, <2>3 DEF Meaning
    <3>2. Float(origin.of) = origin.of
      BY <2>1, <2>3, ValueNumbers DEF Admitted
    <3>3. QED
      BY <3>1, <3>2
  <2>4. QED
    BY <2>2, <2>3
<1>2. QED
  BY <1>1, NumbersHold, PTL

\* The verifier of the harness errs on one side only.
THEOREM IndependentStricter == Spec => []IndependentIsStricter
<1>1. NumbersInv => IndependentIsStricter
  <2> SUFFICES ASSUME NumbersInv, stage = "held"
               PROVE  /\ Accepted(LibraryJcs) => Accepted(Jcs)
                      /\ Accepted(Jcs) /\ ~Accepted(LibraryJcs) =>
                            held.type = "int" /\ ~Safe(held.of)
    BY DEF IndependentIsStricter
  <2>1. held \in Values
    BY DEF NumbersInv
  <2>2. /\ LibraryJcs(held) # Refused => LibraryJcs(held) = Jcs(held)
        /\ ~(held.type = "int" /\ ~Safe(held.of)) => LibraryJcs(held) = Jcs(held)
    BY <2>1, SpellingsOf
  <2>3. QED
    BY <2>2 DEF Accepted
<1>2. QED
  BY <1>1, NumbersHold, PTL
=============================================================================
