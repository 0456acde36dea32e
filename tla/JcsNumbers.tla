------------------------------ MODULE JcsNumbers ------------------------------
(***************************************************************************)
(* The numbers in a signed record.  _check_application_numbers and the JCS *)
(* number serialization of corrlog_core/__init__.py, followed from the     *)
(* value an application signs through the texts and parsers a record       *)
(* passes on its way to the verifiers: Python writes and reads it, an      *)
(* ECMAScript program rewrites it, somebody alters it.                     *)
(*                                                                         *)
(* binary64 is scaled down: significands of P bits, exponents EMin..EMax.  *)
(* Every quantity is an integer counting units of 10^-Frac, which is exact *)
(* for all numbers of the format.  A literal is what a parser can tell of  *)
(* its text: plain integer, with a fraction, with an exponent, or a word,  *)
(* and the quantity it denotes.                                            *)
(***************************************************************************)
EXTENDS Integers

CONSTANTS
    P,              \* bits of a significand (53)
    EMin, EMax,     \* exponents of its last bit (-1074, 971)
    Frac, Width,    \* decimal places that write every number of the format: behind
                    \* the point (1074), and in all (1383)
    Plain, Small,   \* ES6 bounds of plain notation (21, -6)
    AppInts,        \* integers an application may sign
    MaxHops         \* bound: times the record is rewritten

\* The powers of ten and of two that are needed.
TenTo[n \in 0..Width] == IF n = 0 THEN 1 ELSE 10 * TenTo[n - 1]
TwoTo[n \in 0..(P + EMax - EMin)] == IF n = 0 THEN 1 ELSE 2 * TwoTo[n - 1]

One == TenTo[Frac]

ASSUME FormatAssumption ==
    /\ P \in Nat \ {0, 1} /\ EMin \in Int /\ EMax \in Int /\ EMin < 0 /\ EMax >= 0
    /\ Frac \in Nat \ {0} /\ Plain \in Nat /\ Small \in Int /\ Small < 0
    /\ Width \in Nat /\ Plain + Frac <= Width /\ Small + Frac >= 0
    /\ AppInts \subseteq Int /\ MaxHops \in Nat

\* Frac places hold the last bit of every number, Width places the greatest one,
\* and an integer that fits a significand is written plainly.
ASSUME PlacesAssumption ==
    /\ One % TwoTo[-EMin] = 0
    /\ TwoTo[P] * (TwoTo[EMax] * One) <= TenTo[Width]
    /\ TwoTo[P] * One <= TenTo[Plain + Frac]

VARIABLES
    stage,    \* "new", "refused", "held" by a program, "wired" as text
    origin,   \* the value the application signed
    signed,   \* the canonical text the signature is over
    held,     \* the value in the program that holds the record
    wired,    \* the text between two programs
    altered,  \* somebody without the key has changed the text
    hops

vars == <<stage, origin, signed, held, wired, altered, hops>>

-----------------------------------------------------------------------------
(* The number format.                                                      *)

Abs(v) == IF v < 0 THEN -v ELSE v
Signed(v, a) == IF v < 0 THEN -a ELSE a

\* 2^e.
Bit(e) == TwoTo[e - EMin] * (One \div TwoTo[-EMin])

MaxDouble == (TwoTo[P] - 1) * Bit(EMax)
Infinite == MaxDouble + 1
NaN == MaxDouble + 2
Magnitudes == {m * Bit(e) : m \in 0..(TwoTo[P] - 1), e \in EMin..EMax}
Doubles == Magnitudes \cup {-a : a \in Magnitudes}

\* The distance of the doubles around a.
Ulp(a) == Bit(CHOOSE e \in EMin..EMax :
                  a < TwoTo[P] * Bit(e) /\ (e = EMin \/ a >= TwoTo[P] * Bit(e - 1)))

\* To the nearest multiple of u, ties to the even one.
Rounded(a, u) ==
    LET q == a \div u
        r == a % u
    IN  IF 2 * r > u \/ (2 * r = u /\ q % 2 = 1) THEN (q + 1) * u ELSE q * u

InRange(n) == IF n > MaxDouble THEN Infinite ELSE n

\* float(): the nearest double.
Nearest(a) ==
    IF a >= TwoTo[P] * Bit(EMax) THEN Infinite ELSE InRange(Rounded(a, Ulp(a)))

Float(v) == Signed(v, Nearest(Abs(v)))

NonFinite == {Infinite, -Infinite, NaN}

-----------------------------------------------------------------------------
(* Decimal spellings.                                                      *)

\* The decimal digits of a > 0 before and behind which it has only zeros.
Length(a) == CHOOSE l \in 1..Width : a < TenTo[l] /\ (l = 1 \/ a >= TenTo[l - 1])
Zeros(a) == CHOOSE z \in 0..(Width - 1) : a % TenTo[z] = 0 /\ a % TenTo[z + 1] # 0

Digits(a) == Length(a) - Zeros(a)         \* k
PointAt(a) == Length(a) - Frac            \* n: a = 0.ddd * 10^n

\* The fewest digits that are read back as the double a > 0, and of those the
\* nearest: what repr writes, and ES6 as well.
Shortest(a) ==
    LET cut(z) == (a \div TenTo[z]) * TenTo[z]
        near == {c \in UNION {{cut(z), cut(z) + TenTo[z]} : z \in 0..(Width - 1)} :
                    c > 0 /\ Nearest(c) = a}
        fewest == {c \in near : \A d \in near : Digits(c) <= Digits(d)}
    IN  CHOOSE c \in fewest : \A d \in fewest : Abs(c - a) <= Abs(d - a)

Repr == [a \in Magnitudes \ {0} |-> Shortest(a)]

Literal(form, v) == [form |-> form, of |-> v]
Refused == Literal("refused", 0)

\* A variant of the next definition with a plausible bug in it.
LayoutStrict(k, n) ==
    IF k <= n /\ n < Plain THEN "integer" ELSE IF Small < n /\ n < Plain THEN "fraction" ELSE "exponent"

\* The layout of k digits with the point behind the n-th.
Layout(k, n) ==
    IF k <= n /\ n <= Plain THEN "integer" ELSE IF Small < n /\ n <= Plain THEN "fraction" ELSE "exponent"

\* _jcs_double.
JcsDouble(x) ==
    IF x \in NonFinite THEN Refused
    ELSE IF x = 0 THEN Literal("integer", 0)
    ELSE LET c == Repr[Abs(x)] IN Literal(Layout(Digits(c), PointAt(c)), Signed(x, c))

\* ES6 Number::toString: plain notation for 10^Small <= |x| < 10^Plain.
Es6(x) ==
    IF x \in NonFinite THEN Refused
    ELSE IF x = 0 THEN Literal("integer", 0)
    ELSE LET c == Repr[Abs(x)]
             plain == TenTo[Small + Frac] <= c /\ c < TenTo[Plain + Frac]
         IN  Literal(IF ~plain THEN "exponent" ELSE IF c % One = 0 THEN "integer" ELSE "fraction",
                     Signed(x, c))

-----------------------------------------------------------------------------
(* Values of Python, and what the implementations make of them.            *)

IntValue(n) == [type |-> "int", of |-> n]
FloatValue(x) == [type |-> "float", of |-> x]
BoolValue(b) == [type |-> "bool", of |-> b]

\* A text for each type of value: bool is tested before int.
Spell(v, asInt, asFloat) ==
    CASE v.type = "bool"  -> Literal("word", v.of)
      [] v.type = "int"   -> asInt
      [] v.type = "float" -> asFloat

\* Variants of the next definition with a plausible bug in them.
JcsExact(v) ==
    Spell(v, IF Float(v.of) = v.of THEN JcsDouble(v.of) ELSE Refused, JcsDouble(v.of))
JcsBoolAsInt(v) == JcsDouble(Float(v.of))

\* _jcs_render and _jcs_number: an int goes through float().
Jcs(v) == Spell(v, JcsDouble(Float(v.of)), JcsDouble(v.of))

\* A variant of the next definition with a plausible bug in it.
AdmittedFinite(v) == v.type = "int" => Float(v.of) \notin NonFinite

\* _check_application_numbers: an int must survive float() unchanged.
Admitted(v) == v.type = "int" => Float(v.of) = v.of

\* canonical_bytes of the standalone verifier: _to_double_domain, then the
\* RFC 8785 library.
StandaloneJcs(v) == Spell(v, Es6(Float(v.of)), Es6(v.of))

Safe(v) == Abs(v) < TwoTo[P] * One

\* The RFC 8785 library by itself refuses integers beyond the safe ones.
LibraryJcs(v) == Spell(v, IF Safe(v.of) THEN Literal("integer", v.of) ELSE Refused, Es6(v.of))

\* _es_number of the harness: safe integers verbatim.
CandidateJcs(v) ==
    Spell(v, IF Safe(v.of) THEN Literal("integer", v.of) ELSE JcsDouble(Float(v.of)),
             JcsDouble(v.of))

\* json.dumps: repr of a float has a fraction or an exponent.
Dumps(v) ==
    Spell(v, Literal("integer", v.of),
             Literal("fraction", IF v.of = 0 THEN 0 ELSE Signed(v.of, Repr[Abs(v.of)])))

\* json.loads: an integer literal of any length is an int, others are floats.
Loads(l) ==
    CASE l.form = "word"    -> BoolValue(l.of)
      [] l.form = "integer" -> IntValue(l.of)
      [] OTHER              -> FloatValue(Float(l.of))

-----------------------------------------------------------------------------
(* The life of a signed number.                                            *)

AppValues ==
    {IntValue(n * One) : n \in AppInts} \cup {FloatValue(x) : x \in Doubles \cup NonFinite}
      \cup {BoolValue(b) : b \in {0, One}}

NoValue == BoolValue(-1)

\* What can be put in place of a number without the key.
Forgeries == {Dumps(v) : v \in {w \in AppValues : w.of \notin NonFinite}}

Init ==
    /\ stage = "new"
    /\ origin = NoValue /\ held = NoValue
    /\ signed = Refused /\ wired = Refused
    /\ altered = FALSE
    /\ hops = 0

\* _sign: the guard on application numbers, then the canonical text.
Sign(v) ==
    /\ stage = "new"
    /\ origin' = v
    /\ IF Admitted(v) /\ Jcs(v) # Refused
       THEN stage' = "held" /\ signed' = Jcs(v) /\ held' = v
       ELSE stage' = "refused" /\ UNCHANGED <<signed, held>>
    /\ UNCHANGED <<wired, altered, hops>>

\* JsonlSink.append.
Store ==
    /\ stage = "held" /\ hops < MaxHops
    /\ stage' = "wired"
    /\ wired' = Dumps(held)
    /\ held' = NoValue
    /\ hops' = hops + 1
    /\ UNCHANGED <<origin, signed, altered>>

\* JsonlSink.all, or read_json of a verifier.
Read ==
    /\ stage = "wired"
    /\ stage' = "held"
    /\ held' = Loads(wired)
    /\ wired' = Refused
    /\ UNCHANGED <<origin, signed, altered, hops>>

\* JSON.stringify of what JSON.parse read.
Rewrite ==
    /\ stage = "wired"
    /\ wired.form # "word"
    /\ Float(wired.of) \notin NonFinite
    /\ wired' = Es6(Float(wired.of))
    /\ wired' # wired
    /\ UNCHANGED <<stage, origin, signed, held, altered, hops>>

\* The number becomes that of another record.  (What a parser makes of NaN or
\* 1e999, no verifier can canonicalize.)
Alter(l) ==
    /\ stage = "wired" /\ ~altered
    /\ altered' = TRUE
    /\ wired' = l
    /\ UNCHANGED <<stage, origin, signed, held, hops>>

Next ==
    \/ \E v \in AppValues : Sign(v)
    \/ Store
    \/ Read
    \/ Rewrite
    \/ \E l \in Forgeries : Alter(l)

Spec == Init /\ [][Next]_vars

-----------------------------------------------------------------------------
(* Properties.                                                             *)

\* The number a value stands for, told apart from the words true and false.
Meaning(v) == IF v.type = "bool" THEN <<"word", v.of>> ELSE <<"number", Float(v.of)>>

Accepted(Canonical(_)) == Canonical(held) # Refused /\ Canonical(held) = signed

\* The shape of the state: a program holds a value, a wire carries a text
\* some parser produced, and only a refused signature leaves none.
TypeOK ==
    /\ stage \in {"new", "refused", "held", "wired"}
    /\ origin.type \in {"int", "float", "bool"} /\ held.type \in {"int", "float", "bool"}
    /\ signed.form \in {"refused", "word", "integer", "fraction", "exponent"}
    /\ wired.form \in {"refused", "word", "integer", "fraction", "exponent"}
    /\ stage = "held" <=> held # NoValue
    /\ stage = "wired" <=> wired # Refused
    /\ stage \in {"held", "wired"} <=> signed # Refused
    /\ altered \in BOOLEAN /\ hops \in 0..MaxHops

\* verify accepts the record exactly while the number in it is the binary64
\* number that was signed: no re-spelling on the way breaks the signature, and
\* no other number, nor true for 1, passes under it.
SignatureBindsNumber ==
    stage = "held" => (Accepted(Jcs) <=> Meaning(held) = Meaning(origin))

\* The verifier that shares no code with the core reaches the same verdict on
\* every number it reads, and the harness's candidate spells it the same.
SpellingsAgree ==
    stage = "held" => Jcs(held) = StandaloneJcs(held) /\ Jcs(held) = CandidateJcs(held)

\* What the application signed is what every reader gets, to the last digit of
\* an integer: rounding never happens behind its back ("prevented at the
\* application boundary").
NoSilentRounding ==
    stage = "held" /\ ~altered => Float(held.of) = origin.of

\* The independent verifier accepts nothing the core rejects, and turns down of
\* what the core accepts only integer literals beyond the safe integers.
IndependentIsStricter ==
    stage = "held" =>
        /\ Accepted(LibraryJcs) => Accepted(Jcs)
        /\ Accepted(Jcs) /\ ~Accepted(LibraryJcs) => held.type = "int" /\ ~Safe(held.of)
==============================================================================
