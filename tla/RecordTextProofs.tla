-------------------------- MODULE RecordTextProofs --------------------------
(***************************************************************************)
(* Theorems about RecordText, for every set of names, any numerals and any *)
(* limit of the generations: the text of the boot records is read exactly  *)
(* as it is written.  Decimal and Rendered are recursive functions; their  *)
(* equations are proved first, then what a reader needs of them.           *)
(***************************************************************************)
EXTENDS RecordText, SequenceTheorems, WellFoundedInduction, TLAPS

-----------------------------------------------------------------------------
(* Sequences, one element at a time.                                        *)

\* The text of x and s is the one of y, t and u: a predicate, so that a proof finds the instance.
Splits(x, s, y, t, u) == <<x>> \o s = (<<y>> \o t) \o u

LEMMA ConsEqual ==
  ASSUME NEW S, NEW x \in S, NEW y \in S, NEW s \in Seq(S), NEW t \in Seq(S), <<x>> \o s = <<y>> \o t
  PROVE  x = y /\ s = t
<1>1. <<x>> \in Seq(S) /\ <<y>> \in Seq(S) /\ Len(<<x>>) = 1 /\ Len(<<y>>) = 1 /\ <<x>>[1] = x /\ <<y>>[1] = y
  OBVIOUS
<1>2. (<<x>> \o s)[1] = x /\ (<<y>> \o t)[1] = y
  <2>1. Len(s) \in Nat /\ Len(t) \in Nat
    OBVIOUS
  <2>2. 1 \in 1 .. Len(<<x>>) + Len(s) /\ 1 \in 1 .. Len(<<y>>) + Len(t)
    BY <1>1, <2>1
  <2>3. (<<x>> \o s)[1] = <<x>>[1] /\ (<<y>> \o t)[1] = <<y>>[1]
    OBVIOUS
  <2> QED BY <1>1, <2>3
<1>3. x = y
  BY <1>2
<1>4. s = t
  <2>1. <<x>> \o s = <<x>> \o t
    BY <1>3
  <2>2. \A u, v, w \in Seq(S) : u \o v = u \o w => v = w
    BY ConcatSimplifications
  <2> QED BY <1>1, <2>1, <2>2
<1> QED
  BY <1>3, <1>4

LEMMA ConsSame ==
  \A S : \A x, y \in S : \A s, t \in Seq(S) : Splits(x, s, y, t, <<>>) => x = y /\ s = t
<1> SUFFICES ASSUME NEW S, NEW x \in S, NEW y \in S, NEW s \in Seq(S), NEW t \in Seq(S), Splits(x, s, y, t, <<>>)
             PROVE  x = y /\ s = t
  OBVIOUS
<1>1. <<x>> \o s = <<y>> \o t
  <2>1. (<<y>> \o t) \o <<>> = <<y>> \o t
    OBVIOUS
  <2> QED BY <2>1 DEF Splits
<1> QED
  BY <1>1, ConsEqual

LEMMA AppendIs ==
  ASSUME NEW S, NEW s \in Seq(S), NEW x \in S
  PROVE  Append(s, x) = s \o <<x>> /\ Append(s, x) \in Seq(S) /\ <<x>> \in Seq(S)
BY AppendIsConcat, AppendProperties

LEMMA AppendThen ==
  ASSUME NEW S, NEW s \in Seq(S), NEW x \in S, NEW t \in Seq(S)
  PROVE  Append(s, x) \o t = s \o (<<x>> \o t) /\ <<x>> \o t \in Seq(S)
<1>1. Append(s, x) = s \o <<x>> /\ <<x>> \in Seq(S)
  BY AppendIs
<1>2. PICK q \in Seq(S) : q = <<x>>
  BY <1>1
<1>3. (s \o q) \o t = s \o (q \o t)
  BY ConcatAssociative, SMTT(40)
<1> QED BY <1>1, <1>2, <1>3

\* The same of sequences of tokens.
LEMMA TokensAssociate ==
  ASSUME NEW u \in Seq(Tokens), NEW v \in Seq(Tokens), NEW w \in Seq(Tokens)
  PROVE  (u \o v) \o w = u \o (v \o w) /\ v \o w \in Seq(Tokens)
<1>1. (u \o v) \o w = u \o (v \o w)
  BY ConcatAssociative, SMTT(40)
<1>2. v \o w \in Seq(Tokens)
  OBVIOUS
<1> QED BY <1>1, <1>2

LEMMA TokensAppend ==
  ASSUME NEW u \in Seq(Tokens), NEW x \in Tokens, NEW v \in Seq(Tokens)
  PROVE  Append(u, x) \o v = u \o (<<x>> \o v) /\ <<x>> \o v \in Seq(Tokens)
BY AppendThen, SMTT(40)

LEMMA AppendJoin ==
  ASSUME NEW S, NEW s \in Seq(S), NEW t \in Seq(S), NEW x \in S
  PROVE  s \o Append(t, x) = Append(s \o t, x) /\ s \o t \in Seq(S) /\ Append(t, x) \in Seq(S)
<1>1. Append(t, x) = t \o <<x>> /\ Append(t, x) \in Seq(S) /\ <<x>> \in Seq(S)
  BY AppendIs
<1>2. s \o t \in Seq(S)
  BY ConcatProperties
<1>3. Append(s \o t, x) = (s \o t) \o <<x>>
  BY <1>2, AppendIs
<1> QED
  BY <1>1, <1>2, <1>3, ConcatAssociative

LEMMA AppendEqual ==
  ASSUME NEW S, NEW x \in S, NEW y \in S, NEW s \in Seq(S), NEW t \in Seq(S), Append(s, x) = Append(t, y)
  PROVE  x = y /\ s = t
<1>1. Len(Append(s, x)) = Len(s) + 1 /\ Len(Append(t, y)) = Len(t) + 1 /\ Len(s) \in Nat /\ Len(t) \in Nat
  BY AppendProperties, LenProperties
<1>2. Len(s) = Len(t)
  BY <1>1
<1>3. x = y
  BY <1>2, AppendProperties
<1>4. s = t
  <2>1. \A i \in 1 .. Len(s) : s[i] = t[i]
    BY <1>2, AppendProperties
  <2> QED BY <1>2, <2>1, SeqEqual
<1> QED
  BY <1>3, <1>4

\* A sequence that is not empty begins with an element, and ends with one.
LEMMA FirstAndRest ==
  ASSUME NEW S, NEW s \in Seq(S), s # <<>>
  PROVE  \E x \in S, t \in Seq(S) : s = <<x>> \o t
<1>1. Len(s) \in Nat \ {0}
  BY EmptySeq
<1>2. SubSeq(s, 1, Len(s)) = <<s[1]>> \o SubSeq(s, 2, Len(s))
  BY <1>1, SubSeqRecursiveFirst
<1>3. SubSeq(s, 1, Len(s)) = s
  BY SubSeqFull
<1>4. s[1] \in S /\ SubSeq(s, 2, Len(s)) \in Seq(S)
  BY <1>1, ElementOfSeq, SubSeqProperties
<1> QED
  BY <1>2, <1>3, <1>4

LEMMA RestAndLast ==
  ASSUME NEW S, NEW s \in Seq(S), s # <<>>
  PROVE  \E x \in S, t \in Seq(S) : s = Append(t, x)
<1>1. Len(s) \in Nat \ {0}
  BY EmptySeq
<1>2. SubSeq(s, 1, Len(s)) = SubSeq(s, 1, Len(s) - 1) \o <<s[Len(s)]>>
  BY <1>1, SubSeqRecursiveSecond
<1>3. SubSeq(s, 1, Len(s)) = s
  BY SubSeqFull
<1>4. s[Len(s)] \in S /\ SubSeq(s, 1, Len(s) - 1) \in Seq(S)
  BY <1>1, ElementOfSeq, SubSeqProperties
<1> QED
  BY <1>2, <1>3, <1>4, AppendIs

\* A nonempty set of numbers has a least one.
LEMMA LeastOf ==
  ASSUME NEW S \in SUBSET Nat, S # {}
  PROVE  \E n \in S : \A m \in S : n <= m
<1> DEFINE R == OpToRel(<, Nat)
<1>1. PICK n \in S : \A m \in S : ~(<<m, n>> \in R)
  <2>1. IsWellFoundedOn(R, Nat)
    BY NatLessThanWellFounded
  <2> HIDE DEF R
  <2> QED BY <2>1, WFMin
<1>2. \A m \in S : n <= m
  <2> TAKE m \in S
  <2>1. n \in Nat /\ m \in Nat
    OBVIOUS
  <2>2. m < n => <<m, n>> \in R
    BY <2>1 DEF OpToRel
  <2> HIDE DEF R
  <2>3. ~(m < n)
    BY <1>1, <2>2
  <2> QED BY <2>1, <2>3
<1> QED BY <1>2

-----------------------------------------------------------------------------
(* Numbers and numerals.                                                    *)

Digits == ToSet(Numerals)
Digit(d) == Numerals[d + 1]

LEMMA Quotient ==
  /\ \A n \in Nat, b \in Nat \ {0} : n \div b \in Nat /\ n % b \in 0 .. b - 1
  /\ \A n \in Nat, b \in Nat \ {0} : n >= b /\ b >= 2 => n \div b < n /\ n \div b >= 1
<1>1. \A n \in Nat, b \in Nat \ {0} : n \div b \in Nat /\ n % b \in 0 .. b - 1
  OBVIOUS
<1>2. \A n \in Nat, b \in Nat \ {0} : n >= b /\ b >= 2 => n \div b < n /\ n \div b >= 1
  OBVIOUS
<1> QED
  BY <1>1, <1>2

LEMMA Times == ASSUME NEW a \in Nat \ {0}, NEW b \in Nat \ {0} PROVE a * b \in Nat /\ a * b >= 1
OBVIOUS

LEMMA Remainder ==
  ASSUME NEW n \in Nat, NEW b \in Nat \ {0}
  PROVE  n = (n \div b) * b + (n - (n \div b) * b) /\ n - (n \div b) * b \in 0 .. b - 1
<1>1. n \div b \in Nat
  OBVIOUS
<1>2. PICK q \in Nat : q = n \div b
  BY <1>1
<1>3. q * b <= n /\ n < (q + 1) * b
  BY <1>2
<1>4. n - q * b \in 0 .. b - 1
  BY <1>3
<1> QED
  BY <1>2, <1>3, <1>4

LEMMA Joined ==
  ASSUME NEW h \in Nat, NEW b \in Nat \ {0}, NEW d \in 0 .. b - 1
  PROVE  (h * b + d) \div b = h /\ (h * b + d) % b = d
OBVIOUS

\* The room the scanner asks for is the room there is.
LEMMA RoomIs ==
  ASSUME NEW h \in Nat, NEW l \in Nat, NEW b \in Nat \ {0}, NEW d \in 0 .. b - 1, l >= b
  PROVE  h <= (l - d) \div b <=> h * b + d <= l
OBVIOUS

LEMMA BaseIs ==
  /\ Base \in Nat /\ Base >= 4 /\ GenerationLimit \in Nat /\ GenerationLimit >= Base
  /\ \A d \in 0 .. Base - 1 : Digit(d) \in Digits /\ Value[Digit(d)] = d
  /\ \A x \in Digits : \E d \in 0 .. Base - 1 : x = Digit(d)
  /\ \A c, d \in 0 .. Base - 1 : Digit(c) = Digit(d) => c = d
  /\ Digit(0) = "0" /\ Digit(1) = "1" /\ Digit(2) = "2" /\ Digit(3) = "3"
<1>1. Base \in Nat /\ Base >= 4 /\ GenerationLimit \in Nat /\ GenerationLimit >= Base /\ DOMAIN Numerals = 1 .. Base
  BY TextAssumption DEF Base
<1>2. Digits = {Numerals[i] : i \in DOMAIN Numerals}
  BY DEF Digits, ToSet
<1>3. \A d \in 0 .. Base - 1 : d + 1 \in DOMAIN Numerals
  BY <1>1
<1>4. \A c, d \in 0 .. Base - 1 : Digit(c) = Digit(d) => c = d
  <2> TAKE c, d \in 0 .. Base - 1
  <2>1. Digit(c) = Digit(d) => c + 1 = d + 1
    BY <1>3, TextAssumption DEF Digit
  <2> QED BY <2>1
<1>5. \A d \in 0 .. Base - 1 : Digit(d) \in Digits
  BY <1>2, <1>3 DEF Digit
<1>6. \A x \in Digits : \E d \in 0 .. Base - 1 : x = Digit(d)
  <2> TAKE x \in Digits
  <2>1. PICK i \in 1 .. Base : x = Numerals[i]
    BY <1>1, <1>2
  <2>2. i - 1 \in 0 .. Base - 1 /\ (i - 1) + 1 = i
    BY <1>1
  <2> QED BY <2>1, <2>2 DEF Digit
<1>7. \A d \in 0 .. Base - 1 : Value[Digit(d)] = d
  <2> TAKE d \in 0 .. Base - 1
  <2>1. PICK c : c = CHOOSE i \in DOMAIN Numerals : Numerals[i] = Digit(d)
    OBVIOUS
  <2>2. Value[Digit(d)] = c - 1
    BY <1>5, <2>1 DEF Value, Digits
  <2>3. c = d + 1
    <3>1. d + 1 \in DOMAIN Numerals /\ Numerals[d + 1] = Digit(d)
      BY <1>3 DEF Digit
    <3>2. \A i \in DOMAIN Numerals : Numerals[i] = Numerals[d + 1] => i = d + 1
      BY <3>1, TextAssumption
    <3> QED BY <2>1, <3>1, <3>2
  <2>4. d \in Int
    BY <1>1
  <2> QED BY <2>2, <2>3, <2>4
<1>8. Digit(0) = "0" /\ Digit(1) = "1" /\ Digit(2) = "2" /\ Digit(3) = "3"
  BY TextAssumption DEF Digit
<1> QED
  BY <1>1, <1>4, <1>5, <1>6, <1>7, <1>8

-----------------------------------------------------------------------------
(* Decimal is defined.                                                      *)

Body(f, n) == IF n < Base THEN <<Numerals[n + 1]>> ELSE Append(f[n \div Base], Numerals[(n % Base) + 1])
DecimalTo(k, f) == f = [n \in 0 .. k |-> Body(f, n)]

LEMMA DecimalExists == \A k \in Nat : \E f : DecimalTo(k, f)
<1> DEFINE S == {k \in Nat : ~\E f : DecimalTo(k, f)}
<1> SUFFICES ASSUME S # {} PROVE FALSE
  OBVIOUS
<1>1. PICK n \in S : \A m \in S : n <= m
  BY LeastOf
<1>2. n \in Nat /\ ~\E f : DecimalTo(n, f)
  OBVIOUS
<1>3. CASE n = 0
  <2> DEFINE f == [i \in 0 .. 0 |-> <<Numerals[1]>>]
  <2>1. \A i \in 0 .. 0 : Body(f, i) = <<Numerals[1]>>
    BY BaseIs DEF Body
  <2>2. f = [i \in 0 .. 0 |-> Body(f, i)]
    BY <2>1
  <2> HIDE DEF f
  <2> QED BY <1>2, <1>3, <2>2 DEF DecimalTo
<1>4. CASE n # 0
  <2>1. n - 1 \in Nat /\ n - 1 < n
    BY <1>2, <1>4
  <2>2. n - 1 \notin S
    <3> HIDE DEF S
    <3> QED BY <1>1, <1>2, <2>1
  <2>3. PICK v : DecimalTo(n - 1, v)
    BY <2>1, <2>2
  <2> DEFINE f == [i \in 0 .. n |-> IF i = n THEN Body(v, n) ELSE v[i]]
  <2>4. \A i \in 0 .. n : Body(f, i) = Body(v, i)
    <3> TAKE i \in 0 .. n
    <3>1. i >= Base => i \div Base \in 0 .. n - 1 /\ i \div Base # n
      <4>1. i \in Nat /\ Base \in Nat \ {0} /\ Base >= 2
        BY <1>2, BaseIs
      <4>2. i >= Base => i \div Base \in Nat /\ i \div Base < i
        BY <4>1, Quotient
      <4> QED BY <1>2, <4>1, <4>2
    <3>2. i >= Base => f[i \div Base] = v[i \div Base]
      BY <1>2, <3>1
    <3>3. i < Base \/ i >= Base
      BY <1>2, BaseIs
    <3> HIDE DEF f
    <3> QED BY <1>2, <3>2, <3>3, BaseIs DEF Body
  <2>5. \A i \in 0 .. n : f[i] = Body(f, i)
    <3> TAKE i \in 0 .. n
    <3>1. i # n => i \in 0 .. n - 1 /\ v[i] = Body(v, i)
      BY <1>2, <2>3 DEF DecimalTo
    <3>2. f[i] = Body(v, i)
      BY <3>1
    <3> QED BY <2>4, <3>2
  <2>6. f = [i \in 0 .. n |-> f[i]]
    OBVIOUS
  <2> HIDE DEF f
  <2>7. f = [i \in 0 .. n |-> Body(f, i)]
    BY <2>5, <2>6
  <2> QED BY <1>2, <2>7 DEF DecimalTo
<1> QED
  BY <1>3, <1>4

LEMMA DecimalIs ==
  \A n \in 0 .. GenerationLimit :
    Decimal[n] = IF n < Base THEN <<Numerals[n + 1]>> ELSE Append(Decimal[n \div Base], Numerals[(n % Base) + 1])
<1>1. \E f : DecimalTo(GenerationLimit, f)
  BY DecimalExists, BaseIs
<1>2. DecimalTo(GenerationLimit, Decimal)
  BY <1>1 DEF DecimalTo, Body, Decimal
<1> QED
  BY <1>2 DEF DecimalTo, Body

-----------------------------------------------------------------------------
(* What a numeral looks like.                                               *)

LEMMA DigitType == \A d \in 0 .. Base - 1 : Digit(d) \in Tokens /\ Digit(d) \notin Marks
<1>1. \A d \in 0 .. Base - 1 : Digit(d) \in Digits
  BY BaseIs
<1> QED
  BY <1>1, TextAssumption DEF Tokens, Digits

\* One digit, and one digit more.
LEMMA DecimalOne == \A d \in 0 .. Base - 1 : Decimal[d] = <<Digit(d)>>
<1> TAKE d \in 0 .. Base - 1
<1>1. d \in 0 .. GenerationLimit /\ d < Base
  BY BaseIs
<1> QED
  BY <1>1, DecimalIs DEF Digit

LEMMA DecimalNext ==
  ASSUME NEW h \in 1 .. GenerationLimit, NEW d \in 0 .. Base - 1, h * Base + d <= GenerationLimit
  PROVE  Decimal[h * Base + d] = Append(Decimal[h], Digit(d))
<1>1. Base \in Nat \ {0} /\ Base >= 4 /\ GenerationLimit \in Nat /\ h \in Nat /\ d \in Nat
  BY BaseIs
<1>2. (h * Base + d) \div Base = h /\ (h * Base + d) % Base = d
  BY <1>1, Joined
<1>3. h * Base \in Nat /\ h * Base >= Base
  BY <1>1
<1>4. PICK n : n = h * Base + d
  OBVIOUS
<1>5. n \in 0 .. GenerationLimit /\ ~(n < Base) /\ n \div Base = h /\ n % Base = d
  BY <1>1, <1>2, <1>3, <1>4
<1>6. Decimal[n] = Append(Decimal[n \div Base], Numerals[(n % Base) + 1])
  BY <1>5, DecimalIs
<1> QED
  BY <1>4, <1>5, <1>6 DEF Digit

LEMMA DecimalSplit ==
  ASSUME NEW n \in 0 .. GenerationLimit, n >= Base
  PROVE  \E h \in 1 .. GenerationLimit, d \in 0 .. Base - 1 :
           h < n /\ n = h * Base + d /\ Decimal[n] = Append(Decimal[h], Digit(d))
<1>1. Base \in Nat \ {0} /\ Base >= 2 /\ GenerationLimit \in Nat /\ n \in Nat
  BY BaseIs
<1>2. n \div Base \in Nat /\ n \div Base < n /\ n \div Base >= 1
  BY <1>1, Quotient
<1>3. PICK h \in Nat : h = n \div Base
  BY <1>2
<1>4. n = h * Base + (n - h * Base) /\ n - h * Base \in 0 .. Base - 1
  BY <1>1, <1>3, Remainder
<1>5. PICK d \in 0 .. Base - 1 : n = h * Base + d
  BY <1>4
<1>6. h \in 1 .. GenerationLimit /\ h < n
  BY <1>1, <1>2, <1>3
<1>7. h * Base + d <= GenerationLimit
  BY <1>5
<1>8. Decimal[n] = Append(Decimal[h], Digit(d))
  BY <1>5, <1>6, <1>7, DecimalNext
<1> QED
  BY <1>5, <1>6, <1>8

LEMMA DecimalType == \A n \in 0 .. GenerationLimit : Decimal[n] \in Seq(Tokens) /\ Decimal[n] # <<>>
<1> DEFINE P(n) == Decimal[n] \in Seq(Tokens) /\ Decimal[n] # <<>>
<1> DEFINE S == {n \in 0 .. GenerationLimit : ~P(n)}
<1> SUFFICES ASSUME S # {} PROVE FALSE
  OBVIOUS
<1>1. S \in SUBSET Nat
  BY BaseIs
<1>2. PICK n \in S : \A m \in S : n <= m
  BY <1>1, LeastOf
<1>3. n \in 0 .. GenerationLimit /\ ~P(n) /\ \A m \in 0 .. GenerationLimit : m < n => P(m)
  <2>1. \A m \in 0 .. GenerationLimit : m < n => m \notin S
    <3> HIDE DEF S
    <3> QED BY <1>1, <1>2, BaseIs
  <2> QED BY <2>1
<1>4. CASE n < Base
  <2>1. n \in 0 .. Base - 1
    BY <1>3, <1>4, BaseIs
  <2>2. Decimal[n] = <<Digit(n)>> /\ Digit(n) \in Tokens
    BY <2>1, DecimalOne, DigitType
  <2> QED BY <1>3, <2>2
<1>5. CASE n >= Base
  <2>1. PICK h \in 1 .. GenerationLimit, d \in 0 .. Base - 1 :
             h < n /\ n = h * Base + d /\ Decimal[n] = Append(Decimal[h], Digit(d))
    BY <1>3, <1>5, DecimalSplit
  <2>2. h \in 0 .. GenerationLimit
    BY BaseIs
  <2>3. Decimal[h] \in Seq(Tokens) /\ Digit(d) \in Tokens
    BY <1>3, <2>1, <2>2, DigitType
  <2>4. Append(Decimal[h], Digit(d)) \in Seq(Tokens) /\ Len(Append(Decimal[h], Digit(d))) = Len(Decimal[h]) + 1
    BY <2>3, AppendProperties
  <2>5. Append(Decimal[h], Digit(d)) # <<>>
    BY <2>3, <2>4
  <2> QED BY <1>3, <2>1, <2>4, <2>5
<1> QED
  BY <1>3, <1>4, <1>5, BaseIs

\* No numeral begins with a zero.
LEMMA DecimalFirst ==
  \A g \in 1 .. GenerationLimit : \E v \in 1 .. Base - 1, t \in Seq(Tokens) :
    v <= g /\ Decimal[g] = <<Digit(v)>> \o t
<1> DEFINE P(g) == \E v \in 1 .. Base - 1, t \in Seq(Tokens) : v <= g /\ Decimal[g] = <<Digit(v)>> \o t
<1> DEFINE S == {g \in 1 .. GenerationLimit : ~P(g)}
<1> SUFFICES ASSUME S # {} PROVE FALSE
  OBVIOUS
<1>1. S \in SUBSET Nat
  BY BaseIs
<1>2. PICK g \in S : \A m \in S : g <= m
  BY <1>1, LeastOf
<1>3. g \in 1 .. GenerationLimit /\ ~P(g) /\ \A m \in 1 .. GenerationLimit : m < g => P(m)
  <2>1. \A m \in 1 .. GenerationLimit : m < g => m \notin S
    <3> HIDE DEF S
    <3> QED BY <1>1, <1>2, BaseIs
  <2> QED BY <2>1
<1> HIDE DEF S
<1>4. CASE g < Base
  <2>1. g \in 0 .. Base - 1 /\ g \in 1 .. Base - 1 /\ g <= g
    BY <1>3, <1>4, BaseIs
  <2>2. Decimal[g] = <<Digit(g)>> /\ Digit(g) \in Tokens
    BY <2>1, DecimalOne, DigitType
  <2>3. <<Digit(g)>> = <<Digit(g)>> \o <<>> /\ <<>> \in Seq(Tokens)
    BY <2>2, ConcatEmptySeq
  <2> QED BY <1>3, <2>1, <2>2, <2>3
<1>5. CASE g >= Base
  <2>0. g \in 0 .. GenerationLimit
    BY <1>3, BaseIs
  <2>1. PICK h \in 1 .. GenerationLimit, d \in 0 .. Base - 1 :
             h < g /\ g = h * Base + d /\ Decimal[g] = Append(Decimal[h], Digit(d))
    BY <1>5, <2>0, DecimalSplit
  <2>2. PICK v \in 1 .. Base - 1, t \in Seq(Tokens) : v <= h /\ Decimal[h] = <<Digit(v)>> \o t
    BY <1>3, <2>1
  <2>3. Digit(v) \in Tokens /\ Digit(d) \in Tokens
    BY BaseIs, DigitType
  <2>4. Append(<<Digit(v)>> \o t, Digit(d)) = <<Digit(v)>> \o Append(t, Digit(d)) /\ Append(t, Digit(d)) \in Seq(Tokens)
    <3>1. <<Digit(v)>> \in Seq(Tokens)
      BY <2>3
    <3> QED BY <2>3, <3>1, AppendJoin
  <2>5. v <= g
    BY <2>1, <2>2, BaseIs
  <2> QED BY <1>3, <2>1, <2>2, <2>4, <2>5
<1> QED
  BY <1>3, <1>4, <1>5, BaseIs

\* A numeral of more than one digit is not a numeral of one.
LEMMA DecimalLength ==
  ASSUME NEW g \in 0 .. GenerationLimit, NEW d \in 0 .. Base - 1, Decimal[g] = <<Digit(d)>>
  PROVE  g = d
<1>1. CASE g < Base
  <2>1. g \in 0 .. Base - 1
    BY <1>1, BaseIs
  <2>2. <<Digit(g)>> = <<Digit(d)>>
    BY <2>1, DecimalOne
  <2>3. Digit(g) = Digit(d)
    BY <2>2
  <2> QED BY <2>1, <2>3, BaseIs
<1>2. CASE g >= Base
  <2>1. PICK h \in 1 .. GenerationLimit, e \in 0 .. Base - 1 : Decimal[g] = Append(Decimal[h], Digit(e))
    BY <1>2, DecimalSplit
  <2>2. h \in 0 .. GenerationLimit
    BY BaseIs
  <2>3. Decimal[h] \in Seq(Tokens) /\ Decimal[h] # <<>> /\ Digit(e) \in Tokens /\ Digit(d) \in Tokens
    BY <2>2, DecimalType, DigitType
  <2>4. Append(<<>>, Digit(d)) = <<Digit(d)>> /\ <<>> \in Seq(Tokens)
    OBVIOUS
  <2>5. Append(Decimal[h], Digit(e)) = Append(<<>>, Digit(d))
    BY <2>1, <2>4
  <2>6. Decimal[h] = <<>>
    BY <2>3, <2>4, <2>5, AppendEqual
  <2> QED BY <2>3, <2>6
<1> QED
  BY <1>1, <1>2, BaseIs

\* Two numbers are never written the same.
LEMMA DecimalInjective == \A g, h \in 1 .. GenerationLimit : Decimal[g] = Decimal[h] => g = h
<1> DEFINE P(g) == \A h \in 1 .. GenerationLimit : Decimal[g] = Decimal[h] => g = h
<1> DEFINE S == {g \in 1 .. GenerationLimit : ~P(g)}
<1> SUFFICES ASSUME S # {} PROVE FALSE
  OBVIOUS
<1>1. S \in SUBSET Nat
  BY BaseIs
<1>2. PICK g \in S : \A m \in S : g <= m
  BY <1>1, LeastOf
<1>3. g \in 1 .. GenerationLimit /\ ~P(g) /\ \A m \in 1 .. GenerationLimit : m < g => P(m)
  <2>1. \A m \in 1 .. GenerationLimit : m < g => m \notin S
    <3> HIDE DEF S
    <3> QED BY <1>1, <1>2, BaseIs
  <2> QED BY <2>1
<1>4. PICK h \in 1 .. GenerationLimit : Decimal[g] = Decimal[h] /\ g # h
  BY <1>3
<1>5. g \in 0 .. GenerationLimit /\ h \in 0 .. GenerationLimit
  BY <1>3, BaseIs
<1>6. CASE g < Base
  <2>1. g \in 0 .. Base - 1
    BY <1>5, <1>6, BaseIs
  <2>2. Decimal[h] = <<Digit(g)>>
    BY <1>4, <2>1, DecimalOne
  <2> QED BY <1>4, <1>5, <2>1, <2>2, DecimalLength
<1>7. CASE h < Base
  <2>1. h \in 0 .. Base - 1
    BY <1>5, <1>7, BaseIs
  <2>2. Decimal[g] = <<Digit(h)>>
    BY <1>4, <2>1, DecimalOne
  <2> QED BY <1>4, <1>5, <2>1, <2>2, DecimalLength
<1>8. CASE g >= Base /\ h >= Base
  <2>1. PICK u \in 1 .. GenerationLimit, d \in 0 .. Base - 1 :
             u < g /\ g = u * Base + d /\ Decimal[g] = Append(Decimal[u], Digit(d))
    BY <1>5, <1>8, DecimalSplit
  <2>2. PICK v \in 1 .. GenerationLimit, e \in 0 .. Base - 1 :
             v < h /\ h = v * Base + e /\ Decimal[h] = Append(Decimal[v], Digit(e))
    BY <1>5, <1>8, DecimalSplit
  <2>3. u \in 0 .. GenerationLimit /\ v \in 0 .. GenerationLimit
    BY BaseIs
  <2>4. Decimal[u] \in Seq(Tokens) /\ Decimal[v] \in Seq(Tokens) /\ Digit(d) \in Tokens /\ Digit(e) \in Tokens
    BY <2>3, DecimalType, DigitType
  <2>5. Append(Decimal[u], Digit(d)) = Append(Decimal[v], Digit(e))
    BY <1>4, <2>1, <2>2
  <2>6. Digit(d) = Digit(e) /\ Decimal[u] = Decimal[v]
    BY <2>4, <2>5, AppendEqual
  <2>7. d = e /\ u = v
    BY <1>3, <2>1, <2>6, BaseIs
  <2> QED BY <1>4, <2>1, <2>2, <2>7
<1> QED
  BY <1>5, <1>6, <1>7, <1>8, BaseIs

\* What may follow the digits already read of a numeral: nothing, or a digit for which there is room.
LEMMA DecimalRest ==
  \A g \in 1 .. GenerationLimit, h \in 1 .. GenerationLimit, s \in Seq(Tokens) :
    Decimal[h] \o s = Decimal[g] =>
      \/ s = <<>> /\ h = g
      \/ \E d \in 0 .. Base - 1, r \in Seq(Tokens) : s = <<Digit(d)>> \o r /\ h * Base + d <= g
<1> DEFINE More(s, h, g) == \E d \in 0 .. Base - 1, r \in Seq(Tokens) : s = <<Digit(d)>> \o r /\ h * Base + d <= g
<1> DEFINE P(g) == \A h \in 1 .. GenerationLimit, s \in Seq(Tokens) :
                     Decimal[h] \o s = Decimal[g] => (s = <<>> /\ h = g) \/ More(s, h, g)
<1> DEFINE S == {g \in 1 .. GenerationLimit : ~P(g)}
<1> SUFFICES ASSUME S # {} PROVE FALSE
  OBVIOUS
<1>1. S \in SUBSET Nat
  BY BaseIs
<1>2. PICK g \in S : \A m \in S : g <= m
  BY <1>1, LeastOf
<1>3. g \in 1 .. GenerationLimit /\ ~P(g) /\ \A m \in 1 .. GenerationLimit : m < g => P(m)
  <2>1. \A m \in 1 .. GenerationLimit : m < g => m \notin S
    <3> HIDE DEF S
    <3> QED BY <1>1, <1>2, BaseIs
  <2> QED BY <2>1
<1> HIDE DEF S
<1>4. PICK h \in 1 .. GenerationLimit, s \in Seq(Tokens) :
           Decimal[h] \o s = Decimal[g] /\ ~((s = <<>> /\ h = g) \/ More(s, h, g))
  BY <1>3
<1>5. h \in 0 .. GenerationLimit /\ g \in 0 .. GenerationLimit
  BY <1>3, BaseIs
<1>6. Decimal[h] \in Seq(Tokens) /\ Decimal[h] # <<>>
  BY <1>5, DecimalType
<1>7. CASE s = <<>>
  <2>1. Decimal[h] = Decimal[g]
    BY <1>4, <1>6, <1>7, ConcatEmptySeq
  <2> QED BY <1>3, <1>4, <1>7, <2>1, DecimalInjective
<1>8. CASE s # <<>>
  <2>1. PICK x \in Tokens, r \in Seq(Tokens) : s = Append(r, x)
    BY <1>8, RestAndLast
  <2>2. Append(Decimal[h] \o r, x) = Decimal[g] /\ Decimal[h] \o r \in Seq(Tokens)
    <3>1. PICK c \in Seq(Tokens) : c = Decimal[h]
      BY <1>6
    <3>2. c \o Append(r, x) = Append(c \o r, x) /\ c \o r \in Seq(Tokens)
      BY AppendJoin
    <3> QED BY <1>4, <2>1, <3>1, <3>2
  <2>3. CASE g < Base
    <3>1. g \in 0 .. Base - 1
      BY <1>5, <2>3, BaseIs
    <3>2. Decimal[g] = <<Digit(g)>> /\ Digit(g) \in Tokens
      BY <3>1, DecimalOne, DigitType
    <3>3. Append(<<>>, Digit(g)) = <<Digit(g)>> /\ <<>> \in Seq(Tokens)
      OBVIOUS
    <3>4. Append(Decimal[h] \o r, x) = Append(<<>>, Digit(g))
      BY <2>2, <3>2, <3>3
    <3>5. Decimal[h] \o r = <<>>
      BY <2>2, <3>2, <3>3, <3>4, AppendEqual
    <3>6. \A u, v \in Seq(Tokens) : u \o v = <<>> => u = <<>>
      BY ConcatSimplifications
    <3> QED BY <1>6, <3>5, <3>6
  <2>4. CASE g >= Base
    <3>1. PICK u \in 1 .. GenerationLimit, e \in 0 .. Base - 1 :
               u < g /\ g = u * Base + e /\ Decimal[g] = Append(Decimal[u], Digit(e))
      BY <1>5, <2>4, DecimalSplit
    <3>2. u \in 0 .. GenerationLimit
      BY BaseIs
    <3>3. Decimal[u] \in Seq(Tokens) /\ Digit(e) \in Tokens
      BY <3>2, DecimalType, DigitType
    <3>4. Append(Decimal[h] \o r, x) = Append(Decimal[u], Digit(e))
      BY <2>2, <3>1
    <3>5. x = Digit(e) /\ Decimal[h] \o r = Decimal[u]
      BY <2>2, <3>3, <3>4, AppendEqual
    <3>6. (r = <<>> /\ h = u) \/ More(r, h, u)
      BY <1>3, <3>1, <3>5
    <3>7. CASE r = <<>> /\ h = u
      <4>1. s = <<Digit(e)>> \o <<>> /\ <<>> \in Seq(Tokens)
        <5>1. Append(<<>>, Digit(e)) = <<Digit(e)>>
          OBVIOUS
        <5>2. <<Digit(e)>> \in Seq(Tokens)
          BY <3>3
        <5>3. s = <<Digit(e)>>
          BY <2>1, <3>5, <3>7, <5>1
        <5> QED BY <5>2, <5>3, ConcatEmptySeq
      <4>2. h * Base + e <= g
        <5>1. h * Base \in Nat
          BY BaseIs
        <5>2. g = h * Base + e /\ g \in Nat
          BY <1>5, <3>1, <3>7, BaseIs
        <5> QED BY <5>1, <5>2, BaseIs
      <4>3. More(s, h, g)
        BY <4>1, <4>2
      <4> QED BY <1>4, <4>3
    <3>8. CASE More(r, h, u)
      <4>1. PICK d \in 0 .. Base - 1, w \in Seq(Tokens) : r = <<Digit(d)>> \o w /\ h * Base + d <= u
        BY <3>8
      <4>2. Append(r, x) = <<Digit(d)>> \o Append(w, x) /\ Append(w, x) \in Seq(Tokens)
        <5>1. Digit(d) \in Tokens
          BY DigitType
        <5>2. <<Digit(d)>> \in Seq(Tokens)
          BY <5>1
        <5>3. <<Digit(d)>> \o Append(w, x) = Append(<<Digit(d)>> \o w, x) /\ Append(w, x) \in Seq(Tokens)
          BY <5>2, AppendJoin
        <5> QED BY <4>1, <5>3
      <4>3. h * Base + d <= g
        <5>1. h * Base \in Nat
          BY BaseIs
        <5>2. h * Base + d <= u /\ u < g /\ d \in Nat /\ u \in Nat /\ g \in Nat
          BY <1>5, <3>1, <4>1, BaseIs
        <5> QED BY <5>1, <5>2
      <4>4. More(s, h, g)
        BY <2>1, <4>2, <4>3
      <4> QED BY <1>4, <4>4
    <3> QED BY <3>6, <3>7, <3>8
  <2> QED BY <1>5, <2>3, <2>4, BaseIs
<1> QED
  BY <1>7, <1>8

-----------------------------------------------------------------------------
(* What a record looks like: its text with what follows it, cut before each *)
(* token that the scanner expects.                                          *)

Trial(r) == IF r.tries = Confirmed THEN "dash" ELSE Numerals[r.tries + 1]
FromTries(r, rest) == <<Trial(r)>> \o rest
FromComma(r, rest) == <<"comma">> \o FromTries(r, rest)
FromDigits(r, rest) == Decimal[r.generation] \o FromComma(r, rest)
FromKernel(r, rest) == <<r.kernel>> \o FromDigits(r, rest)
FromId(r, rest) == <<r.id>> \o FromKernel(r, rest)

LEMMA TokenIs ==
  /\ Names \subseteq Tokens /\ Marks \subseteq Tokens
  /\ "comma" \in Tokens /\ "semicolon" \in Tokens /\ "end" \in Tokens /\ "dash" \in Tokens
  /\ \A x \in Digits : x # "comma" /\ x # "dash"
BY TextAssumption DEF Tokens, Marks, Digits

LEMMA RecordIs ==
  ASSUME NEW r \in mica_boot_record
  PROVE  r.id \in Names /\ r.kernel \in Names /\ r.generation \in 1 .. GenerationLimit
BY DEF mica_boot_record

LEMMA TriesIs == \A n \in Tries : \E d \in 0 .. 3 : n = Digit(d) /\ Value[n] = d /\ n # "dash"
<1> TAKE n \in Tries
<1>1. PICK d \in 0 .. 3 : n = Digit(d)
  BY BaseIs DEF Tries
<1>2. d \in 0 .. Base - 1
  BY BaseIs
<1>3. Value[Digit(d)] = d /\ Digit(d) \in Digits
  BY <1>2, BaseIs
<1> QED
  BY <1>1, <1>3, TokenIs

LEMMA TrialIs ==
  ASSUME NEW r \in mica_boot_record
  PROVE  /\ Trial(r) \in Tries \cup {"dash"} /\ Trial(r) \in Tokens
         /\ r.tries = IF Trial(r) = "dash" THEN Confirmed ELSE Value[Trial(r)]
<1>1. CASE r.tries = Confirmed
  BY <1>1, TokenIs DEF Trial
<1>2. CASE r.tries # Confirmed
  <2>1. PICK n \in Tries : r.tries = Value[n]
    BY <1>2 DEF mica_boot_record
  <2>2. PICK d \in 0 .. 3 : n = Digit(d) /\ Value[n] = d /\ n # "dash"
    BY TriesIs
  <2>3. Trial(r) = Numerals[r.tries + 1]
    BY <1>2 DEF Trial
  <2>4. Trial(r) = n
    BY <2>1, <2>2, <2>3 DEF Digit
  <2>5. d \in 0 .. Base - 1
    BY BaseIs
  <2>6. n \in Tokens
    BY <2>2, <2>5, DigitType
  <2> QED BY <2>1, <2>2, <2>4, <2>6
<1> QED
  BY <1>1, <1>2

\* The record that is made of a token has the token as its count.
LEMMA TrialOf ==
  ASSUME NEW r, NEW token \in Tries \cup {"dash"},
         r.tries = IF token = "dash" THEN Confirmed ELSE Value[token]
  PROVE  Trial(r) = token
<1>1. CASE token = "dash"
  BY <1>1 DEF Trial
<1>2. CASE token # "dash"
  <2>1. PICK d \in 0 .. 3 : token = Digit(d) /\ Value[token] = d
    BY <1>2, TriesIs
  <2>2. r.tries = d /\ r.tries # Confirmed
    BY <1>2, <2>1 DEF Confirmed
  <2> QED BY <2>1, <2>2 DEF Trial, Digit
<1> QED
  BY <1>1, <1>2

LEMMA PartsType ==
  ASSUME NEW r \in mica_boot_record, NEW rest \in Seq(Tokens)
  PROVE  /\ r.id \in Tokens /\ r.kernel \in Tokens /\ Trial(r) \in Tokens
         /\ Decimal[r.generation] \in Seq(Tokens)
         /\ FromTries(r, rest) \in Seq(Tokens) /\ FromComma(r, rest) \in Seq(Tokens)
         /\ FromDigits(r, rest) \in Seq(Tokens) /\ FromKernel(r, rest) \in Seq(Tokens)
         /\ FromId(r, rest) \in Seq(Tokens)
<1>1. r.id \in Tokens /\ r.kernel \in Tokens /\ Trial(r) \in Tokens /\ "comma" \in Tokens
  BY RecordIs, TrialIs, TokenIs
<1>2. Decimal[r.generation] \in Seq(Tokens)
  <2>1. r.generation \in 0 .. GenerationLimit
    BY RecordIs, BaseIs
  <2> QED BY <2>1, DecimalType
<1>3. \A x \in Tokens, s \in Seq(Tokens) : <<x>> \o s \in Seq(Tokens)
  OBVIOUS
<1>4. FromTries(r, rest) \in Seq(Tokens)
  BY <1>1, <1>3 DEF FromTries
<1>5. FromComma(r, rest) \in Seq(Tokens)
  BY <1>1, <1>3, <1>4 DEF FromComma
<1>6. FromDigits(r, rest) \in Seq(Tokens)
  BY <1>2, <1>5, ConcatProperties DEF FromDigits
<1>7. FromKernel(r, rest) \in Seq(Tokens)
  BY <1>1, <1>3, <1>6 DEF FromKernel
<1>8. FromId(r, rest) \in Seq(Tokens)
  BY <1>1, <1>3, <1>7 DEF FromId
<1> QED
  BY <1>1, <1>2, <1>4, <1>5, <1>6, <1>7, <1>8

\* The text of a record, one token after another.
LEMMA WrittenAppends ==
  ASSUME NEW r \in mica_boot_record, NEW s \in Seq(Tokens)
  PROVE  /\ Written(r) \in Seq(Tokens)
         /\ s \o Written(r) =
              Append(Append(Append(Append(s, r.id), r.kernel) \o Decimal[r.generation], "comma"), Trial(r))
<1>1. PICK i \in Tokens, k \in Tokens, d \in Seq(Tokens), c \in Tokens, n \in Tokens :
        i = r.id /\ k = r.kernel /\ d = Decimal[r.generation] /\ c = "comma" /\ n = Trial(r)
  BY PartsType, TokenIs
<1>2. Written(r) = (<<i, k>> \o d) \o <<c, n>>
  BY <1>1 DEF Written, Trial
<1>3. <<i, k>> \in Seq(Tokens) /\ <<c, n>> \in Seq(Tokens) /\ <<i>> \in Seq(Tokens) /\ <<c>> \in Seq(Tokens)
  OBVIOUS
<1>4. <<i, k>> = Append(<<i>>, k) /\ <<c, n>> = Append(<<c>>, n)
  OBVIOUS
<1>5. <<i, k>> \o d \in Seq(Tokens) /\ (<<i, k>> \o d) \o <<c, n>> \in Seq(Tokens)
  BY <1>3, ConcatProperties
<1>6. s \o <<i, k>> = Append(Append(s, i), k) /\ s \o <<i, k>> \in Seq(Tokens)
  <2>1. s \o Append(<<i>>, k) = Append(s \o <<i>>, k) /\ s \o <<i>> = Append(s, i)
    BY <1>3, AppendJoin, AppendIs
  <2> QED BY <1>3, <1>4, <2>1, ConcatProperties, SMTT(40)
<1>7. (s \o <<i, k>>) \o d \in Seq(Tokens) /\ s \o (<<i, k>> \o d) = (s \o <<i, k>>) \o d
  BY <1>3, <1>6, ConcatProperties, ConcatAssociative, SMTT(40)
<1>8. \A u \in Seq(Tokens) : u \o <<c, n>> = Append(Append(u, c), n)
  <2> TAKE u \in Seq(Tokens)
  <2>1. u \o Append(<<c>>, n) = Append(u \o <<c>>, n) /\ u \o <<c>> = Append(u, c)
    BY <1>3, AppendJoin, AppendIs
  <2> QED BY <1>4, <2>1
<1>9. s \o ((<<i, k>> \o d) \o <<c, n>>) = (s \o (<<i, k>> \o d)) \o <<c, n>>
  BY <1>3, <1>5, ConcatAssociative
<1>10. s \o ((<<i, k>> \o d) \o <<c, n>>) = Append(Append(Append(Append(s, i), k) \o d, c), n)
  BY <1>6, <1>7, <1>8, <1>9
<1> QED
  BY <1>1, <1>2, <1>5, <1>10

\* The text of a record and what follows it.
LEMMA WrittenThen ==
  ASSUME NEW r \in mica_boot_record, NEW rest \in Seq(Tokens)
  PROVE  Written(r) \o rest = FromId(r, rest)
<1>1. PICK i \in Tokens, k \in Tokens, d \in Seq(Tokens), c \in Tokens, n \in Tokens :
        i = r.id /\ k = r.kernel /\ d = Decimal[r.generation] /\ c = "comma" /\ n = Trial(r)
  BY PartsType, TokenIs
<1>2. Written(r) = (<<i, k>> \o d) \o <<c, n>>
  BY <1>1 DEF Written, Trial
<1>3. FromId(r, rest) = <<i>> \o (<<k>> \o (d \o (<<c>> \o (<<n>> \o rest))))
  BY <1>1 DEF FromId, FromKernel, FromDigits, FromComma, FromTries
<1>4. <<i, k>> = <<i>> \o <<k>> /\ <<c, n>> = <<c>> \o <<n>>
  <2>1. <<i, k>> = Append(<<i>>, k) /\ <<c, n>> = Append(<<c>>, n) /\ <<i>> \in Seq(Tokens) /\ <<c>> \in Seq(Tokens)
    OBVIOUS
  <2> QED BY <2>1, AppendIs
<1>5. <<i>> \in Seq(Tokens) /\ <<k>> \in Seq(Tokens) /\ <<c>> \in Seq(Tokens) /\ <<n>> \in Seq(Tokens)
  OBVIOUS
<1>6. \A u, v, w \in Seq(Tokens) : (u \o v) \o w = u \o (v \o w) /\ v \o w \in Seq(Tokens)
  BY TokensAssociate, SMTT(40)
<1>7. <<c, n>> \o rest = <<c>> \o (<<n>> \o rest) /\ <<c, n>> \in Seq(Tokens) /\ <<n>> \o rest \in Seq(Tokens)
  BY <1>4, <1>5, <1>6
<1>8. <<c>> \o (<<n>> \o rest) \in Seq(Tokens)
  BY <1>5, <1>6, <1>7
<1>9. PICK e \in Seq(Tokens) : e = <<c>> \o (<<n>> \o rest)
  BY <1>8
<1>10. ((<<i, k>> \o d) \o <<c, n>>) \o rest = (<<i, k>> \o d) \o e
  <2>1. <<i, k>> \o d \in Seq(Tokens)
    BY <1>4, <1>5, <1>6
  <2> QED BY <1>6, <1>7, <1>9, <2>1, SMTT(40)
<1>11. (<<i, k>> \o d) \o e = <<i>> \o (<<k>> \o (d \o e))
  <2>1. <<i, k>> \in Seq(Tokens) /\ d \o e \in Seq(Tokens)
    BY <1>4, <1>5, <1>6
  <2>2. (<<i, k>> \o d) \o e = <<i, k>> \o (d \o e)
    BY <1>6, <2>1, SMTT(40)
  <2> QED BY <1>4, <1>5, <1>6, <2>1, <2>2, SMTT(40)
<1> QED
  BY <1>2, <1>3, <1>9, <1>10, <1>11

-----------------------------------------------------------------------------
(* The text of a list.                                                      *)

\* The text when the next record is expected, and what follows a record of the list.
Earlier(list) == IF Len(list) = 0 THEN <<>> ELSE Append(Rendered(list), "semicolon")
Ending(list, k) == IF k = Len(list) THEN <<"end">> ELSE <<"semicolon">> \o FromId(list[2], <<"end">>)

LEMMA RecordsIs ==
  ASSUME NEW list \in Records
  PROVE  /\ list \in Seq(mica_boot_record) /\ Len(list) \in 1 .. 2
         /\ \A i \in 1 .. Len(list) : list[i] \in mica_boot_record
         /\ \A i, j \in 1 .. Len(list) : i < j => list[i].id # list[j].id /\ list[i].generation > list[j].generation
<1>1. PICK n \in 1 .. 2 : list \in [1 .. n -> mica_boot_record]
  BY DEF Records, MICA_BOOT_RECORD_LIMIT
<1>2. list \in Seq(mica_boot_record) /\ Len(list) = n /\ DOMAIN list = 1 .. n
  BY <1>1
<1>3. \A i, j \in DOMAIN list : i < j => list[i].id # list[j].id /\ list[i].generation > list[j].generation
  BY DEF Records
<1> QED
  BY <1>1, <1>2, <1>3

LEMMA RecordsAre ==
  ASSUME NEW list \in Seq(mica_boot_record), Len(list) \in 1 .. 2,
         \A i, j \in 1 .. Len(list) : i < j => list[i].id # list[j].id /\ list[i].generation > list[j].generation
  PROVE  list \in Records
<1>1. list \in [1 .. Len(list) -> mica_boot_record] /\ DOMAIN list = 1 .. Len(list)
  OBVIOUS
<1> QED
  BY <1>1 DEF Records, MICA_BOOT_RECORD_LIMIT

LEMMA RenderedIs ==
  ASSUME NEW list, Len(list) \in 0 .. 2
  PROVE  /\ Len(list) = 0 => Rendered(list) = <<>>
         /\ Len(list) = 1 => Rendered(list) = (<<>> \o <<>>) \o Written(list[1])
         /\ Len(list) = 2 => Rendered(list) = ((((<<>> \o <<>>) \o Written(list[1])) \o <<"semicolon">>) \o Written(list[2]))
<1>0. PICK l \in 0 .. 2 : l = Len(list)
  OBVIOUS
<1> DEFINE G(f, n) == IF n = 0 THEN <<>> ELSE (f[n - 1] \o (IF n > 1 THEN <<"semicolon">> ELSE <<>>)) \o Written(list[n])
<1> DEFINE F(f) == f = [n \in 0 .. l |-> G(f, n)]
<1> DEFINE u == CHOOSE f : F(f)
<1>1. Rendered(list) = u[l]
  BY <1>0 DEF Rendered
<1> DEFINE one == (<<>> \o <<>>) \o Written(list[1])
<1> DEFINE two == (one \o <<"semicolon">>) \o Written(list[2])
<1> DEFINE w == [n \in 0 .. l |-> IF n = 0 THEN <<>> ELSE IF n = 1 THEN one ELSE two]
<1>2. \A n \in 0 .. l : w[n] = G(w, n)
  <2> TAKE n \in 0 .. l
  <2>1. n = 0 \/ n = 1 \/ n = 2
    OBVIOUS
  <2> HIDE DEF one, two
  <2>2. CASE n = 0
    BY <2>2
  <2>3. CASE n = 1
    <3>1. w[0] = <<>> /\ w[1] = one
      BY <2>3
    <3>2. G(w, 1) = (w[0] \o <<>>) \o Written(list[1])
      OBVIOUS
    <3> QED BY <2>3, <3>1, <3>2 DEF one
  <2>4. CASE n = 2
    <3>1. w[1] = one /\ w[2] = two
      BY <2>4
    <3>2. G(w, 2) = (w[1] \o <<"semicolon">>) \o Written(list[2])
      OBVIOUS
    <3> QED BY <2>4, <3>1, <3>2 DEF two
  <2> QED BY <2>1, <2>2, <2>3, <2>4
<1>3. F(w)
  <2>1. w = [n \in 0 .. l |-> w[n]]
    OBVIOUS
  <2> HIDE DEF w, G
  <2>2. w = [n \in 0 .. l |-> G(w, n)]
    BY <1>2, <2>1
  <2> QED BY <2>2
<1>4. F(u)
  <2> HIDE DEF F, w
  <2> QED BY <1>3
<1>5. \A n \in 0 .. l : u[n] = G(u, n)
  <2> HIDE DEF u, G
  <2> QED BY <1>4
<1> HIDE DEF u
<1>6. u[0] = <<>>
  <2>1. 0 \in 0 .. l
    OBVIOUS
  <2>2. u[0] = G(u, 0)
    BY <1>5, <2>1
  <2>3. G(u, 0) = <<>>
    OBVIOUS
  <2> QED BY <2>2, <2>3
<1>7. ASSUME l >= 1 PROVE u[1] = (<<>> \o <<>>) \o Written(list[1])
  <2>1. 1 \in 0 .. l
    BY <1>7
  <2>2. u[1] = G(u, 1)
    BY <1>5, <2>1
  <2>3. G(u, 1) = (u[0] \o <<>>) \o Written(list[1])
    OBVIOUS
  <2> QED BY <1>6, <2>2, <2>3
<1>8. ASSUME l = 2 PROVE u[2] = (u[1] \o <<"semicolon">>) \o Written(list[2])
  <2>1. 2 \in 0 .. l
    BY <1>8
  <2>2. u[2] = G(u, 2)
    BY <1>5, <2>1
  <2>3. G(u, 2) = (u[1] \o <<"semicolon">>) \o Written(list[2])
    OBVIOUS
  <2> QED BY <2>2, <2>3
<1> HIDE DEF G
<1>9. CASE l = 0
  BY <1>0, <1>1, <1>6, <1>9
<1>10. CASE l = 1
  <2>1. Rendered(list) = (<<>> \o <<>>) \o Written(list[1])
    BY <1>1, <1>7, <1>10
  <2> QED BY <1>0, <1>10, <2>1
<1>11. CASE l = 2
  <2>1. u[1] = (<<>> \o <<>>) \o Written(list[1])
    BY <1>7, <1>11
  <2>2. Rendered(list) = (u[1] \o <<"semicolon">>) \o Written(list[2])
    BY <1>1, <1>8, <1>11
  <2>3. Rendered(list) = (((<<>> \o <<>>) \o Written(list[1])) \o <<"semicolon">>) \o Written(list[2])
    BY <2>1, <2>2
  <2> QED BY <1>0, <1>11, <2>3
<1> QED
  BY <1>9, <1>10, <1>11

LEMMA RenderedType ==
  ASSUME NEW list \in Seq(mica_boot_record), Len(list) \in 0 .. 2
  PROVE  /\ Rendered(list) \in Seq(Tokens)
         /\ Len(list) = 0 => Rendered(list) = <<>>
         /\ Len(list) = 1 => Rendered(list) = Written(list[1])
         /\ Len(list) = 2 => Rendered(list) = Append(Written(list[1]), "semicolon") \o Written(list[2])
<1>1. \A i \in 1 .. Len(list) : list[i] \in mica_boot_record
  OBVIOUS
<1>2. <<>> \in Seq(Tokens) /\ <<"semicolon">> \in Seq(Tokens) /\ "semicolon" \in Tokens
  BY TokenIs
<1>3. CASE Len(list) = 0
  <2>1. Rendered(list) = <<>>
    BY <1>3, RenderedIs
  <2>2. Len(list) # 1 /\ Len(list) # 2
    BY <1>3
  <2> QED BY <1>2, <2>1, <2>2
<1>4. CASE Len(list) >= 1
  <2>1. list[1] \in mica_boot_record
    BY <1>1, <1>4
  <2>2. Written(list[1]) \in Seq(Tokens)
    BY <1>2, <2>1, WrittenAppends
  <2>3. PICK a \in Seq(Tokens) : a = Written(list[1])
    BY <2>2
  <2>4. (<<>> \o <<>>) \o a = a
    BY <1>2, ConcatEmptySeq
  <2>5. CASE Len(list) = 1
    BY <2>3, <2>4, <2>5, RenderedIs
  <2>6. CASE Len(list) = 2
    <3>1. list[2] \in mica_boot_record
      BY <1>1, <2>6
    <3>2. Written(list[2]) \in Seq(Tokens)
      BY <1>2, <3>1, WrittenAppends
    <3>3. PICK b \in Seq(Tokens) : b = Written(list[2])
      BY <3>2
    <3>4. a \o <<"semicolon">> = Append(a, "semicolon") /\ Append(a, "semicolon") \in Seq(Tokens)
      BY <1>2, AppendIs
    <3>5. Append(a, "semicolon") \o b \in Seq(Tokens)
      BY <3>4, ConcatProperties
    <3>6. Rendered(list) = (((<<>> \o <<>>) \o a) \o <<"semicolon">>) \o b
      BY <2>3, <2>6, <3>3, RenderedIs
    <3> QED BY <2>3, <2>4, <2>6, <3>3, <3>4, <3>5, <3>6
  <2> QED BY <1>4, <2>5, <2>6
<1> QED
  BY <1>3, <1>4

LEMMA BeforeType ==
  ASSUME NEW list \in Seq(mica_boot_record), Len(list) \in 0 .. 2
  PROVE  Earlier(list) \in Seq(Tokens)
<1>1. Rendered(list) \in Seq(Tokens) /\ "semicolon" \in Tokens /\ <<>> \in Seq(Tokens)
  BY RenderedType, TokenIs
<1> QED
  BY <1>1, AppendIs DEF Earlier

\* One record more.
LEMMA RenderedAppend ==
  ASSUME NEW list \in Seq(mica_boot_record), Len(list) \in 0 .. 1, NEW r \in mica_boot_record
  PROVE  /\ Rendered(Append(list, r)) = Earlier(list) \o Written(r)
         /\ Append(list, r) \in Seq(mica_boot_record) /\ Len(Append(list, r)) = Len(list) + 1
<1>1. /\ Append(list, r) \in Seq(mica_boot_record) /\ Len(Append(list, r)) = Len(list) + 1
      /\ Append(list, r)[Len(list) + 1] = r /\ \A i \in 1 .. Len(list) : Append(list, r)[i] = list[i]
  BY AppendProperties
<1>2. PICK more : more = Append(list, r)
  OBVIOUS
<1>3. more \in Seq(mica_boot_record) /\ Len(more) = Len(list) + 1 /\ Len(more) \in 0 .. 2
  BY <1>1, <1>2
<1>4. CASE Len(list) = 0
  <2>1. Rendered(more) = Written(r)
    BY <1>1, <1>2, <1>3, <1>4, RenderedType
  <2>2. Written(r) \in Seq(Tokens)
    <3>1. <<>> \in Seq(Tokens)
      OBVIOUS
    <3> QED BY <3>1, WrittenAppends
  <2>3. <<>> \o Written(r) = Written(r)
    BY <2>2, ConcatEmptySeq
  <2> QED BY <1>1, <1>2, <1>4, <2>1, <2>3 DEF Earlier
<1>5. CASE Len(list) = 1
  <2>1. more[1] = list[1] /\ more[2] = r /\ Len(more) = 2
    BY <1>1, <1>2, <1>3, <1>5
  <2>2. Rendered(more) = Append(Written(list[1]), "semicolon") \o Written(r)
    BY <1>3, <2>1, RenderedType
  <2>3. Earlier(list) = Append(Written(list[1]), "semicolon")
    BY <1>5, RenderedType DEF Earlier
  <2> QED BY <1>1, <1>2, <2>2, <2>3
<1> QED
  BY <1>4, <1>5

LEMMA EndingType ==
  ASSUME NEW list \in Records, NEW k \in 1 .. Len(list)
  PROVE  Ending(list, k) \in Seq(Tokens) /\ <<"end">> \in Seq(Tokens)
<1>1. "end" \in Tokens /\ "semicolon" \in Tokens /\ <<"end">> \in Seq(Tokens)
  BY TokenIs
<1>2. CASE k = Len(list)
  BY <1>1, <1>2 DEF Ending
<1>3. CASE Len(list) = 2
  <2>1. list[2] \in mica_boot_record
    BY <1>3, RecordsIs
  <2>2. FromId(list[2], <<"end">>) \in Seq(Tokens)
    BY <1>1, <2>1, PartsType
  <2>3. <<"semicolon">> \o FromId(list[2], <<"end">>) \in Seq(Tokens)
    BY <1>1, <2>2
  <2> QED BY <1>1, <2>3 DEF Ending
<1> QED
  BY <1>1, <1>2, <1>3, RecordsIs

-----------------------------------------------------------------------------
(* What the scanner has read is what render would have written.             *)

Opening == Append(Append(Earlier(out), id), kernel)

TextShape ==
  /\ text \in Seq(Tokens)
  /\ out \in Seq(mica_boot_record) /\ Len(out) \in 0 .. 2 /\ (Len(out) # 0 => out \in Records)
  /\ at \in {"id", "kernel", "generation", "digits", "tries", "separator", "accepted", "refused"}
  /\ generation \in 0 .. GenerationLimit
  /\ at \in {"kernel", "generation", "digits", "tries"} => Len(out) \in 0 .. 1 /\ id \in Names
  /\ at \in {"generation", "digits", "tries"} => kernel \in Names
  /\ at \in {"kernel", "generation"} => generation = 0
  /\ at \in {"digits", "tries"} => generation \in 1 .. GenerationLimit
  /\ at \in {"separator", "accepted"} => Len(out) # 0
  /\ at = "id" => text = Earlier(out)
  /\ at = "kernel" => text = Append(Earlier(out), id)
  /\ at = "generation" => text = Opening
  /\ at = "digits" => text = Opening \o Decimal[generation]
  /\ at = "tries" => text = Append(Opening \o Decimal[generation], "comma")
  /\ at = "separator" => text = Rendered(out)
  /\ at = "accepted" => text = Append(Rendered(out), "end")

LEMMA ShapeInit == TextInit => TextShape
<1> SUFFICES ASSUME TextInit PROVE TextShape
  OBVIOUS
<1>1. text = <<>> /\ out = <<>> /\ at = "id" /\ generation = 0
  BY DEF TextInit
<1>2. Len(out) = 0 /\ text \in Seq(Tokens) /\ out \in Seq(mica_boot_record)
  BY <1>1
<1>3. Earlier(out) = <<>>
  BY <1>2 DEF Earlier
<1>4. 0 \in 0 .. GenerationLimit
  BY BaseIs
<1> QED
  BY <1>1, <1>2, <1>3, <1>4 DEF TextShape

LEMMA ShapeId ==
  ASSUME TextShape, NEW token \in Tokens, text' = Append(text, token), ReadId(token)
  PROVE  TextShape'
<1>1. text' \in Seq(Tokens)
  BY AppendProperties DEF TextShape
<1>2. CASE Len(out) < MICA_BOOT_RECORD_LIMIT /\ token \in Names
  <2>1. at = "id" /\ at' = "kernel" /\ id' = token /\ generation' = 0 /\ out' = out /\ kernel' = kernel
    BY <1>2 DEF ReadId
  <2>2. Len(out) \in 0 .. 1
    <3>1. PICK l \in 0 .. 2 : l = Len(out)
      BY DEF TextShape
    <3>2. l < 2
      BY <1>2, <3>1 DEF MICA_BOOT_RECORD_LIMIT
    <3>3. l \in 0 .. 1
      BY <3>2
    <3> QED BY <3>1, <3>3
  <2>3. text' = Append(Earlier(out'), id')
    BY <2>1 DEF TextShape
  <2>4. 0 \in 0 .. GenerationLimit
    BY BaseIs
  <2> QED BY <1>1, <1>2, <2>1, <2>2, <2>3, <2>4 DEF TextShape
<1>3. CASE ~(Len(out) < MICA_BOOT_RECORD_LIMIT /\ token \in Names)
  BY <1>1, <1>3 DEF ReadId, Refuse, TextShape
<1> QED
  BY <1>2, <1>3

LEMMA ShapeKernel ==
  ASSUME TextShape, NEW token \in Tokens, text' = Append(text, token), ReadKernel(token)
  PROVE  TextShape'
<1>1. text' \in Seq(Tokens)
  BY AppendProperties DEF TextShape
<1>2. CASE token \in Names
  <2>1. at = "kernel" /\ at' = "generation" /\ kernel' = token /\ out' = out /\ id' = id /\ generation' = generation
    BY <1>2 DEF ReadKernel
  <2>2. text' = Opening'
    BY <2>1 DEF TextShape, Opening, Earlier
  <2> HIDE DEF Opening
  <2> QED BY <1>1, <1>2, <2>1, <2>2 DEF TextShape
<1>3. CASE token \notin Names
  BY <1>1, <1>3 DEF ReadKernel, Refuse, TextShape
<1> QED
  BY <1>2, <1>3

LEMMA HeadType ==
  ASSUME TextShape, at \in {"generation", "digits", "tries"}
  PROVE  Opening \in Seq(Tokens)
<1>1. Earlier(out) \in Seq(Tokens)
  BY BeforeType DEF TextShape
<1>2. id \in Tokens /\ kernel \in Tokens
  BY TokenIs DEF TextShape
<1> QED
  BY <1>1, <1>2, AppendProperties DEF Opening

LEMMA ShapeDigit ==
  ASSUME TextShape, NEW token \in Tokens, text' = Append(text, token), ReadDigit(token)
  PROVE  TextShape'
<1>1. text' \in Seq(Tokens)
  BY AppendProperties DEF TextShape
<1>2. CASE token \in ToSet(Numerals) /\ (at = "generation" => token # "0") /\ Fits(Value[token])
  <2>1. /\ at \in {"generation", "digits"} /\ at' = "digits" /\ generation' = generation * Base + Value[token]
        /\ out' = out /\ id' = id /\ kernel' = kernel
    BY <1>2 DEF ReadDigit
  <2>2. PICK d \in 0 .. Base - 1 : token = Digit(d)
    BY <1>2, BaseIs DEF Digits
  <2>3. Value[token] = d
    BY <2>2, BaseIs
  <2>4. Opening' = Opening
    BY <2>1 DEF Opening, Earlier
  <2>5. generation * Base + d <= GenerationLimit
    <3>1. generation \in Nat /\ GenerationLimit \in Nat /\ Base \in Nat \ {0} /\ GenerationLimit >= Base
      BY BaseIs DEF TextShape
    <3>2. generation <= (GenerationLimit - d) \div Base
      BY <1>2, <2>3 DEF Fits
    <3> QED BY <3>1, <3>2, RoomIs
  <2>6. generation' = generation * Base + d
    BY <2>1, <2>3
  <2>7. generation' \in 1 .. GenerationLimit /\ text' = Opening \o Decimal[generation']
    <3>1. CASE at = "generation"
      <4>1. generation = 0 /\ text = Opening /\ d # 0
        BY <1>2, <2>2, <3>1, BaseIs DEF TextShape
      <4>2. generation' = d /\ d \in 1 .. GenerationLimit
        BY <2>6, <4>1, BaseIs
      <4>3. Decimal[d] = <<Digit(d)>>
        BY DecimalOne
      <4>4. Append(Opening, token) = Opening \o <<token>>
        BY <3>1, HeadType, AppendIs
      <4> QED BY <2>2, <4>1, <4>2, <4>3, <4>4
    <3>2. CASE at = "digits"
      <4>1. generation \in 1 .. GenerationLimit /\ text = Opening \o Decimal[generation]
        BY <3>2 DEF TextShape
      <4>2. Decimal[generation * Base + d] = Append(Decimal[generation], Digit(d))
        BY <2>5, <4>1, DecimalNext
      <4>3. Decimal[generation] \in Seq(Tokens)
        <5>1. generation \in 0 .. GenerationLimit
          BY DEF TextShape
        <5> QED BY <5>1, DecimalType
      <4>4. PICK c \in Seq(Tokens), h \in Seq(Tokens) : c = Decimal[generation] /\ h = Opening
        BY <3>2, <4>3, HeadType
      <4>5. h \o Append(c, token) = Append(h \o c, token)
        BY AppendJoin
      <4>6. text' = Opening \o Decimal[generation']
        BY <2>2, <2>6, <4>1, <4>2, <4>4, <4>5
      <4>7. generation' \in 1 .. GenerationLimit
        <5>1. generation * Base \in Nat /\ generation * Base >= 1
          <6>1. generation \in Nat \ {0} /\ Base \in Nat \ {0}
            BY <4>1, BaseIs
          <6> QED BY <6>1, Times
        <5> QED BY <2>5, <2>6, <5>1, BaseIs
      <4> QED BY <4>6, <4>7
    <3> QED BY <2>1, <3>1, <3>2
  <2>8. generation' \in 0 .. GenerationLimit
    BY <2>7, BaseIs
  <2>9. Len(out) \in 0 .. 1 /\ id \in Names /\ kernel \in Names
    BY <2>1 DEF TextShape
  <2>10. text' = Opening' \o Decimal'[generation']
    BY <2>4, <2>7
  <2> HIDE DEF Opening
  <2> QED BY <1>1, <2>1, <2>7, <2>8, <2>9, <2>10 DEF TextShape
<1>3. CASE ~(token \in ToSet(Numerals) /\ (at = "generation" => token # "0") /\ Fits(Value[token]))
  BY <1>1, <1>3 DEF ReadDigit, Refuse, TextShape
<1> QED
  BY <1>2, <1>3

LEMMA ShapeComma ==
  ASSUME TextShape, NEW token \in Tokens, text' = Append(text, token), ReadComma(token)
  PROVE  TextShape'
<1>1. text' \in Seq(Tokens)
  BY AppendProperties DEF TextShape
<1>2. /\ at = "digits" /\ at' = "tries" /\ token = "comma"
      /\ out' = out /\ id' = id /\ kernel' = kernel /\ generation' = generation
  BY DEF ReadComma
<1>3. Opening' = Opening
  BY <1>2 DEF Opening, Earlier
<1>4. text' = Append(Opening' \o Decimal[generation'], "comma")
  BY <1>2, <1>3 DEF TextShape
<1> HIDE DEF Opening
<1> QED
  BY <1>1, <1>2, <1>4 DEF TextShape

LEMMA ShapeTries ==
  ASSUME TextShape, NEW token \in Tokens, text' = Append(text, token), ReadTries(token)
  PROVE  TextShape'
<1>1. text' \in Seq(Tokens)
  BY AppendProperties DEF TextShape
<1> DEFINE r == [id |-> id, kernel |-> kernel, generation |-> generation,
                 tries |-> IF token = "dash" THEN Confirmed ELSE Value[token]]
<1>2. CASE /\ token \in Tries \cup {"dash"}
           /\ \A i \in DOMAIN out : out[i].id # id /\ out[i].generation > generation
  <2>1. /\ at = "tries" /\ at' = "separator" /\ out' = Append(out, r)
        /\ id' = id /\ kernel' = kernel /\ generation' = generation
    BY <1>2 DEF ReadTries
  <2>2. /\ out \in Seq(mica_boot_record) /\ Len(out) \in 0 .. 1 /\ id \in Names /\ kernel \in Names
        /\ generation \in 1 .. GenerationLimit /\ generation \in 0 .. GenerationLimit
        /\ text = Append(Opening \o Decimal[generation], "comma")
    BY <2>1 DEF TextShape
  <2>3. r \in mica_boot_record /\ Trial(r) = token
    <3>1. r.tries \in {Confirmed} \cup {Value[n] : n \in Tries}
      BY <1>2
    <3>2. r \in mica_boot_record
      BY <2>2, <3>1 DEF mica_boot_record
    <3>3. r.tries = IF token = "dash" THEN Confirmed ELSE Value[token]
      OBVIOUS
    <3> HIDE DEF r
    <3>4. Trial(r) = token
      BY <1>2, <3>3, TrialOf
    <3> QED BY <3>2, <3>4
  <2>4. r.id = id /\ r.kernel = kernel /\ r.generation = generation
    OBVIOUS
  <2> HIDE DEF r
  <2>5. Earlier(out) \in Seq(Tokens)
    BY <2>2, BeforeType
  <2>6. text' = Earlier(out) \o Written(r)
    BY <2>2, <2>3, <2>4, <2>5, WrittenAppends DEF Opening
  <2>7. Rendered(out') = Earlier(out) \o Written(r) /\ out' \in Seq(mica_boot_record) /\ Len(out') = Len(out) + 1
    BY <2>1, <2>2, <2>3, RenderedAppend
  <2>8. PICK l \in 0 .. 1 : l = Len(out)
    BY <2>2
  <2>9. Len(out') = l + 1 /\ Len(out') \in 1 .. 2 /\ Len(out') \in 0 .. 2 /\ Len(out') # 0
    <3>1. Len(out') = l + 1
      BY <2>7, <2>8
    <3>2. l + 1 \in 1 .. 2 /\ l + 1 \in 0 .. 2 /\ l + 1 # 0
      OBVIOUS
    <3> QED BY <3>1, <3>2
  <2>10. out' \in Records
    <3>1. ASSUME NEW i \in 1 .. Len(out'), NEW j \in 1 .. Len(out'), i < j
          PROVE  out'[i].id # out'[j].id /\ out'[i].generation > out'[j].generation
      <4>1. i \in 1 .. l /\ j = l + 1
        <5>1. i \in 1 .. l + 1 /\ j \in 1 .. l + 1
          BY <2>9
        <5> QED BY <3>1, <5>1
      <4>2. out' = Append(out, r) /\ out \in Seq(mica_boot_record) /\ r \in mica_boot_record
        BY <2>1, <2>2, <2>3
      <4>3. \A n \in 1 .. Len(out) : Append(out, r)[n] = out[n]
        BY <4>2, AppendProperties
      <4>4. Append(out, r)[Len(out) + 1] = r
        BY <4>2, AppendProperties
      <4>5. DOMAIN out = 1 .. l
        BY <2>8, <4>2
      <4>6. out'[i] = out[i] /\ i \in DOMAIN out
        BY <2>8, <4>1, <4>2, <4>3, <4>5
      <4>7. out'[j] = r
        BY <2>8, <4>1, <4>2, <4>4
      <4> QED BY <1>2, <2>4, <4>6, <4>7
    <3>2. PICK list \in Seq(mica_boot_record) : list = out'
      BY <2>7
    <3>3. Len(list) \in 1 .. 2
      BY <2>9, <3>2
    <3>4. list \in Records
      BY <3>1, <3>2, <3>3, RecordsAre
    <3> QED BY <3>2, <3>4
  <2>11. text' = Rendered(out')
    BY <2>6, <2>7
  <2> HIDE DEF Opening
  <2> QED BY <1>1, <2>1, <2>2, <2>7, <2>9, <2>10, <2>11 DEF TextShape
<1>3. CASE ~(/\ token \in Tries \cup {"dash"}
             /\ \A i \in DOMAIN out : out[i].id # id /\ out[i].generation > generation)
  <2>1. Refuse
    BY <1>3 DEF ReadTries
  <2> QED BY <1>1, <2>1 DEF Refuse, TextShape
<1> QED
  BY <1>2, <1>3

LEMMA ShapeSeparator ==
  ASSUME TextShape, NEW token \in Tokens, text' = Append(text, token), ReadSeparator(token)
  PROVE  TextShape'
<1>1. text' \in Seq(Tokens)
  BY AppendProperties DEF TextShape
<1>2. at = "separator" /\ out' = out /\ id' = id /\ kernel' = kernel /\ generation' = generation
  BY DEF ReadSeparator, Refuse
<1>3. CASE token = "end"
  <2>1. at' = "accepted" /\ text' = Append(Rendered(out'), "end")
    BY <1>2, <1>3 DEF ReadSeparator, TextShape
  <2> QED BY <1>1, <1>2, <2>1 DEF TextShape
<1>4. CASE token = "semicolon"
  <2>1. at' = "id" /\ text' = Append(Rendered(out'), "semicolon") /\ Len(out') # 0
    BY <1>2, <1>4 DEF ReadSeparator, TextShape
  <2>2. text' = Earlier(out')
    BY <2>1 DEF Earlier
  <2> QED BY <1>1, <1>2, <2>1, <2>2 DEF TextShape
<1>5. CASE token # "end" /\ token # "semicolon"
  <2>1. at' = "refused"
    BY <1>5 DEF ReadSeparator, Refuse
  <2> QED BY <1>1, <1>2, <2>1 DEF TextShape
<1> QED
  BY <1>3, <1>4, <1>5

LEMMA ShapeStep == TextShape /\ [TextNext]_textVars => TextShape'
<1> SUFFICES ASSUME TextShape, [TextNext]_textVars PROVE TextShape'
  OBVIOUS
<1>1. CASE UNCHANGED textVars
  <2>1. text' = text /\ at' = at /\ out' = out /\ id' = id /\ kernel' = kernel /\ generation' = generation
    BY <1>1 DEF textVars
  <2>2. Opening' = Opening
    BY <2>1 DEF Opening, Earlier
  <2> HIDE DEF Opening
  <2> QED BY <2>1, <2>2 DEF TextShape
<1>2. CASE TextNext
  <2>1. PICK token \in Tokens :
          /\ text' = Append(text, token)
          /\ \/ ReadId(token) \/ ReadKernel(token) \/ ReadDigit(token)
             \/ ReadComma(token) \/ ReadTries(token) \/ ReadSeparator(token)
    BY <1>2 DEF TextNext
  <2> QED BY <2>1, ShapeId, ShapeKernel, ShapeDigit, ShapeComma, ShapeTries, ShapeSeparator
<1> QED
  BY <1>1, <1>2

-----------------------------------------------------------------------------
(* What render writes is never refused: when what has been read begins the  *)
(* text of a list, what is left of that text is what the scanner expects.   *)

\* The list begins with what was decoded; r is its next record, and y what follows r.
ExpectedOf(list, r, y, rest) ==
  /\ at # "refused"
  /\ Len(out) \in 0 .. Len(list)
  /\ \A i \in 1 .. Len(out) : out[i] = list[i]
  /\ at \in {"id", "kernel", "generation", "digits", "tries"} => Len(out) + 1 \in 1 .. Len(list)
  /\ at \in {"kernel", "generation", "digits", "tries"} => id = r.id
  /\ at \in {"generation", "digits", "tries"} => kernel = r.kernel
  /\ at = "tries" => generation = r.generation
  /\ at = "id" => rest = FromId(r, y)
  /\ at = "kernel" => rest = FromKernel(r, y)
  /\ at = "generation" => rest = FromDigits(r, y)
  /\ at = "digits" =>
       \E s \in Seq(Tokens) : Decimal[generation] \o s = Decimal[r.generation] /\ rest = s \o FromComma(r, y)
  /\ at = "tries" => rest = FromTries(r, y)
  /\ at = "separator" => Len(out) # 0 /\ rest = Ending(list, Len(out))

Expected(list, rest) == ExpectedOf(list, list[Len(out) + 1], Ending(list, Len(out) + 1), rest)

TextFollows ==
  \A list \in Records, rest \in Seq(Tokens) : text \o rest = mica_boot_render(list) => Expected(list, rest)

\* The whole text of a list.
LEMMA RenderIs ==
  ASSUME NEW list \in Records
  PROVE  mica_boot_render(list) = FromId(list[1], Ending(list, 1)) /\ mica_boot_render(list) \in Seq(Tokens)
<1>1. /\ list \in Seq(mica_boot_record) /\ Len(list) \in 1 .. 2 /\ Len(list) \in 0 .. 2
      /\ 1 \in 1 .. Len(list) /\ list[1] \in mica_boot_record
  BY RecordsIs
<1>2. <<"end">> \in Seq(Tokens) /\ "semicolon" \in Tokens /\ Ending(list, 1) \in Seq(Tokens)
  BY <1>1, EndingType, TokenIs
<1>3. Written(list[1]) \in Seq(Tokens)
  BY <1>1, <1>2, WrittenAppends
<1>4. CASE Len(list) = 1
  <2>1. Rendered(list) = Written(list[1])
    BY <1>1, <1>4, RenderedType
  <2>2. Ending(list, 1) = <<"end">>
    BY <1>4 DEF Ending
  <2>3. Written(list[1]) \o <<"end">> = FromId(list[1], <<"end">>)
    BY <1>1, <1>2, WrittenThen
  <2> QED BY <1>1, <1>2, <2>1, <2>2, <2>3, PartsType DEF mica_boot_render
<1>5. CASE Len(list) = 2
  <2>1. Rendered(list) = Append(Written(list[1]), "semicolon") \o Written(list[2])
    BY <1>1, <1>5, RenderedType
  <2>2. list[2] \in mica_boot_record
    BY <1>5, RecordsIs
  <2>3. Written(list[2]) \in Seq(Tokens)
    BY <1>2, <2>2, WrittenAppends
  <2>4. PICK a \in Seq(Tokens), b \in Seq(Tokens), e \in Seq(Tokens), c \in Tokens :
          a = Written(list[1]) /\ b = Written(list[2]) /\ e = <<"end">> /\ c = "semicolon"
    BY <1>2, <1>3, <2>3
  <2>5. mica_boot_render(list) = (Append(a, c) \o b) \o e
    BY <2>1, <2>4 DEF mica_boot_render
  <2>6. Append(a, c) \in Seq(Tokens) /\ b \o e \in Seq(Tokens) /\ <<c>> \o (b \o e) \in Seq(Tokens)
    BY AppendIs, ConcatProperties, TokensAppend
  <2>7. (Append(a, c) \o b) \o e = Append(a, c) \o (b \o e)
    BY <2>6, TokensAssociate, SMTT(40)
  <2>8. Append(a, c) \o (b \o e) = a \o (<<c>> \o (b \o e))
    BY <2>6, TokensAppend, SMTT(40)
  <2>9. b \o e = FromId(list[2], <<"end">>)
    BY <1>2, <2>2, <2>4, WrittenThen
  <2>10. Ending(list, 1) = <<c>> \o (b \o e)
    BY <1>5, <2>4, <2>9 DEF Ending
  <2>11. a \o Ending(list, 1) = FromId(list[1], Ending(list, 1))
    BY <1>1, <1>2, <2>4, WrittenThen
  <2> QED BY <1>1, <1>2, <2>5, <2>7, <2>8, <2>10, <2>11, PartsType
<1> QED
  BY <1>1, <1>4, <1>5

LEMMA FollowsInit == TextInit => TextFollows
<1> SUFFICES ASSUME TextInit, NEW list \in Records, NEW rest \in Seq(Tokens), text \o rest = mica_boot_render(list)
             PROVE  Expected(list, rest)
  BY DEF TextFollows
<1>1. text = <<>> /\ out = <<>> /\ at = "id" /\ Len(out) = 0
  BY DEF TextInit
<1>2. rest = mica_boot_render(list)
  BY <1>1, ConcatEmptySeq
<1>3. rest = FromId(list[1], Ending(list, 1)) /\ 1 \in 1 .. Len(list) /\ 0 \in 0 .. Len(list)
  BY <1>2, RenderIs, RecordsIs
<1> QED
  BY <1>1, <1>3 DEF Expected, ExpectedOf

LEMMA TokenSplit ==
  \A S : \A x, y \in S : \A s, t, u \in Seq(S) : Splits(x, s, y, t, u) => x = y /\ s = t \o u
<1> SUFFICES ASSUME NEW S, NEW x \in S, NEW y \in S, NEW s \in Seq(S), NEW t \in Seq(S),
                    NEW u \in Seq(S), Splits(x, s, y, t, u)
             PROVE  x = y /\ s = t \o u
  OBVIOUS
<1>1. PICK z \in Seq(S) : z = t \o u
  BY ConcatProperties
<1>2. (<<y>> \o t) \o u = <<y>> \o z
  <2>1. <<y>> \in Seq(S)
    OBVIOUS
  <2> QED BY <1>1, <2>1, ConcatAssociative
<1>3. Splits(x, s, y, z, <<>>)
  <2>1. (<<y>> \o z) \o <<>> = <<y>> \o z
    OBVIOUS
  <2> QED BY <1>2, <2>1 DEF Splits
<1> HIDE DEF Splits
<1>4. x = y /\ s = z
  BY <1>3, ConsSame
<1> QED
  BY <1>1, <1>4

\* The next record of a list, and the types of what is expected.
LEMMA NextRecord ==
  ASSUME TextShape, NEW list \in Records, NEW rest, Expected(list, rest),
         at \in {"id", "kernel", "generation", "digits", "tries"}
  PROVE  /\ Len(out) + 1 \in 1 .. Len(list)
         /\ list[Len(out) + 1] \in mica_boot_record
         /\ Ending(list, Len(out) + 1) \in Seq(Tokens)
<1>1. Len(out) + 1 \in 1 .. Len(list)
  BY DEF Expected, ExpectedOf
<1> QED
  BY <1>1, RecordsIs, EndingType

LEMMA FollowsId ==
  ASSUME TextShape, NEW token \in Tokens, NEW list \in Records, NEW rest \in Seq(Tokens),
         Expected(list, <<token>> \o rest), ReadId(token)
  PROVE  Expected(list, rest)'
<1>1. at = "id"
  BY DEF ReadId
<1>2. PICK r \in mica_boot_record, y \in Seq(Tokens) : r = list[Len(out) + 1] /\ y = Ending(list, Len(out) + 1)
  BY <1>1, NextRecord
<1>3. ExpectedOf(list, r, y, <<token>> \o rest)
  BY <1>2 DEF Expected
<1>4. <<token>> \o rest = <<r.id>> \o FromKernel(r, y)
  BY <1>1, <1>3 DEF ExpectedOf, FromId
<1>5. token = r.id /\ rest = FromKernel(r, y)
  BY <1>4, PartsType, ConsEqual
<1>6. Len(out) < MICA_BOOT_RECORD_LIMIT /\ token \in Names
  <2>1. Len(out) + 1 \in 1 .. Len(list) /\ Len(list) \in 1 .. 2 /\ Len(out) \in 0 .. 2
    BY <1>1, <1>3, RecordsIs DEF ExpectedOf, TextShape
  <2>2. Len(out) < 2
    <3>1. PICK l \in 0 .. 2, m \in 1 .. 2 : l = Len(out) /\ m = Len(list)
      BY <2>1
    <3>2. l + 1 \in 1 .. m
      BY <2>1, <3>1
    <3>3. l < 2
      BY <3>2
    <3> QED BY <3>1, <3>3
  <2> QED BY <1>5, <2>2, RecordIs DEF MICA_BOOT_RECORD_LIMIT
<1>7. at' = "kernel" /\ id' = r.id /\ out' = out
  BY <1>5, <1>6 DEF ReadId
<1>8. ExpectedOf(list, r, y, rest)'
  BY <1>1, <1>3, <1>5, <1>7 DEF ExpectedOf
<1> QED
  BY <1>2, <1>7, <1>8 DEF Expected

LEMMA FollowsKernel ==
  ASSUME TextShape, NEW token \in Tokens, NEW list \in Records, NEW rest \in Seq(Tokens),
         Expected(list, <<token>> \o rest), ReadKernel(token)
  PROVE  Expected(list, rest)'
<1>1. at = "kernel"
  BY DEF ReadKernel
<1>2. PICK r \in mica_boot_record, y \in Seq(Tokens) : r = list[Len(out) + 1] /\ y = Ending(list, Len(out) + 1)
  BY <1>1, NextRecord
<1>3. ExpectedOf(list, r, y, <<token>> \o rest)
  BY <1>2 DEF Expected
<1>4. <<token>> \o rest = <<r.kernel>> \o FromDigits(r, y)
  BY <1>1, <1>3 DEF ExpectedOf, FromKernel
<1>5. token = r.kernel /\ rest = FromDigits(r, y)
  BY <1>4, PartsType, ConsEqual
<1>6. at' = "generation" /\ kernel' = r.kernel /\ id' = id /\ out' = out
  BY <1>5, RecordIs DEF ReadKernel
<1>7. ExpectedOf(list, r, y, rest)'
  BY <1>1, <1>3, <1>5, <1>6 DEF ExpectedOf
<1> QED
  BY <1>2, <1>6, <1>7 DEF Expected

\* A digit is taken when it is one, is not a leading zero, and fits.
LEMMA DigitTaken ==
  ASSUME TextShape, NEW d \in 0 .. Base - 1, ReadDigit(Digit(d)), at = "generation" => d # 0,
         generation * Base + d <= GenerationLimit
  PROVE  at' = "digits" /\ generation' = generation * Base + d /\ out' = out /\ id' = id /\ kernel' = kernel
<1>1. Digit(d) \in ToSet(Numerals) /\ Value[Digit(d)] = d /\ (at = "generation" => Digit(d) # "0")
  <2>1. Digit(d) \in ToSet(Numerals) /\ Value[Digit(d)] = d
    BY BaseIs DEF Digits
  <2>2. Digit(d) = "0" => d = 0
    <3>1. 0 \in 0 .. Base - 1 /\ Digit(0) = "0"
      BY BaseIs
    <3>2. \A c, e \in 0 .. Base - 1 : Digit(c) = Digit(e) => c = e
      BY BaseIs
    <3> QED BY <3>1, <3>2
  <2> QED BY <2>1, <2>2
<1>2. Fits(Value[Digit(d)])
  <2>1. generation \in Nat /\ GenerationLimit \in Nat /\ Base \in Nat \ {0} /\ GenerationLimit >= Base
    BY BaseIs DEF TextShape
  <2>2. generation <= (GenerationLimit - d) \div Base
    BY <2>1, RoomIs
  <2> QED BY <1>1, <2>2 DEF Fits
<1> QED
  BY <1>1, <1>2 DEF ReadDigit

LEMMA FollowsDigit ==
  ASSUME TextShape, NEW token \in Tokens, NEW list \in Records, NEW rest \in Seq(Tokens),
         Expected(list, <<token>> \o rest), ReadDigit(token)
  PROVE  Expected(list, rest)'
<1>1. at \in {"generation", "digits"} /\ (at = "digits" => token # "comma")
  BY DEF ReadDigit
<1>2. PICK r \in mica_boot_record, y \in Seq(Tokens) : r = list[Len(out) + 1] /\ y = Ending(list, Len(out) + 1)
  BY <1>1, NextRecord
<1>3. ExpectedOf(list, r, y, <<token>> \o rest)
  BY <1>2 DEF Expected
<1>4. PICK e \in Seq(Tokens) : e = FromComma(r, y)
  BY PartsType
<1>5. r.generation \in 1 .. GenerationLimit /\ Decimal[r.generation] \in Seq(Tokens)
  BY RecordIs, PartsType
<1>6. \E d \in 0 .. Base - 1, s \in Seq(Tokens) :
        /\ token = Digit(d) /\ rest = s \o e /\ (at = "generation" => d # 0)
        /\ generation * Base + d \in 1 .. GenerationLimit
        /\ Decimal[generation * Base + d] \o s = Decimal[r.generation]
  <2>1. CASE at = "generation"
    <3>1. <<token>> \o rest = Decimal[r.generation] \o e /\ generation = 0
      BY <1>3, <1>4, <2>1 DEF ExpectedOf, FromDigits, TextShape
    <3>2. PICK v \in 1 .. Base - 1, t \in Seq(Tokens) : v <= r.generation /\ Decimal[r.generation] = <<Digit(v)>> \o t
      BY <1>5, DecimalFirst
    <3>3. v \in 0 .. Base - 1 /\ v # 0 /\ v \in 1 .. GenerationLimit /\ 0 * Base + v = v
      BY BaseIs
    <3>4. Digit(v) \in Tokens
      BY <3>3, DigitType
    <3>5. PICK q \in Tokens : q = Digit(v)
      BY <3>4
    <3>6. token = Digit(v) /\ rest = t \o e
      <4>1. Splits(token, rest, q, t, e)
        BY <3>1, <3>2, <3>5 DEF Splits
      <4>2. token = q /\ rest = t \o e
        BY <4>1, TokenSplit
      <4> QED BY <3>5, <4>2
    <3>7. Decimal[v] = <<Digit(v)>>
      BY <3>3, DecimalOne
    <3> QED BY <3>1, <3>2, <3>3, <3>6, <3>7
  <2>2. CASE at = "digits"
    <3>1. generation \in 1 .. GenerationLimit
      BY <2>2 DEF TextShape
    <3>2. PICK s \in Seq(Tokens) : Decimal[generation] \o s = Decimal[r.generation] /\ <<token>> \o rest = s \o e
      BY <1>3, <1>4, <2>2 DEF ExpectedOf
    <3>3. s # <<>>
      <4>1. SUFFICES ASSUME s = <<>> PROVE FALSE
        OBVIOUS
      <4>2. <<token>> \o rest = e
        BY <3>2, <4>1, ConcatEmptySeq
      <4>3. e = <<"comma">> \o FromTries(r, y) /\ "comma" \in Tokens /\ FromTries(r, y) \in Seq(Tokens)
        BY <1>4, PartsType, TokenIs DEF FromComma
      <4>4. token = "comma"
        BY <4>2, <4>3, ConsEqual
      <4> QED BY <1>1, <2>2, <4>4
    <3>4. PICK d \in 0 .. Base - 1, w \in Seq(Tokens) : s = <<Digit(d)>> \o w /\ generation * Base + d <= r.generation
      BY <1>5, <3>1, <3>2, <3>3, DecimalRest
    <3>5. Digit(d) \in Tokens /\ <<Digit(d)>> \in Seq(Tokens)
      BY DigitType
    <3>6. PICK q \in Tokens : q = Digit(d)
      BY <3>5
    <3>7. token = Digit(d) /\ rest = w \o e
      <4>1. Splits(token, rest, q, w, e)
        BY <3>2, <3>4, <3>6 DEF Splits
      <4>2. token = q /\ rest = w \o e
        BY <4>1, TokenSplit
      <4> QED BY <3>6, <4>2
    <3>8. generation * Base + d \in 1 .. GenerationLimit
      <4>1. generation \in Nat \ {0} /\ Base \in Nat \ {0} /\ GenerationLimit \in Nat
        BY <3>1, BaseIs
      <4>2. generation * Base \in Nat /\ generation * Base >= 1
        BY <4>1, Times
      <4> QED BY <1>5, <3>4, <4>1, <4>2
    <3>9. Decimal[generation * Base + d] = Append(Decimal[generation], Digit(d))
      BY <3>1, <3>8, DecimalNext
    <3>10. Decimal[generation] \in Seq(Tokens)
      <4>1. generation \in 0 .. GenerationLimit
        BY DEF TextShape
      <4> QED BY <4>1, DecimalType
    <3>11. PICK c \in Seq(Tokens) : c = Decimal[generation]
      BY <3>10
    <3>12. Append(c, Digit(d)) \o w = c \o (<<Digit(d)>> \o w)
      <4>1. Append(c, q) \o w = c \o (<<q>> \o w)
        BY TokensAppend, SMTT(40)
      <4> QED BY <3>6, <4>1
    <3>13. Decimal[generation * Base + d] \o w = Decimal[r.generation]
      BY <3>2, <3>4, <3>9, <3>11, <3>12
    <3> QED BY <2>2, <3>7, <3>8, <3>13
  <2> QED BY <1>1, <2>1, <2>2
<1>7. PICK d \in 0 .. Base - 1, s \in Seq(Tokens) :
        /\ token = Digit(d) /\ rest = s \o e /\ (at = "generation" => d # 0)
        /\ generation * Base + d \in 1 .. GenerationLimit
        /\ Decimal[generation * Base + d] \o s = Decimal[r.generation]
  BY <1>6
<1>8. generation * Base + d <= GenerationLimit
  BY <1>7, BaseIs
<1>9. at' = "digits" /\ generation' = generation * Base + d /\ out' = out /\ id' = id /\ kernel' = kernel
  BY <1>7, <1>8, DigitTaken
<1>10. Decimal[generation'] \o s = Decimal[r.generation] /\ rest = s \o FromComma(r, y)
  BY <1>4, <1>7, <1>9
<1>11. ExpectedOf(list, r, y, rest)'
  BY <1>1, <1>3, <1>9, <1>10 DEF ExpectedOf
<1> QED
  BY <1>2, <1>9, <1>11 DEF Expected

LEMMA FollowsComma ==
  ASSUME TextShape, NEW token \in Tokens, NEW list \in Records, NEW rest \in Seq(Tokens),
         Expected(list, <<token>> \o rest), ReadComma(token)
  PROVE  Expected(list, rest)'
<1>1. /\ at = "digits" /\ at' = "tries" /\ token = "comma"
      /\ out' = out /\ id' = id /\ kernel' = kernel /\ generation' = generation
  BY DEF ReadComma
<1>2. PICK r \in mica_boot_record, y \in Seq(Tokens) : r = list[Len(out) + 1] /\ y = Ending(list, Len(out) + 1)
  BY <1>1, NextRecord
<1>3. ExpectedOf(list, r, y, <<token>> \o rest)
  BY <1>2 DEF Expected
<1>4. PICK e \in Seq(Tokens) : e = FromComma(r, y)
  BY PartsType
<1>5. r.generation \in 1 .. GenerationLimit /\ generation \in 1 .. GenerationLimit
  BY <1>1, RecordIs DEF TextShape
<1>6. PICK s \in Seq(Tokens) : Decimal[generation] \o s = Decimal[r.generation] /\ <<token>> \o rest = s \o e
  BY <1>1, <1>3, <1>4 DEF ExpectedOf
<1>7. CASE s = <<>> /\ generation = r.generation
  <2>1. <<token>> \o rest = e
    BY <1>6, <1>7, ConcatEmptySeq
  <2>2. e = <<"comma">> \o FromTries(r, y) /\ "comma" \in Tokens /\ FromTries(r, y) \in Seq(Tokens)
    BY <1>4, PartsType, TokenIs DEF FromComma
  <2>3. rest = FromTries(r, y)
    <3>1. PICK c \in Tokens, f \in Seq(Tokens) : c = "comma" /\ f = FromTries(r, y)
      BY <2>2
    <3>2. <<token>> \o rest = <<c>> \o f
      BY <2>1, <2>2, <3>1
    <3>3. rest = f
      BY <3>2, ConsEqual, SMTT(40)
    <3> QED BY <3>1, <3>3
  <2>4. ExpectedOf(list, r, y, rest)'
    BY <1>1, <1>3, <1>7, <2>3 DEF ExpectedOf
  <2> QED BY <1>1, <1>2, <2>4 DEF Expected
<1>8. CASE \E d \in 0 .. Base - 1, w \in Seq(Tokens) : s = <<Digit(d)>> \o w /\ generation * Base + d <= r.generation
  <2>1. PICK d \in 0 .. Base - 1, w \in Seq(Tokens) : s = <<Digit(d)>> \o w
    BY <1>8
  <2>2. Digit(d) \in Tokens /\ <<Digit(d)>> \in Seq(Tokens) /\ Digit(d) \notin Marks
    BY DigitType
  <2>3. PICK q \in Tokens : q = Digit(d)
    BY <2>2
  <2>4. token = Digit(d)
    <3>1. Splits(token, rest, q, w, e)
      BY <1>6, <2>1, <2>3 DEF Splits
    <3>2. token = q
      BY <3>1, TokenSplit
    <3> QED BY <2>3, <3>2
  <2> QED BY <1>1, <2>2, <2>4 DEF Marks
<1> QED
  BY <1>5, <1>6, <1>7, <1>8, DecimalRest

LEMMA FollowsTries ==
  ASSUME TextShape, NEW token \in Tokens, NEW list \in Records, NEW rest \in Seq(Tokens),
         Expected(list, <<token>> \o rest), ReadTries(token)
  PROVE  Expected(list, rest)'
<1>1. at = "tries"
  BY DEF ReadTries
<1>2. PICK r \in mica_boot_record, y \in Seq(Tokens) : r = list[Len(out) + 1] /\ y = Ending(list, Len(out) + 1)
  BY <1>1, NextRecord
<1>3. ExpectedOf(list, r, y, <<token>> \o rest)
  BY <1>2 DEF Expected
<1>4. <<token>> \o rest = <<Trial(r)>> \o y
  BY <1>1, <1>3 DEF ExpectedOf, FromTries
<1>5. token = Trial(r) /\ rest = y
  BY <1>4, PartsType, ConsEqual
<1>6. id = r.id /\ kernel = r.kernel /\ generation = r.generation /\ Len(out) + 1 \in 1 .. Len(list)
  BY <1>1, <1>3 DEF ExpectedOf
<1>7. \A i \in DOMAIN out : out[i] = list[i] /\ i \in 1 .. Len(list) /\ i < Len(out) + 1
  <2> TAKE i \in DOMAIN out
  <2>1. i \in 1 .. Len(out) /\ Len(out) \in Nat /\ Len(list) \in Nat
    BY RecordsIs DEF TextShape
  <2>2. out[i] = list[i]
    BY <1>3, <2>1 DEF ExpectedOf
  <2> QED BY <1>6, <2>1, <2>2
<1>8. \A i \in DOMAIN out : out[i].id # id /\ out[i].generation > generation
  BY <1>2, <1>6, <1>7, RecordsIs
<1>9. token \in Tries \cup {"dash"} /\ r.tries = IF token = "dash" THEN Confirmed ELSE Value[token]
  BY <1>5, TrialIs
<1>10. /\ at' = "separator"
       /\ out' = Append(out, [id |-> r.id, kernel |-> r.kernel, generation |-> r.generation, tries |-> r.tries])
  BY <1>6, <1>8, <1>9 DEF ReadTries
<1>11. r = [id |-> r.id, kernel |-> r.kernel, generation |-> r.generation, tries |-> r.tries]
  BY DEF mica_boot_record
<1>12. out' = Append(out, r)
  BY <1>10, <1>11
<1>13. out \in Seq(mica_boot_record)
  BY DEF TextShape
<1>14. /\ Len(out') = Len(out) + 1 /\ out'[Len(out) + 1] = r
       /\ \A i \in 1 .. Len(out) : out'[i] = out[i]
  BY <1>12, <1>13, AppendProperties
<1>15. PICK l \in 0 .. 2, m \in 1 .. 2 : l = Len(out) /\ m = Len(list)
  BY RecordsIs DEF TextShape
<1>16. l + 1 \in 1 .. m
  BY <1>6, <1>15
<1>17. Len(out') = l + 1 /\ l + 1 \in 0 .. m /\ l + 1 # 0
  BY <1>14, <1>15, <1>16
<1>18. \A i \in 1 .. l + 1 : out'[i] = list[i]
  <2> TAKE i \in 1 .. l + 1
  <2>1. CASE i = l + 1
    BY <1>2, <1>14, <1>15, <2>1
  <2>2. CASE i # l + 1
    <3>1. i \in 1 .. l
      BY <2>2
    <3>2. out[i] = list[i]
      BY <1>3, <1>15, <3>1 DEF ExpectedOf
    <3> QED BY <1>14, <1>15, <3>1, <3>2
  <2> QED BY <2>1, <2>2
<1>19. rest = Ending(list, l + 1)
  BY <1>2, <1>5, <1>15
<1>20. PICK n : n = Len(out')
  OBVIOUS
<1>21. n \in 0 .. Len(list) /\ n # 0 /\ rest = Ending(list, n) /\ \A i \in 1 .. n : out'[i] = list[i]
  BY <1>15, <1>17, <1>18, <1>19, <1>20
<1>22. \A s, e : ExpectedOf(list, s, e, rest)'
  BY <1>10, <1>20, <1>21 DEF ExpectedOf
<1> QED
  BY <1>22 DEF Expected

LEMMA FollowsSeparator ==
  ASSUME TextShape, NEW token \in Tokens, NEW list \in Records, NEW rest \in Seq(Tokens),
         Expected(list, <<token>> \o rest), ReadSeparator(token)
  PROVE  Expected(list, rest)'
<1>1. at = "separator" /\ out' = out /\ id' = id /\ kernel' = kernel /\ generation' = generation
  BY DEF ReadSeparator, Refuse
<1>2. /\ Len(out) \in 0 .. Len(list) /\ Len(out) # 0 /\ <<token>> \o rest = Ending(list, Len(out))
      /\ \A i \in 1 .. Len(out) : out[i] = list[i]
  BY <1>1 DEF Expected, ExpectedOf
<1>3. Len(list) \in 1 .. 2 /\ "end" \in Tokens /\ "semicolon" \in Tokens /\ <<>> \in Seq(Tokens)
  BY RecordsIs, TokenIs
<1>4. CASE Len(out) = Len(list)
  <2>1. <<token>> \o rest = <<"end">>
    BY <1>2, <1>4 DEF Ending
  <2>2. <<"end">> = <<"end">> \o <<>>
    OBVIOUS
  <2>3. token = "end"
    BY <1>3, <2>1, <2>2, ConsEqual
  <2>4. at' = "accepted"
    BY <1>1, <2>3 DEF ReadSeparator
  <2>5. \A s, e : ExpectedOf(list, s, e, rest)'
    BY <1>1, <1>2, <2>4 DEF ExpectedOf
  <2> QED BY <2>5 DEF Expected
<1>5. CASE Len(out) # Len(list)
  <2>1. PICK l \in 0 .. 2, m \in 1 .. 2 : l = Len(out) /\ m = Len(list)
    BY <1>3 DEF TextShape
  <2>2. l = 1 /\ m = 2
    <3>1. l \in 0 .. m /\ l # 0 /\ l # m
      BY <1>2, <1>5, <2>1
    <3> QED BY <3>1
  <2>3. PICK r \in mica_boot_record : r = list[2]
    BY <2>1, <2>2, RecordsIs
  <2>4. <<"end">> \in Seq(Tokens)
    BY <1>3
  <2>5. <<token>> \o rest = <<"semicolon">> \o FromId(r, <<"end">>) /\ FromId(r, <<"end">>) \in Seq(Tokens)
    BY <1>2, <1>5, <2>3, <2>4, PartsType DEF Ending
  <2>6. token = "semicolon" /\ rest = FromId(r, <<"end">>)
    BY <1>3, <2>5, ConsEqual
  <2>7. at' = "id"
    BY <1>1, <2>6 DEF ReadSeparator
  <2>8. Ending(list, 2) = <<"end">>
    BY <2>1, <2>2 DEF Ending
  <2>9. ExpectedOf(list, r, <<"end">>, rest)'
    <3>1. Len(out') = 1 /\ Len(list) = 2 /\ 1 \in 0 .. 2 /\ 1 + 1 \in 1 .. 2
      BY <1>1, <2>1, <2>2
    <3> QED BY <1>1, <1>2, <2>6, <2>7, <3>1 DEF ExpectedOf
  <2>10. Len(out') + 1 = 2
    BY <1>1, <2>1, <2>2
  <2> QED BY <2>3, <2>8, <2>9, <2>10 DEF Expected
<1> QED
  BY <1>4, <1>5

LEMMA FollowsStep == TextShape /\ TextFollows /\ [TextNext]_textVars => TextFollows'
<1> SUFFICES ASSUME TextShape, TextFollows, [TextNext]_textVars PROVE TextFollows'
  OBVIOUS
<1>1. CASE UNCHANGED textVars
  <2>1. text' = text /\ at' = at /\ out' = out /\ id' = id /\ kernel' = kernel /\ generation' = generation
    BY <1>1 DEF textVars
  <2>2. ASSUME NEW list \in Records, NEW rest \in Seq(Tokens), Expected(list, rest)
        PROVE  Expected(list, rest)'
    BY <2>1, <2>2 DEF Expected, ExpectedOf
  <2> QED BY <2>1, <2>2 DEF TextFollows
<1>2. CASE TextNext
  <2>1. PICK token \in Tokens :
          /\ text' = Append(text, token)
          /\ \/ ReadId(token) \/ ReadKernel(token) \/ ReadDigit(token)
             \/ ReadComma(token) \/ ReadTries(token) \/ ReadSeparator(token)
    BY <1>2 DEF TextNext
  <2>2. SUFFICES ASSUME NEW list \in Records, NEW rest \in Seq(Tokens), text' \o rest = mica_boot_render(list)
                 PROVE  Expected(list, rest)'
    BY DEF TextFollows
  <2>3. Expected(list, <<token>> \o rest)
    <3>1. text \in Seq(Tokens)
      BY DEF TextShape
    <3>2. Append(text, token) \o rest = text \o (<<token>> \o rest) /\ <<token>> \o rest \in Seq(Tokens)
      BY <3>1, AppendThen
    <3>3. text \o (<<token>> \o rest) = mica_boot_render(list)
      BY <2>1, <2>2, <3>2
    <3> QED BY <3>2, <3>3 DEF TextFollows
  <2> QED BY <2>1, <2>3, FollowsId, FollowsKernel, FollowsDigit, FollowsComma, FollowsTries, FollowsSeparator
<1> QED
  BY <1>1, <1>2

-----------------------------------------------------------------------------
(* The theorems.                                                            *)

LEMMA TextInvariance == TextSpec => [](TextShape /\ TextFollows)
<1>1. TextInit => TextShape /\ TextFollows
  BY ShapeInit, FollowsInit
<1>2. (TextShape /\ TextFollows) /\ [TextNext]_textVars => (TextShape /\ TextFollows)'
  BY ShapeStep, FollowsStep
<1> QED
  BY <1>1, <1>2, PTL DEF TextSpec

LEMMA ShapeIsTyped == TextShape => TextTypeOK
<1> SUFFICES ASSUME TextShape PROVE TextTypeOK
  OBVIOUS
<1>1. PICK l \in 0 .. 2 : l = Len(out)
  BY DEF TextShape
<1>2. l <= 2
  BY <1>1
<1>3. Len(out) <= MICA_BOOT_RECORD_LIMIT
  BY <1>1, <1>2 DEF MICA_BOOT_RECORD_LIMIT
<1> QED
  BY <1>3 DEF TextShape, TextTypeOK

LEMMA ShapeIsExact == TextShape /\ TextFollows => ScannerExact
<1> SUFFICES ASSUME TextShape, TextFollows PROVE ScannerExact
  OBVIOUS
<1>1. ASSUME at = "accepted" PROVE out \in Records /\ text = mica_boot_render(out)
  <2>1. out \in Records /\ text = Append(Rendered(out), "end")
    BY <1>1 DEF TextShape
  <2>2. Rendered(out) \in Seq(Tokens) /\ "end" \in Tokens
    BY RenderedType, TokenIs DEF TextShape
  <2> QED BY <2>1, <2>2, AppendIs DEF mica_boot_render
<1>2. ASSUME at = "refused", text \in Beginnings PROVE FALSE
  <2>1. PICK t \in Texts : text \in {SubSeq(t, 1, n) : n \in 0 .. Len(t)}
    BY <1>2 DEF Beginnings
  <2>2. PICK list \in Records : t = mica_boot_render(list)
    BY <2>1 DEF Texts
  <2>3. t \in Seq(Tokens)
    BY <2>2, RenderIs
  <2>4. PICK n \in 0 .. Len(t) : text = SubSeq(t, 1, n)
    BY <2>1
  <2>5. PICK l \in Nat : l = Len(t)
    BY <2>3
  <2>6. SubSeq(t, 1, n) \o SubSeq(t, n + 1, l) = SubSeq(t, 1, l)
    <3>1. n \in 0 .. l /\ 1 \in 1 .. l + 1 /\ n \in 1 - 1 .. l /\ l \in n .. l
      BY <2>5
    <3> QED BY <2>3, <2>5, <3>1, ConcatAdjacentSubSeq
  <2>7. SubSeq(t, 1, l) = t
    BY <2>3, <2>5, SubSeqFull
  <2>8. SubSeq(t, n + 1, l) \in Seq(Tokens)
    <3>1. \A i \in n + 1 .. l : i \in 1 .. Len(t) /\ t[i] \in Tokens
      BY <2>3, <2>5
    <3>2. n + 1 \in Int /\ l \in Int
      BY <2>5
    <3> QED BY <3>1, <3>2, SubSeqProperties
  <2>9. Expected(list, SubSeq(t, n + 1, l))
    BY <2>2, <2>4, <2>6, <2>7, <2>8 DEF TextFollows
  <2> QED BY <1>2, <2>9 DEF Expected, ExpectedOf
<1> QED
  BY <1>1, <1>2 DEF ScannerExact

\* The scanner of the boot records stays within its states, its limit of
\* generations and its two records (mica_boot_parse).
THEOREM TextTypeCorrect == TextSpec => []TextTypeOK
BY TextInvariance, ShapeIsTyped, PTL

\* What mica_boot_parse accepts is the one text that render writes of what was
\* decoded, and no text that render writes is refused.
THEOREM ScannerCorrect == TextSpec => []ScannerExact
BY TextInvariance, ShapeIsExact, PTL

=============================================================================
