------------------------ MODULE MarshallerCodecProofs ------------------------
(***************************************************************************)
(* MarshallerCodec for any strings, ints and size of the pipe's buffer.    *)
(***************************************************************************)
EXTENDS MarshallerCodec, TLAPS, SequenceTheorems, FiniteSetTheorems, WellFoundedInduction

\* Every set of natural numbers has a least element, and induction over them.
LEMMA LeastElement ==
  ASSUME NEW T, T \subseteq Nat, T # {}
  PROVE  \E x \in T : \A y \in T : x <= y
<1> DEFINE R == {ss \in Nat \X Nat : ss[1] < ss[2]}
<1>1. IsWellFoundedOn(R, Nat)
  BY NatLessThanWellFounded DEF OpToRel
<1> HIDE DEF R
<1>2. PICK x \in T : \A y \in T : <<y, x>> \notin R
  BY <1>1, WFMin
<1>3. \A y \in T : x <= y
  <2> SUFFICES ASSUME NEW y \in T, ~(x <= y) PROVE FALSE
    OBVIOUS
  <2>1. <<y, x>> \in R
    BY DEF R
  <2> QED BY <2>1, <1>2
<1> QED BY <1>3

LEMMA Induction ==
  ASSUME NEW T, 0 \in T, \A n \in Nat : n \in T => n + 1 \in T
  PROVE  Nat \subseteq T
<1> SUFFICES ASSUME Nat \ T # {} PROVE FALSE
  OBVIOUS
<1>1. PICK n \in Nat \ T : \A k \in Nat \ T : n <= k
  BY LeastElement
<1>2. n - 1 \in Nat /\ n - 1 \in T
  BY <1>1
<1> QED BY <1>1, <1>2
------------------------------------------------------------------------------
\* GetWireFormat

Strings == Seq(Char)
D == <<WIRE_DELIMITER>>
Join(text, p) == text \o D \o p

\* The text of the first i parameters, for all i.
IsTextOf(f, m) ==
  /\ f \in [1 .. Len(m) -> Strings]
  /\ \A i \in 1 .. Len(m) : f[i] = IF i = 1 THEN m[1] ELSE Join(f[i - 1], m[i])

LEMMA DType == D \in Strings /\ Len(D) = 1 /\ D[1] = WIRE_DELIMITER
<1>1. WIRE_DELIMITER \in Char
  BY CharacterAssumption
<1> HIDE DEF WIRE_DELIMITER
<1> QED BY <1>1 DEF D, Strings

LEMMA JoinType ==
  ASSUME NEW s \in Strings, NEW p \in Strings
  PROVE  Join(s, p) \in Strings
BY DType, ConcatProperties DEF Join, Strings

LEMMA MessageFacts ==
  ASSUME NEW m \in Seq(Strings), m # <<>>
  PROVE  Len(m) \in Nat /\ Len(m) >= 1 /\ \A i \in 1 .. Len(m) : m[i] \in Strings
BY EmptySeq, ElementOfSeq

LEMMA TextExists ==
  ASSUME NEW m \in Seq(Strings), m # <<>>
  PROVE  \E f : IsTextOf(f, m)
<1> DEFINE Is(f, n) ==
      /\ f \in [1 .. n -> Strings]
      /\ \A i \in 1 .. n : f[i] = IF i = 1 THEN m[1] ELSE Join(f[i - 1], m[i])
<1> DEFINE T == {n \in Nat : n < Len(m) => \E f : Is(f, n + 1)}
<1>0. Len(m) \in Nat /\ Len(m) >= 1 /\ \A i \in 1 .. Len(m) : m[i] \in Strings
  BY MessageFacts
<1>1. 0 \in T
  <2> DEFINE f == [i \in 1 .. 1 |-> m[1]]
  <2>1. f \in [1 .. 1 -> Strings]
    BY <1>0
  <2>2. \A i \in 1 .. 1 : f[i] = IF i = 1 THEN m[1] ELSE Join(f[i - 1], m[i])
    OBVIOUS
  <2>3. Is(f, 0 + 1)
    BY <2>1, <2>2
  <2> HIDE DEF f, Is
  <2> QED BY <2>3
<1>2. ASSUME NEW n \in Nat, n \in T PROVE n + 1 \in T
  <2> SUFFICES ASSUME n + 1 < Len(m) PROVE \E f : Is(f, n + 2)
    OBVIOUS
  <2>1. PICK f : Is(f, n + 1)
    BY <1>2
  <2> DEFINE g == [i \in 1 .. n + 2 |-> IF i <= n + 1 THEN f[i] ELSE Join(f[n + 1], m[n + 2])]
  <2>2. Join(f[n + 1], m[n + 2]) \in Strings
    BY <1>0, <2>1, JoinType
  <2>3. g \in [1 .. n + 2 -> Strings]
    BY <2>1, <2>2
  <2>4. ASSUME NEW i \in 1 .. n + 2
        PROVE  g[i] = IF i = 1 THEN m[1] ELSE Join(g[i - 1], m[i])
    <3>1. CASE i <= n + 1
      BY <2>1, <3>1
    <3>2. CASE i = n + 2
      BY <3>2
    <3> QED BY <3>1, <3>2
  <2>5. Is(g, n + 2)
    BY <2>3, <2>4
  <2> HIDE DEF g, Is
  <2> QED BY <2>5
<1>3. Nat \subseteq T
  <2> HIDE DEF T
  <2> QED BY <1>1, <1>2, Induction
<1>4. \E f : Is(f, Len(m))
  <2>1. Len(m) - 1 \in T
    BY <1>0, <1>3
  <2>2. Len(m) - 1 < Len(m) /\ Len(m) - 1 + 1 = Len(m)
    BY <1>0
  <2> HIDE DEF Is
  <2> QED BY <2>1, <2>2
<1> QED BY <1>4 DEF IsTextOf

LEMMA WireFormatDef ==
  ASSUME NEW m \in Seq(Strings), m # <<>>
  PROVE  \E f : IsTextOf(f, m) /\ GetWireFormat(m) = f[Len(m)]
<1> DEFINE E(f) == f = [i \in 1 .. Len(m) |->
             IF i = 1 THEN m[1] ELSE f[i - 1] \o <<WIRE_DELIMITER>> \o m[i]]
<1>0. Len(m) \in Nat /\ Len(m) >= 1 /\ \A i \in 1 .. Len(m) : m[i] \in Strings
  BY MessageFacts
<1>1. PICK g : IsTextOf(g, m)
  BY TextExists
<1>2. E(g)
  BY <1>1 DEF D, IsTextOf, Join
<1> DEFINE f == CHOOSE h : E(h)
<1>3. E(f)
  BY <1>2
<1>4. GetWireFormat(m) = f[Len(m)]
  BY DEF GetWireFormat
<1>5. \A i \in 1 .. Len(m) : f[i] = IF i = 1 THEN m[1] ELSE Join(f[i - 1], m[i])
  BY <1>3 DEF D, Join
<1> HIDE DEF f, E
<1> DEFINE T == {n \in Nat : n < Len(m) => f[n + 1] = g[n + 1]}
<1>6. 0 \in T
  BY <1>0, <1>1, <1>5 DEF IsTextOf
<1>7. ASSUME NEW n \in Nat, n \in T PROVE n + 1 \in T
  <2> SUFFICES ASSUME n + 1 < Len(m) PROVE f[n + 2] = g[n + 2]
    OBVIOUS
  <2>1. f[n + 1] = g[n + 1]
    BY <1>7
  <2>2. n + 2 \in 1 .. Len(m) /\ n + 2 # 1 /\ n + 2 - 1 = n + 1
    BY <1>0
  <2>3. f[n + 2] = Join(f[n + 1], m[n + 2])
    BY <1>5, <2>2
  <2>4. g[n + 2] = Join(g[n + 1], m[n + 2])
    BY <1>1, <2>2 DEF IsTextOf
  <2> QED BY <2>1, <2>3, <2>4
<1>8. Nat \subseteq T
  <2> HIDE DEF T
  <2> QED BY <1>6, <1>7, Induction
<1>9. ASSUME NEW i \in 1 .. Len(m) PROVE f[i] = g[i]
  <2>1. i - 1 \in T
    BY <1>8
  <2> QED BY <2>1
<1>10. f[Len(m)] = g[Len(m)]
  BY <1>0, <1>9
<1> QED BY <1>1, <1>4, <1>10

LEMMA JoinFacts ==
  ASSUME NEW s \in Strings, NEW p \in Strings
  PROVE  /\ Join(s, p) \in Strings
         /\ Len(s) \in Nat /\ Len(p) \in Nat
         /\ Len(Join(s, p)) = Len(s) + 1 + Len(p)
         /\ \A i \in 1 .. Len(s) : Join(s, p)[i] = s[i]
         /\ Join(s, p)[Len(s) + 1] = WIRE_DELIMITER
         /\ \A i \in 1 .. Len(p) : Join(s, p)[Len(s) + 1 + i] = p[i]
<1>0. s \in Seq(Char) /\ p \in Seq(Char) /\ D \in Seq(Char) /\ Len(D) = 1
  BY DType DEF Strings
<1> HIDE DEF D
<1>1. /\ s \o D \in Strings /\ Len(s \o D) = Len(s) + 1
      /\ \A i \in 1 .. Len(s) + 1 : (s \o D)[i] = IF i <= Len(s) THEN s[i] ELSE D[i - Len(s)]
  <2>1. /\ s \o D \in Seq(Char) /\ Len(s \o D) = Len(s) + Len(D)
        /\ \A i \in 1 .. Len(s) + Len(D) : (s \o D)[i] = IF i <= Len(s) THEN s[i] ELSE D[i - Len(s)]
    BY <1>0, ConcatProperties
  <2> QED BY <1>0, <2>1 DEF Strings
<1>2. /\ Join(s, p) \in Strings /\ Len(Join(s, p)) = Len(s) + 1 + Len(p)
      /\ \A i \in 1 .. Len(s) + 1 + Len(p) :
           Join(s, p)[i] = IF i <= Len(s) + 1 THEN (s \o D)[i] ELSE p[i - (Len(s) + 1)]
  BY <1>1, ConcatProperties DEF Strings, Join
<1>3. Len(s) \in Nat /\ Len(p) \in Nat
  BY DEF Strings
<1>4. ASSUME NEW i \in 1 .. Len(s) PROVE Join(s, p)[i] = s[i]
  BY <1>1, <1>2, <1>3
<1>5. Join(s, p)[Len(s) + 1] = WIRE_DELIMITER
  BY <1>1, <1>2, <1>3, DType
<1>6. ASSUME NEW i \in 1 .. Len(p) PROVE Join(s, p)[Len(s) + 1 + i] = p[i]
  BY <1>1, <1>2, <1>3
<1> QED BY <1>2, <1>3, <1>4, <1>5, <1>6

LEMMA JoinLength ==
  ASSUME NEW s \in Strings, NEW p \in Strings
  PROVE  Len(Join(s, p)) = Len(s) + 1 + Len(p) /\ Len(s) \in Nat /\ Len(p) \in Nat
BY JoinFacts

LEMMA JoinAssociative ==
  ASSUME NEW s \in Strings, NEW p \in Strings, NEW q \in Strings
  PROVE  Join(Join(s, p), q) = Join(s, Join(p, q))
<1>1. s \o D \in Strings /\ p \o D \in Strings
  BY DType, ConcatProperties DEF Strings
<1>2. PICK v : v = s \o D
  OBVIOUS
<1>3. PICK w : w = p \o D
  OBVIOUS
<1>4. /\ v \in Seq(Char) /\ w \in Seq(Char) /\ D \in Seq(Char)
      /\ p \in Seq(Char) /\ q \in Seq(Char)
  BY <1>1, <1>2, <1>3, DType DEF Strings
<1> HIDE DEF D
<1>5. (v \o p) \o D = v \o (p \o D)
  BY <1>4, ConcatAssociative
<1>6. (v \o w) \o q = v \o (w \o q)
  BY <1>4, ConcatAssociative
<1> QED BY <1>2, <1>3, <1>5, <1>6 DEF Join

LEMMA TextStep ==
  ASSUME NEW m \in Seq(Strings), NEW f, IsTextOf(f, m),
         NEW i \in Nat, i >= 1, i + 1 <= Len(m)
  PROVE  f[i + 1] = Join(f[i], m[i + 1]) /\ f[i] \in Strings /\ f[i + 1] \in Strings
<1>1. Len(m) \in Nat
  OBVIOUS
<1>2. i + 1 \in 1 .. Len(m) /\ i \in 1 .. Len(m) /\ i + 1 # 1 /\ i + 1 - 1 = i
  BY <1>1
<1> QED BY <1>2 DEF IsTextOf

LEMMA TextStart ==
  ASSUME NEW m \in Seq(Strings), m # <<>>, NEW f, IsTextOf(f, m)
  PROVE  f[1] = m[1]
BY MessageFacts DEF IsTextOf

\* The texts of messages that begin with the same parameters.
LEMMA SameTexts ==
  ASSUME NEW m \in Seq(Strings), m # <<>>, NEW n \in Seq(Strings), n # <<>>,
         NEW f, IsTextOf(f, m), NEW g, IsTextOf(g, n),
         NEW k \in Nat, k <= Len(m), k <= Len(n), \A i \in 1 .. k : m[i] = n[i]
  PROVE  \A i \in 1 .. k : f[i] = g[i]
<1> DEFINE T == {i \in Nat : 1 <= i /\ i <= k => f[i] = g[i]}
<1>1. 0 \in T
  OBVIOUS
<1>2. ASSUME NEW i \in Nat, i \in T PROVE i + 1 \in T
  <2> SUFFICES ASSUME i + 1 <= k PROVE f[i + 1] = g[i + 1]
    OBVIOUS
  <2>1. CASE i = 0
    BY <2>1, TextStart
  <2>2. CASE i >= 1
    <3>1. i + 1 <= Len(m) /\ i + 1 <= Len(n) /\ m[i + 1] = n[i + 1]
      BY MessageFacts
    <3>2. f[i] = g[i]
      BY <1>2, <2>2
    <3> QED BY <2>2, <3>1, <3>2, TextStep
  <2> QED BY <2>1, <2>2
<1>3. Nat \subseteq T
  <2> HIDE DEF T
  <2> QED BY <1>1, <1>2, Induction
<1> QED BY <1>3

LEMMA WireFormatOne ==
  ASSUME NEW m \in Seq(Strings), Len(m) = 1
  PROVE  GetWireFormat(m) = m[1]
<1>0. m # <<>>
  OBVIOUS
<1>1. PICK f : IsTextOf(f, m) /\ GetWireFormat(m) = f[Len(m)]
  BY <1>0, WireFormatDef
<1> QED BY <1>1 DEF IsTextOf

LEMMA WireFormatType ==
  ASSUME NEW m \in Seq(Strings), m # <<>>
  PROVE  GetWireFormat(m) \in Strings
<1>1. PICK f : IsTextOf(f, m) /\ GetWireFormat(m) = f[Len(m)]
  BY WireFormatDef
<1>2. Len(m) \in 1 .. Len(m)
  BY MessageFacts
<1> QED BY <1>1, <1>2 DEF IsTextOf

\* A parameter more at the end.
LEMMA WireFormatAppend ==
  ASSUME NEW m \in Seq(Strings), m # <<>>, NEW p \in Strings
  PROVE  GetWireFormat(Append(m, p)) = Join(GetWireFormat(m), p)
<1> DEFINE n == Append(m, p)
<1>1. /\ n \in Seq(Strings) /\ n # <<>> /\ Len(n) = Len(m) + 1
      /\ \A i \in 1 .. Len(m) : n[i] = m[i]
      /\ n[Len(m) + 1] = p
  BY AppendProperties
<1> HIDE DEF n
<1>2. Len(m) \in Nat /\ Len(m) >= 1
  BY MessageFacts
<1>3. PICK f : IsTextOf(f, m) /\ GetWireFormat(m) = f[Len(m)]
  BY WireFormatDef
<1>4. PICK g : IsTextOf(g, n) /\ GetWireFormat(n) = g[Len(n)]
  BY <1>1, WireFormatDef
<1>5. \A i \in 1 .. Len(m) : g[i] = f[i]
  BY <1>1, <1>2, <1>3, <1>4, SameTexts
<1>6. g[Len(m) + 1] = Join(g[Len(m)], n[Len(m) + 1])
  <2>1. Len(m) + 1 \in 1 .. Len(n) /\ Len(m) + 1 # 1 /\ Len(m) + 1 - 1 = Len(m)
    BY <1>1, <1>2
  <2> QED BY <1>4, <2>1 DEF IsTextOf
<1>7. g[Len(m)] = f[Len(m)]
  BY <1>2, <1>5
<1>8. GetWireFormat(n) = Join(GetWireFormat(m), p)
  BY <1>1, <1>3, <1>4, <1>6, <1>7
<1> QED BY <1>8 DEF n

\* A parameter more at the beginning.
LEMMA WireFormatCons ==
  ASSUME NEW m \in Seq(Strings), Len(m) >= 2
  PROVE  /\ Tail(m) \in Seq(Strings) /\ Tail(m) # <<>> /\ Len(Tail(m)) = Len(m) - 1
         /\ \A i \in 1 .. Len(Tail(m)) : Tail(m)[i] = m[i + 1]
         /\ GetWireFormat(m) = Join(m[1], GetWireFormat(Tail(m)))
<1>0. Len(m) \in Nat /\ m # <<>>
  OBVIOUS
<1>1. \A i \in 1 .. Len(m) : m[i] \in Strings
  BY <1>0, MessageFacts
<1>2. PICK n : n = Tail(m)
  OBVIOUS
<1>3. /\ n \in Seq(Strings) /\ Len(n) = Len(m) - 1 /\ n # <<>>
      /\ \A i \in 1 .. Len(n) : n[i] = m[i + 1]
  <2>1. n \in Seq(Strings) /\ Len(n) = Len(m) - 1 /\ \A i \in 1 .. Len(n) : n[i] = m[i + 1]
    BY <1>0, <1>2, HeadTailProperties
  <2>2. n # <<>>
    BY <1>0, <2>1
  <2> QED BY <2>1, <2>2
<1>4. PICK f : IsTextOf(f, m) /\ GetWireFormat(m) = f[Len(m)]
  BY <1>0, WireFormatDef
<1>5. PICK g : IsTextOf(g, n) /\ GetWireFormat(n) = g[Len(n)]
  BY <1>3, WireFormatDef
<1> DEFINE T == {i \in Nat : 1 <= i /\ i + 1 <= Len(m) => f[i + 1] = Join(m[1], g[i])}
<1>6. 0 \in T
  OBVIOUS
<1>7. ASSUME NEW i \in Nat, i \in T PROVE i + 1 \in T
  <2> SUFFICES ASSUME i + 1 + 1 <= Len(m) PROVE f[i + 1 + 1] = Join(m[1], g[i + 1])
    OBVIOUS
  <2>0. i + 1 <= Len(n) /\ i + 1 \in Nat /\ i + 1 >= 1
    BY <1>0, <1>3
  <2>1. f[i + 1 + 1] = Join(f[i + 1], m[i + 1 + 1])
    BY <1>4, <2>0, TextStep
  <2>2. n[i + 1] = m[i + 1 + 1] /\ m[i + 1 + 1] \in Strings /\ m[1] \in Strings
    BY <1>0, <1>1, <1>3, <2>0
  <2>3. CASE i = 0
    BY <1>0, <1>4, <1>5, <1>3, <2>1, <2>2, <2>3, TextStart
  <2>4. CASE i >= 1
    <3>1. f[i + 1] = Join(m[1], g[i])
      BY <1>0, <1>7, <2>4
    <3>2. g[i + 1] = Join(g[i], n[i + 1]) /\ g[i] \in Strings
      BY <1>3, <1>5, <2>0, <2>4, TextStep
    <3>3. Join(Join(m[1], g[i]), m[i + 1 + 1]) = Join(m[1], Join(g[i], m[i + 1 + 1]))
      BY <2>2, <3>2, JoinAssociative
    <3> QED BY <2>1, <2>2, <3>1, <3>2, <3>3
  <2> QED BY <2>3, <2>4
<1>8. Nat \subseteq T
  <2> HIDE DEF T
  <2> QED BY <1>6, <1>7, Induction
<1>9. f[Len(m)] = Join(m[1], g[Len(n)])
  <2>1. Len(n) \in T /\ Len(n) >= 1 /\ Len(n) + 1 = Len(m)
    BY <1>0, <1>3, <1>8
  <2> QED BY <1>0, <2>1
<1> QED BY <1>2, <1>3, <1>4, <1>5, <1>9

\* Shorter parameters make a shorter text.
LEMMA WireFormatLength ==
  ASSUME NEW m \in Seq(Strings), m # <<>>, NEW n \in Seq(Strings), Len(n) = Len(m),
         \A i \in 1 .. Len(m) : Len(m[i]) <= Len(n[i])
  PROVE  Len(GetWireFormat(m)) <= Len(GetWireFormat(n))
<1>0. /\ Len(m) \in Nat /\ Len(m) >= 1 /\ n # <<>>
      /\ \A i \in 1 .. Len(m) : m[i] \in Strings /\ n[i] \in Strings
  BY MessageFacts
<1>1. PICK f : IsTextOf(f, m) /\ GetWireFormat(m) = f[Len(m)]
  BY WireFormatDef
<1>2. PICK g : IsTextOf(g, n) /\ GetWireFormat(n) = g[Len(n)]
  BY <1>0, WireFormatDef
<1> DEFINE T == {i \in Nat : 1 <= i /\ i <= Len(m) => Len(f[i]) <= Len(g[i])}
<1>3. 0 \in T
  OBVIOUS
<1>4. ASSUME NEW i \in Nat, i \in T PROVE i + 1 \in T
  <2> SUFFICES ASSUME i + 1 <= Len(m) PROVE Len(f[i + 1]) <= Len(g[i + 1])
    OBVIOUS
  <2>0. /\ m[i + 1] \in Strings /\ n[i + 1] \in Strings /\ Len(m[i + 1]) <= Len(n[i + 1])
        /\ i <= Len(m)
    BY <1>0
  <2>1. CASE i = 0
    BY <1>0, <1>1, <1>2, <2>0, <2>1, TextStart
  <2>2. CASE i >= 1
    <3>1. Len(f[i]) <= Len(g[i])
      BY <1>4, <2>0, <2>2
    <3>2. f[i + 1] = Join(f[i], m[i + 1]) /\ f[i] \in Strings
      BY <1>1, <2>2, TextStep
    <3>3. g[i + 1] = Join(g[i], n[i + 1]) /\ g[i] \in Strings
      BY <1>2, <2>2, TextStep
    <3>4. /\ Len(f[i + 1]) = Len(f[i]) + 1 + Len(m[i + 1])
          /\ Len(f[i]) \in Nat /\ Len(m[i + 1]) \in Nat
      BY <2>0, <3>2, JoinLength
    <3>5. /\ Len(g[i + 1]) = Len(g[i]) + 1 + Len(n[i + 1])
          /\ Len(g[i]) \in Nat /\ Len(n[i + 1]) \in Nat
      BY <2>0, <3>3, JoinLength
    <3>6. \A j, k, p, q \in Nat : j <= k /\ p <= q => j + 1 + p <= k + 1 + q
      OBVIOUS
    <3> QED BY <2>0, <3>1, <3>4, <3>5, <3>6, Zenon
  <2> QED BY <2>1, <2>2
<1>5. Nat \subseteq T
  <2> HIDE DEF T
  <2> QED BY <1>3, <1>4, Induction
<1>6. Len(f[Len(m)]) <= Len(g[Len(m)])
  BY <1>0, <1>5
<1> QED BY <1>1, <1>2, <1>6
------------------------------------------------------------------------------
\* Before

Without(t, c) == \A i \in 1 .. Len(t) : t[i] # c

\* a is what comes before the first c in t.
IsBefore(a, t, c) ==
  /\ a \in Strings /\ Without(a, c)
  /\ Len(a) <= Len(t)
  /\ \A i \in 1 .. Len(a) : a[i] = t[i]
  /\ Len(a) = Len(t) \/ t[Len(a) + 1] = c

LEMMA StringEqual ==
  ASSUME NEW s \in Strings, NEW t \in Strings, Len(s) = Len(t),
         \A i \in 1 .. Len(s) : s[i] = t[i]
  PROVE  s = t
BY SeqEqual DEF Strings

LEMMA OneBefore ==
  ASSUME NEW t \in Strings, NEW c, NEW a, IsBefore(a, t, c), NEW b, IsBefore(b, t, c)
  PROVE  a = b
<1>1. Len(a) \in Nat /\ Len(b) \in Nat /\ Len(t) \in Nat /\ a \in Strings /\ b \in Strings
  BY DEF IsBefore, Strings
<1>2. ~(Len(a) < Len(b))
  <2> SUFFICES ASSUME Len(a) < Len(b) PROVE FALSE
    OBVIOUS
  <2>1. Len(a) + 1 \in 1 .. Len(b) /\ Len(a) # Len(t)
    BY <1>1 DEF IsBefore
  <2> QED BY <2>1 DEF IsBefore, Without
<1>3. ~(Len(b) < Len(a))
  <2> SUFFICES ASSUME Len(b) < Len(a) PROVE FALSE
    OBVIOUS
  <2>1. Len(b) + 1 \in 1 .. Len(a) /\ Len(b) # Len(t)
    BY <1>1 DEF IsBefore
  <2> QED BY <2>1 DEF IsBefore, Without
<1>4. Len(a) = Len(b)
  BY <1>1, <1>2, <1>3
<1>5. \A i \in 1 .. Len(a) : a[i] = b[i]
  BY <1>4 DEF IsBefore
<1> QED BY <1>1, <1>4, <1>5, StringEqual

LEMMA BeforeIsBefore ==
  ASSUME NEW t \in Strings, NEW c
  PROVE  IsBefore(Before(t, c), t, c)
<1> DEFINE I == {i \in 1 .. Len(t) : t[i] = c}
<1>0. Len(t) \in Nat /\ t \in Seq(Char) /\ \A i \in 1 .. Len(t) : t[i] \in Char
  BY DEF Strings
<1>1. CASE I = {}
  <2>1. Before(t, c) = t
    BY <1>1 DEF Before, SelectInSeq
  <2> QED BY <1>0, <1>1, <2>1 DEF IsBefore, Without, Strings
<1>2. CASE I # {}
  <2>1. PICK x \in I : \A y \in I : x <= y
    <3>1. I \subseteq Nat
      BY <1>0
    <3> HIDE DEF I
    <3> QED BY <1>2, <3>1, LeastElement
  <2>2. Min(I) \in I /\ \A y \in I : Min(I) <= y
    BY <2>1 DEF Min
  <2> DEFINE k == Min(I)
  <2>3. k \in 1 .. Len(t) /\ t[k] = c /\ \A i \in 1 .. Len(t) : t[i] = c => k <= i
    BY <2>2
  <2>4. Before(t, c) = SubSeq(t, 1, k - 1)
    <3>1. Before(t, c) = IF (IF I # {} THEN Min(I) ELSE 0) = 0
                         THEN t ELSE SubSeq(t, 1, (IF I # {} THEN Min(I) ELSE 0) - 1)
      BY DEF Before, SelectInSeq
    <3>2. k # 0
      BY <1>0, <2>3
    <3> HIDE DEF I
    <3> QED BY <1>2, <3>1, <3>2
  <2> HIDE DEF k
  <2>5. /\ SubSeq(t, 1, k - 1) \in Seq(Char) /\ Len(SubSeq(t, 1, k - 1)) = k - 1
        /\ \A i \in 1 .. k - 1 : SubSeq(t, 1, k - 1)[i] = t[i]
    <3>1. \A i \in 1 .. k - 1 : t[i] \in Char
      BY <1>0, <2>3
    <3> QED BY <1>0, <2>3, <3>1, SubSeqProperties
  <2>6. PICK a : a = Before(t, c)
    OBVIOUS
  <2>7. a \in Strings /\ Len(a) = k - 1 /\ \A i \in 1 .. k - 1 : a[i] = t[i]
    BY <2>4, <2>5, <2>6 DEF Strings
  <2>8. Without(a, c)
    BY <1>0, <2>3, <2>7 DEF Without
  <2>9. IsBefore(a, t, c)
    BY <1>0, <2>3, <2>7, <2>8 DEF IsBefore
  <2> QED BY <2>6, <2>9
<1> QED BY <1>1, <1>2

LEMMA BeforeType ==
  ASSUME NEW t \in Strings, NEW c
  PROVE  Before(t, c) \in Strings /\ Without(Before(t, c), c) /\ Len(Before(t, c)) <= Len(t)
BY BeforeIsBefore DEF IsBefore

LEMMA BeforeAll ==
  ASSUME NEW t \in Strings, NEW c, Without(t, c)
  PROVE  Before(t, c) = t
<1>1. IsBefore(t, t, c)
  BY DEF IsBefore, Strings
<1> QED BY <1>1, BeforeIsBefore, OneBefore

LEMMA BeforeFirst ==
  ASSUME NEW t \in Strings, NEW r \in Strings, Without(t, WIRE_DELIMITER)
  PROVE  Before(Join(t, r), WIRE_DELIMITER) = t
<1>1. IsBefore(t, Join(t, r), WIRE_DELIMITER)
  BY JoinFacts DEF IsBefore
<1>2. Join(t, r) \in Strings
  BY JoinType
<1> QED BY <1>1, <1>2, BeforeIsBefore, OneBefore

LEMMA BeforeLater ==
  ASSUME NEW t \in Strings, NEW r \in Strings, NEW c, c # WIRE_DELIMITER, Without(t, c)
  PROVE  Before(Join(t, r), c) = Join(t, Before(r, c))
<1>1. PICK b : b = Before(r, c)
  OBVIOUS
<1>2. IsBefore(b, r, c) /\ b \in Strings
  BY <1>1, BeforeIsBefore, BeforeType
<1>3. PICK u : u = Join(t, r)
  OBVIOUS
<1>4. PICK v : v = Join(t, b)
  OBVIOUS
<1>5. /\ u \in Strings /\ Len(t) \in Nat /\ Len(r) \in Nat /\ Len(u) = Len(t) + 1 + Len(r)
      /\ \A i \in 1 .. Len(t) : u[i] = t[i]
      /\ u[Len(t) + 1] = WIRE_DELIMITER
      /\ \A i \in 1 .. Len(r) : u[Len(t) + 1 + i] = r[i]
  BY <1>3, JoinFacts
<1>6. /\ v \in Strings /\ Len(b) \in Nat /\ Len(v) = Len(t) + 1 + Len(b)
      /\ \A i \in 1 .. Len(t) : v[i] = t[i]
      /\ v[Len(t) + 1] = WIRE_DELIMITER
      /\ \A i \in 1 .. Len(b) : v[Len(t) + 1 + i] = b[i]
  BY <1>2, <1>4, JoinFacts
<1>7. Len(b) <= Len(r) /\ Len(v) <= Len(u)
  BY <1>2, <1>5, <1>6 DEF IsBefore
<1>8. ASSUME NEW i \in 1 .. Len(v) PROVE v[i] = u[i] /\ v[i] # c
  <2>1. CASE i <= Len(t)
    BY <1>5, <1>6, <2>1 DEF Without
  <2>2. CASE i = Len(t) + 1
    BY <1>5, <1>6, <2>2
  <2>3. CASE i > Len(t) + 1
    <3>1. PICK j \in 1 .. Len(b) : i = Len(t) + 1 + j
      <4>1. i - (Len(t) + 1) \in 1 .. Len(b) /\ i = Len(t) + 1 + (i - (Len(t) + 1))
        BY <1>5, <1>6, <2>3
      <4> QED BY <4>1
    <3>2. b[j] = r[j] /\ b[j] # c
      BY <1>2 DEF IsBefore, Without
    <3> QED BY <1>5, <1>6, <1>7, <3>1, <3>2
  <2> QED BY <1>5, <2>1, <2>2, <2>3
<1>9. Len(v) = Len(u) \/ u[Len(v) + 1] = c
  <2>1. CASE Len(b) = Len(r)
    BY <1>5, <1>6, <2>1
  <2>2. CASE r[Len(b) + 1] = c /\ Len(b) < Len(r)
    <3>1. u[Len(t) + 1 + (Len(b) + 1)] = r[Len(b) + 1]
      BY <1>5, <1>6, <2>2
    <3>2. Len(t) + 1 + (Len(b) + 1) = Len(v) + 1
      BY <1>5, <1>6
    <3> QED BY <2>2, <3>1, <3>2
  <2> QED BY <1>2, <1>5, <1>6, <1>7, <2>1, <2>2 DEF IsBefore
<1>10. IsBefore(v, u, c)
  BY <1>6, <1>7, <1>8, <1>9 DEF IsBefore, Without
<1> QED BY <1>1, <1>3, <1>4, <1>5, <1>10, BeforeIsBefore, OneBefore
------------------------------------------------------------------------------
\* The tokens of a text

Tokens(ps) ==
  /\ ps \in Seq(Strings) /\ ps # <<>>
  /\ \A i \in 1 .. Len(ps) : Without(ps[i], WIRE_DELIMITER)
IsSplit(t, ps) == Tokens(ps) /\ GetWireFormat(ps) = t

LEMMA TokenFacts ==
  ASSUME NEW ps, Tokens(ps)
  PROVE  /\ Len(ps) \in Nat /\ Len(ps) >= 1 /\ (Len(ps) = 1 \/ Len(ps) >= 2)
         /\ \A i \in 1 .. Len(ps) : ps[i] \in Strings /\ Without(ps[i], WIRE_DELIMITER)
<1>1. /\ Len(ps) \in Nat /\ Len(ps) >= 1
      /\ \A i \in 1 .. Len(ps) : ps[i] \in Strings /\ Without(ps[i], WIRE_DELIMITER)
  BY MessageFacts DEF Tokens
<1>2. \A n \in Nat : n >= 1 => n = 1 \/ n >= 2
  OBVIOUS
<1> QED BY <1>1, <1>2, Zenon

LEMMA JoinCancel ==
  ASSUME NEW s \in Strings, NEW p \in Strings, NEW q \in Strings, Join(s, p) = Join(s, q)
  PROVE  p = q
<1>1. Len(p) = Len(q)
  BY JoinLength
<1>2. ASSUME NEW i \in 1 .. Len(p) PROVE p[i] = q[i]
  <2>1. Join(s, p)[Len(s) + 1 + i] = p[i]
    BY JoinFacts
  <2>2. Join(s, q)[Len(s) + 1 + i] = q[i]
    <3>1. i \in 1 .. Len(q)
      BY <1>1
    <3> QED BY <3>1, JoinFacts
  <2> QED BY <2>1, <2>2
<1> QED BY <1>1, <1>2, StringEqual

LEMMA SplitFirst ==
  ASSUME NEW t, NEW ps, IsSplit(t, ps)
  PROVE  /\ t \in Strings
         /\ ps[1] = Before(t, WIRE_DELIMITER)
         /\ Len(ps) = 1 => t = ps[1]
         /\ Len(ps) >= 2 => /\ IsSplit(GetWireFormat(Tail(ps)), Tail(ps))
                            /\ Len(Tail(ps)) = Len(ps) - 1
                            /\ \A i \in 1 .. Len(Tail(ps)) : Tail(ps)[i] = ps[i + 1]
                            /\ GetWireFormat(Tail(ps)) \in Strings
                            /\ t = Join(ps[1], GetWireFormat(Tail(ps)))
<1>0. /\ Tokens(ps) /\ GetWireFormat(ps) = t
      /\ Len(ps) \in Nat /\ Len(ps) >= 1 /\ (Len(ps) = 1 \/ Len(ps) >= 2)
      /\ \A i \in 1 .. Len(ps) : ps[i] \in Strings /\ Without(ps[i], WIRE_DELIMITER)
  BY TokenFacts DEF IsSplit
<1>1. t \in Strings
  BY <1>0, WireFormatType DEF Tokens
<1>2. ps[1] \in Strings /\ Without(ps[1], WIRE_DELIMITER)
  BY <1>0
<1>3. CASE Len(ps) = 1
  <2>1. t = ps[1]
    BY <1>0, <1>3, WireFormatOne DEF Tokens
  <2> QED BY <1>1, <1>2, <1>3, <2>1, BeforeAll
<1>4. CASE Len(ps) >= 2
  <2>1. PICK qs : qs = Tail(ps)
    OBVIOUS
  <2>2. /\ qs \in Seq(Strings) /\ qs # <<>> /\ Len(qs) = Len(ps) - 1
        /\ \A i \in 1 .. Len(qs) : qs[i] = ps[i + 1]
        /\ t = Join(ps[1], GetWireFormat(qs))
    BY <1>0, <1>4, <2>1, WireFormatCons DEF Tokens
  <2>3. GetWireFormat(qs) \in Strings
    BY <2>2, WireFormatType
  <2>4. Tokens(qs)
    BY <1>0, <2>2 DEF Tokens
  <2>5. ps[1] = Before(t, WIRE_DELIMITER)
    BY <1>2, <2>2, <2>3, BeforeFirst
  <2> QED BY <1>1, <1>4, <2>1, <2>2, <2>3, <2>4, <2>5 DEF IsSplit
<1>5. Len(ps) = 1 => ~(Len(ps) >= 2)
  OBVIOUS
<1> QED BY <1>0, <1>3, <1>4, <1>5, Zenon

LEMMA SplitPeel ==
  ASSUME NEW s \in Strings, Without(s, WIRE_DELIMITER), NEW r \in Strings,
         NEW ps, IsSplit(Join(s, r), ps)
  PROVE  /\ ps[1] = s /\ Len(ps) >= 2 /\ Len(ps) \in Nat
         /\ IsSplit(r, Tail(ps)) /\ Len(Tail(ps)) = Len(ps) - 1
         /\ \A i \in 1 .. Len(Tail(ps)) : Tail(ps)[i] = ps[i + 1]
<1>1. ps[1] = s
  BY SplitFirst, BeforeFirst
<1>2. Len(ps) \in Nat /\ Len(ps) >= 1 /\ (Len(ps) = 1 \/ Len(ps) >= 2)
  BY TokenFacts DEF IsSplit
<1>3. Len(ps) # 1
  <2> SUFFICES ASSUME Len(ps) = 1 PROVE FALSE
    OBVIOUS
  <2>1. Join(s, r) = s
    BY <1>1, SplitFirst
  <2> QED BY <2>1, JoinLength
<1>4. Len(ps) >= 2
  BY <1>2, <1>3, Zenon
<1>5. PICK u : u = GetWireFormat(Tail(ps))
  OBVIOUS
<1>6. u \in Strings /\ Join(s, r) = Join(s, u)
  BY <1>1, <1>4, <1>5, SplitFirst
<1>7. u = r
  BY <1>6, JoinCancel
<1> QED BY <1>1, <1>2, <1>4, <1>5, <1>7, SplitFirst

LEMMA SplitWhole ==
  ASSUME NEW t, NEW ps, IsSplit(t, ps), Without(t, WIRE_DELIMITER)
  PROVE  Len(ps) = 1 /\ ps[1] = t
<1>1. t \in Strings /\ ps[1] = t
  BY SplitFirst, BeforeAll
<1>2. Len(ps) \in Nat /\ Len(ps) >= 1
  BY TokenFacts DEF IsSplit
<1>3. Len(ps) < 2
  <2> SUFFICES ASSUME Len(ps) >= 2 PROVE FALSE
    BY <1>2
  <2>1. PICK u \in Strings : t = Join(t, u)
    BY <1>1, SplitFirst
  <2> QED BY <1>1, <2>1, JoinLength
<1> QED BY <1>1, <1>2, <1>3

\* A text has one split.
LEMMA SplitUnique ==
  ASSUME NEW t, NEW ps, IsSplit(t, ps), NEW qs, IsSplit(t, qs)
  PROVE  ps = qs
<1> DEFINE T == {n \in Nat : \A u \in Strings : \A a, b \in Seq(Strings) :
                   Len(a) <= n /\ IsSplit(u, a) /\ IsSplit(u, b) => a = b}
<1>1. 0 \in T
  <2> SUFFICES ASSUME NEW u \in Strings, NEW a \in Seq(Strings), NEW b \in Seq(Strings),
                      Len(a) <= 0, IsSplit(u, a)
               PROVE  FALSE
    OBVIOUS
  <2> QED BY TokenFacts DEF IsSplit
<1>2. ASSUME NEW n \in Nat, n \in T PROVE n + 1 \in T
  <2> SUFFICES ASSUME NEW u \in Strings, NEW a \in Seq(Strings), NEW b \in Seq(Strings),
                      Len(a) <= n + 1, IsSplit(u, a), IsSplit(u, b)
               PROVE  a = b
    OBVIOUS
  <2>1. /\ Len(a) \in Nat /\ Len(a) >= 1 /\ Len(b) \in Nat /\ Len(b) >= 1
        /\ Len(a) = 1 \/ Len(a) >= 2
    BY TokenFacts DEF IsSplit
  <2>2. a[1] = b[1] /\ a[1] \in Strings /\ Without(a[1], WIRE_DELIMITER)
    <3>1. a[1] \in Strings /\ Without(a[1], WIRE_DELIMITER)
      BY <2>1, TokenFacts DEF IsSplit
    <3> QED BY <3>1, SplitFirst
  <2>3. CASE Len(a) = 1
    <3>1. Without(u, WIRE_DELIMITER) /\ u = a[1]
      BY <2>2, <2>3, SplitFirst
    <3>2. Len(b) = 1
      BY <3>1, SplitWhole
    <3> QED BY <2>2, <2>3, <3>2, SeqEqual
  <2>4. CASE Len(a) >= 2
    <3>1. PICK c : c = Tail(a)
      OBVIOUS
    <3>2. PICK r : r = GetWireFormat(c)
      OBVIOUS
    <3>3. /\ IsSplit(r, c) /\ Len(c) = Len(a) - 1 /\ r \in Strings /\ u = Join(a[1], r)
          /\ \A i \in 1 .. Len(c) : c[i] = a[i + 1]
      BY <2>4, <3>1, <3>2, SplitFirst
    <3>4. PICK d : d = Tail(b)
      OBVIOUS
    <3>5. /\ IsSplit(r, d) /\ Len(d) = Len(b) - 1
          /\ \A i \in 1 .. Len(d) : d[i] = b[i + 1]
      BY <2>2, <3>3, <3>4, SplitPeel
    <3>6. c \in Seq(Strings) /\ d \in Seq(Strings) /\ Len(c) <= n
      BY <2>1, <3>3, <3>5 DEF IsSplit, Tokens
    <3>7. c = d
      BY <1>2, <3>3, <3>5, <3>6
    <3>8. Len(a) = Len(b)
      BY <2>1, <3>3, <3>5, <3>7
    <3>9. ASSUME NEW i \in 1 .. Len(a) PROVE a[i] = b[i]
      <4>1. CASE i = 1
        BY <2>2, <4>1
      <4>2. CASE i >= 2
        <5>1. PICK j \in 1 .. Len(c) : i = j + 1
          <6>1. i - 1 \in 1 .. Len(c) /\ i = (i - 1) + 1
            BY <2>1, <3>3, <4>2
          <6> QED BY <6>1
        <5> QED BY <3>3, <3>5, <3>7, <5>1
      <4> QED BY <2>1, <4>1, <4>2
    <3> QED BY <3>8, <3>9, SeqEqual
  <2> QED BY <2>1, <2>3, <2>4, Zenon
<1>3. Nat \subseteq T
  <2> HIDE DEF T
  <2> QED BY <1>1, <1>2, Induction
<1>4. /\ Len(ps) \in Nat /\ ps \in Seq(Strings) /\ qs \in Seq(Strings) /\ t \in Strings
  BY SplitFirst, TokenFacts DEF IsSplit, Tokens
<1>5. Len(ps) \in T
  BY <1>3, <1>4
<1> QED BY <1>4, <1>5

\* The characters of the tokens are those of the text.
LEMMA SplitChars ==
  ASSUME NEW C, NEW t, \A i \in 1 .. Len(t) : t[i] \in C, NEW ps, IsSplit(t, ps)
  PROVE  \A i \in 1 .. Len(ps) : \A j \in 1 .. Len(ps[i]) : ps[i][j] \in C
<1> DEFINE In(s) == \A i \in 1 .. Len(s) : s[i] \in C
<1> DEFINE T == {n \in Nat : \A u \in Strings : \A a \in Seq(Strings) :
                   Len(a) <= n /\ In(u) /\ IsSplit(u, a) => \A i \in 1 .. Len(a) : In(a[i])}
<1>1. 0 \in T
  <2> SUFFICES ASSUME NEW u \in Strings, NEW a \in Seq(Strings), Len(a) <= 0, IsSplit(u, a)
               PROVE  FALSE
    OBVIOUS
  <2> QED BY TokenFacts DEF IsSplit
<1>2. ASSUME NEW n \in Nat, n \in T PROVE n + 1 \in T
  <2> SUFFICES ASSUME NEW u \in Strings, NEW a \in Seq(Strings),
                      Len(a) <= n + 1, In(u), IsSplit(u, a), NEW i \in 1 .. Len(a)
               PROVE  In(a[i])
    <3> HIDE DEF In
    <3> QED OBVIOUS
  <2>1. Len(a) \in Nat /\ Len(a) >= 1 /\ a[1] \in Strings /\ (Len(a) = 1 \/ Len(a) >= 2)
    BY TokenFacts DEF IsSplit
  <2>2. CASE Len(a) = 1
    BY <2>2, SplitFirst
  <2>3. CASE Len(a) >= 2
    <3>1. PICK c : c = Tail(a)
      OBVIOUS
    <3>2. PICK r : r = GetWireFormat(c)
      OBVIOUS
    <3>3. /\ IsSplit(r, c) /\ Len(c) = Len(a) - 1 /\ r \in Strings /\ u = Join(a[1], r)
          /\ \A k \in 1 .. Len(c) : c[k] = a[k + 1]
      BY <2>3, <3>1, <3>2, SplitFirst
    <3>4. PICK h : h = a[1]
      OBVIOUS
    <3>5. /\ Len(h) \in Nat /\ Len(r) \in Nat /\ Len(u) = Len(h) + 1 + Len(r)
          /\ \A k \in 1 .. Len(h) : u[k] = h[k]
          /\ \A k \in 1 .. Len(r) : u[Len(h) + 1 + k] = r[k]
      BY <2>1, <3>3, <3>4, JoinFacts
    <3>6. In(h)
      BY <3>5
    <3>7. In(r)
      <4> SUFFICES ASSUME NEW k \in 1 .. Len(r) PROVE r[k] \in C
        OBVIOUS
      <4>1. Len(h) + 1 + k \in 1 .. Len(u)
        BY <3>5
      <4> QED BY <3>5, <4>1
    <3>8. c \in Seq(Strings) /\ Len(c) <= n
      BY <2>1, <3>3 DEF IsSplit, Tokens
    <3>9. \A k \in 1 .. Len(c) : In(c[k])
      <4> HIDE DEF In
      <4> QED BY <1>2, <3>3, <3>7, <3>8
    <3>10. CASE i = 1
      BY <3>4, <3>6, <3>10
    <3>11. CASE i >= 2
      <4>1. i - 1 \in 1 .. Len(c) /\ i = (i - 1) + 1
        BY <2>1, <3>3, <3>11
      <4>2. a[i] = c[i - 1]
        BY <3>3, <4>1
      <4> HIDE DEF In
      <4> QED BY <3>9, <4>1, <4>2
    <3> QED BY <2>1, <3>10, <3>11
  <2> QED BY <2>1, <2>2, <2>3, Zenon
<1>3. Nat \subseteq T
  <2> HIDE DEF T
  <2> QED BY <1>1, <1>2, Induction
<1>4. Len(ps) \in Nat /\ ps \in Seq(Strings) /\ t \in Strings
  BY SplitFirst, TokenFacts DEF IsSplit, Tokens
<1>5. Len(ps) \in T
  BY <1>3, <1>4
<1> QED BY <1>4, <1>5

\* A text with at most one delimiter has at most two tokens, without any one.
LEMMA SplitCount ==
  ASSUME NEW t, NEW ps, IsSplit(t, ps)
  PROVE  /\ Delimiters(t) <= 1 <=> Len(ps) <= 2
         /\ Delimiters(t) = 0 <=> Len(ps) = 1
         /\ Delimiters(t) \in Nat
<1> DEFINE P == {i \in 1 .. Len(t) : t[i] = WIRE_DELIMITER}
<1>0. /\ t \in Strings /\ Len(t) \in Nat /\ Len(ps) \in Nat /\ Len(ps) >= 1
      /\ Len(ps) = 1 \/ Len(ps) >= 2
      /\ \A i \in 1 .. Len(ps) : ps[i] \in Strings /\ Without(ps[i], WIRE_DELIMITER)
  BY SplitFirst, TokenFacts DEF IsSplit, Strings
<1>1. Delimiters(t) = Cardinality(P)
  <2>1. DOMAIN t = 1 .. Len(t)
    BY <1>0 DEF Strings
  <2> QED BY <2>1 DEF Delimiters
<1>2. IsFiniteSet(P)
  <2>1. IsFiniteSet(1 .. Len(t)) /\ P \subseteq 1 .. Len(t)
    BY <1>0, FS_Interval
  <2> QED BY <2>1, FS_Subset
<1>21. Cardinality(P) \in Nat /\ (Cardinality(P) = 0 <=> P = {})
  <2> HIDE DEF P
  <2> QED BY <1>2, FS_CardinalityType, FS_EmptySet
<1>3. CASE Len(ps) = 1
  <2>1. P = {}
    BY <1>0, <1>3, SplitFirst DEF Without
  <2>2. Cardinality(P) = 0
    BY <2>1, FS_EmptySet
  <2> QED BY <1>1, <1>3, <2>2
<1>4. CASE Len(ps) >= 2
  <2>1. PICK qs : qs = Tail(ps)
    OBVIOUS
  <2>2. PICK r : r = GetWireFormat(qs)
    OBVIOUS
  <2>3. PICK h : h = ps[1]
    OBVIOUS
  <2>4. /\ IsSplit(r, qs) /\ Len(qs) = Len(ps) - 1 /\ r \in Strings /\ h \in Strings
        /\ Without(h, WIRE_DELIMITER) /\ t = Join(h, r)
    BY <1>0, <1>4, <2>1, <2>2, <2>3, SplitFirst
  <2>5. /\ Len(h) \in Nat /\ Len(r) \in Nat /\ Len(t) = Len(h) + 1 + Len(r)
        /\ \A i \in 1 .. Len(h) : t[i] = h[i]
        /\ t[Len(h) + 1] = WIRE_DELIMITER
        /\ \A i \in 1 .. Len(r) : t[Len(h) + 1 + i] = r[i]
    BY <2>4, JoinFacts
  <2>6. Len(h) + 1 \in P
    BY <1>0, <2>5
  <2>10. Delimiters(t) # 0 /\ Delimiters(t) \in Nat
    <3>1. P # {}
      BY <2>6
    <3> HIDE DEF P
    <3> QED BY <1>1, <1>21, <3>1
  <2>7. /\ Len(qs) \in Nat /\ (Len(qs) = 1 \/ Len(qs) >= 2)
        /\ \A i \in 1 .. Len(qs) : qs[i] \in Strings /\ Without(qs[i], WIRE_DELIMITER)
    BY <2>4, TokenFacts DEF IsSplit
  <2>8. CASE Len(qs) = 1
    <3>1. Without(r, WIRE_DELIMITER)
      BY <2>4, <2>7, <2>8, SplitFirst
    <3>2. ASSUME NEW i \in P PROVE i = Len(h) + 1
      <4>1. ~(i <= Len(h))
        BY <2>4, <2>5 DEF Without
      <4>2. ~(i > Len(h) + 1)
        <5> SUFFICES ASSUME i > Len(h) + 1 PROVE FALSE
          OBVIOUS
        <5>1. i - (Len(h) + 1) \in 1 .. Len(r) /\ i = Len(h) + 1 + (i - (Len(h) + 1))
          BY <1>0, <2>5
        <5>2. t[i] = r[i - (Len(h) + 1)]
          BY <2>5, <5>1
        <5> QED BY <3>1, <5>1, <5>2 DEF Without
      <4>3. i \in Nat
        BY <1>0
      <4> QED BY <2>5, <4>1, <4>2, <4>3
    <3>3. P = {Len(h) + 1}
      BY <2>6, <3>2
    <3>4. Cardinality(P) = 1
      <4> HIDE DEF P
      <4> QED BY <3>3, FS_Singleton
    <3>5. Len(ps) = 2
      BY <1>0, <2>4, <2>8
    <3> QED BY <1>1, <2>10, <3>4, <3>5
  <2>9. CASE Len(qs) >= 2
    <3>1. PICK g : g = qs[1]
      OBVIOUS
    <3>2. PICK u : u = GetWireFormat(Tail(qs))
      OBVIOUS
    <3>3. g \in Strings /\ u \in Strings /\ r = Join(g, u)
      BY <2>4, <2>7, <2>9, <3>1, <3>2, SplitFirst
    <3>4. Len(g) \in Nat /\ Len(g) + 1 \in 1 .. Len(r) /\ r[Len(g) + 1] = WIRE_DELIMITER
      <4>1. /\ Len(g) \in Nat /\ Len(u) \in Nat /\ Len(r) = Len(g) + 1 + Len(u)
            /\ r[Len(g) + 1] = WIRE_DELIMITER
        BY <3>3, JoinFacts
      <4> QED BY <4>1
    <3>5. t[Len(h) + 1 + (Len(g) + 1)] = WIRE_DELIMITER
      BY <2>5, <3>4
    <3>6. Len(h) + 1 + (Len(g) + 1) \in P
      BY <2>5, <3>4, <3>5
    <3>7. PICK i \in P, j \in P : i # j
      BY <2>5, <2>6, <3>4, <3>6
    <3> HIDE DEF P
    <3>8. Cardinality({i}) = 1 /\ IsFiniteSet({i})
      BY FS_Singleton
    <3>9. Cardinality({i} \cup {j}) = 2
      BY <3>7, <3>8, FS_AddElement
    <3>10. Cardinality({i} \cup {j}) <= Cardinality(P) /\ Cardinality(P) \in Nat
      <4>1. {i} \cup {j} \subseteq P
        BY <3>7
      <4> QED BY <1>2, <4>1, FS_Subset, FS_CardinalityType
    <3>11. ~(Delimiters(t) <= 1)
      BY <1>1, <3>9, <3>10
    <3>12. ~(Len(ps) <= 2)
      BY <1>0, <2>4, <2>7, <2>9
    <3>13. Len(ps) # 1
      BY <1>4
    <3> QED BY <2>10, <3>11, <3>12, <3>13
  <2> QED BY <2>7, <2>8, <2>9
<1> QED BY <1>0, <1>3, <1>4, Zenon
------------------------------------------------------------------------------
\* The texts of the messages of the library

\* What follows the first delimiter.
LEMMA BeforeRest ==
  ASSUME NEW t \in Strings, NEW a, a = Before(t, WIRE_DELIMITER)
  PROVE  /\ a \in Strings /\ Len(a) \in Nat /\ Len(t) \in Nat /\ Len(a) <= Len(t)
         /\ Without(a, WIRE_DELIMITER)
         /\ Len(a) = Len(t) => t = a
         /\ Len(a) < Len(t) => /\ SubSeq(t, Len(a) + 2, Len(t)) \in Strings
                               /\ t = Join(a, SubSeq(t, Len(a) + 2, Len(t)))
<1>1. /\ IsBefore(a, t, WIRE_DELIMITER) /\ a \in Strings /\ Len(a) \in Nat /\ Len(t) \in Nat
      /\ Len(a) <= Len(t) /\ t \in Seq(Char) /\ \A i \in 1 .. Len(t) : t[i] \in Char
  BY BeforeIsBefore, BeforeType DEF Strings
<1>2. Len(a) = Len(t) => t = a
  BY <1>1, StringEqual DEF IsBefore
<1>3. ASSUME Len(a) < Len(t)
      PROVE  /\ SubSeq(t, Len(a) + 2, Len(t)) \in Strings
             /\ t = Join(a, SubSeq(t, Len(a) + 2, Len(t)))
  <2>1. PICK r : r = SubSeq(t, Len(a) + 2, Len(t))
    OBVIOUS
  <2>2. /\ r \in Strings /\ Len(r) = Len(t) - Len(a) - 1
        /\ \A i \in 1 .. Len(r) : r[i] = t[Len(a) + 1 + i]
    <3>1. \A i \in Len(a) + 2 .. Len(t) : t[i] \in Char
      BY <1>1
    <3>2. /\ r \in Seq(Char)
          /\ Len(r) = IF Len(a) + 2 <= Len(t) THEN Len(t) - (Len(a) + 2) + 1 ELSE 0
          /\ \A i \in 1 .. Len(t) - (Len(a) + 2) + 1 : r[i] = t[(Len(a) + 2) + i - 1]
      BY <1>1, <2>1, <3>1, SubSeqProperties
    <3>3. Len(r) = Len(t) - Len(a) - 1 /\ Len(r) = Len(t) - (Len(a) + 2) + 1
      BY <1>1, <1>3, <3>2
    <3>4. ASSUME NEW i \in 1 .. Len(r) PROVE r[i] = t[Len(a) + 1 + i]
      <4>1. (Len(a) + 2) + i - 1 = Len(a) + 1 + i
        BY <1>1, <3>3
      <4> QED BY <3>2, <3>3, <4>1
    <3> QED BY <3>2, <3>3, <3>4 DEF Strings
  <2>3. PICK u : u = Join(a, r)
    OBVIOUS
  <2>4. /\ u \in Strings /\ Len(u) = Len(a) + 1 + Len(r)
        /\ \A i \in 1 .. Len(a) : u[i] = a[i]
        /\ u[Len(a) + 1] = WIRE_DELIMITER
        /\ \A i \in 1 .. Len(r) : u[Len(a) + 1 + i] = r[i]
    BY <1>1, <2>2, <2>3, JoinFacts
  <2>5. Len(u) = Len(t)
    BY <1>1, <2>2, <2>4
  <2>6. ASSUME NEW i \in 1 .. Len(t) PROVE t[i] = u[i]
    <3>1. CASE i <= Len(a)
      BY <1>1, <2>4, <3>1 DEF IsBefore
    <3>2. CASE i = Len(a) + 1
      BY <1>1, <1>3, <2>4, <3>2 DEF IsBefore
    <3>3. CASE i > Len(a) + 1
      <4>1. PICK j \in 1 .. Len(r) : i = Len(a) + 1 + j
        <5>1. i - (Len(a) + 1) \in 1 .. Len(r) /\ i = Len(a) + 1 + (i - (Len(a) + 1))
          BY <1>1, <2>2, <3>3
        <5> QED BY <5>1
      <4> QED BY <2>2, <2>4, <4>1
    <3> QED BY <1>1, <3>1, <3>2, <3>3
  <2>7. t = u
    BY <2>4, <2>5, <2>6, StringEqual
  <2> QED BY <2>1, <2>2, <2>3, <2>7
<1> QED BY <1>1, <1>2, <1>3 DEF IsBefore

LEMMA JoinWithout ==
  ASSUME NEW s \in Strings, NEW p \in Strings, NEW c, c # WIRE_DELIMITER,
         Without(s, c), Without(p, c)
  PROVE  Without(Join(s, p), c)
<1>1. PICK u : u = Join(s, p)
  OBVIOUS
<1>2. /\ Len(s) \in Nat /\ Len(p) \in Nat /\ Len(u) = Len(s) + 1 + Len(p)
      /\ \A i \in 1 .. Len(s) : u[i] = s[i]
      /\ u[Len(s) + 1] = WIRE_DELIMITER
      /\ \A i \in 1 .. Len(p) : u[Len(s) + 1 + i] = p[i]
  BY <1>1, JoinFacts
<1>3. ASSUME NEW i \in 1 .. Len(u) PROVE u[i] # c
  <2>1. CASE i <= Len(s)
    BY <1>2, <2>1 DEF Without
  <2>2. CASE i = Len(s) + 1
    BY <1>2, <2>2
  <2>3. CASE i > Len(s) + 1
    <3>1. i - (Len(s) + 1) \in 1 .. Len(p) /\ i = Len(s) + 1 + (i - (Len(s) + 1))
      BY <1>2, <2>3
    <3>2. u[i] = p[i - (Len(s) + 1)]
      BY <1>2, <3>1
    <3> QED BY <3>1, <3>2 DEF Without
  <2> QED BY <1>2, <2>1, <2>2, <2>3
<1> QED BY <1>1, <1>3 DEF Without

\* A text has only characters of its parameters, and delimiters.
LEMMA WireFormatWithout ==
  ASSUME NEW m \in Seq(Strings), m # <<>>, NEW c, c # WIRE_DELIMITER,
         \A i \in 1 .. Len(m) : Without(m[i], c)
  PROVE  Without(GetWireFormat(m), c)
<1>0. Len(m) \in Nat /\ Len(m) >= 1 /\ \A i \in 1 .. Len(m) : m[i] \in Strings
  BY MessageFacts
<1>1. PICK f : IsTextOf(f, m) /\ GetWireFormat(m) = f[Len(m)]
  BY WireFormatDef
<1> DEFINE T == {i \in Nat : 1 <= i /\ i <= Len(m) => Without(f[i], c)}
<1>3. 0 \in T
  OBVIOUS
<1>4. ASSUME NEW i \in Nat, i \in T PROVE i + 1 \in T
  <2> SUFFICES ASSUME i + 1 <= Len(m) PROVE Without(f[i + 1], c)
    OBVIOUS
  <2>0. m[i + 1] \in Strings /\ Without(m[i + 1], c) /\ i <= Len(m)
    BY <1>0
  <2>1. CASE i = 0
    BY <1>0, <1>1, <2>0, <2>1, TextStart
  <2>2. CASE i >= 1
    <3>1. Without(f[i], c)
      BY <1>4, <2>0, <2>2
    <3>2. f[i + 1] = Join(f[i], m[i + 1]) /\ f[i] \in Strings
      BY <1>1, <2>2, TextStep
    <3> QED BY <2>0, <3>1, <3>2, JoinWithout
  <2> QED BY <2>1, <2>2
<1>5. Nat \subseteq T
  <2> HIDE DEF T
  <2> QED BY <1>3, <1>4, Induction
<1>6. Without(f[Len(m)], c)
  BY <1>0, <1>5
<1> QED BY <1>1, <1>6

\* Strings that come through a message unchanged.
Plain(t) == t \in Strings /\ Without(t, WIRE_DELIMITER) /\ Without(t, NUL)

Objects == {None, Null, Primitive, Other}

LEMMA CharFacts ==
  /\ WIRE_DELIMITER \in Char /\ NUL \in Char /\ NUL # WIRE_DELIMITER
  /\ Plain(Null) /\ Plain(Primitive) /\ Plain(Calculator) /\ Plain(Other) /\ Plain(None)
  /\ Len(Null) = 1 /\ Len(Primitive) = 1 /\ Len(Calculator) = 1
  /\ \A h \in Objects : Plain(h) /\ Len(h) = 1 /\ h # Calculator
  /\ Null \in Objects /\ Primitive \in Objects /\ Other \in Objects /\ None \in Objects
  /\ Null # Calculator /\ Primitive # Calculator
  /\ Null # Primitive /\ None # Primitive /\ Other # Primitive
<1>1. {WIRE_DELIMITER, NUL, "0", "primitive", "calculator", "other", "none"} \subseteq Char
  BY CharacterAssumption
<1>2. NUL # WIRE_DELIMITER
  BY DEF NUL, WIRE_DELIMITER
<1>3. ASSUME NEW x \in Char, x # WIRE_DELIMITER, x # NUL PROVE Plain(<<x>>)
  BY <1>3 DEF Plain, Without, Strings
<1>4. Plain(Null) /\ Plain(Primitive) /\ Plain(Calculator) /\ Plain(Other) /\ Plain(None)
  BY <1>1, <1>3 DEF Null, Primitive, Calculator, Other, None, NUL, WIRE_DELIMITER
<1>5. /\ Len(Null) = 1 /\ Len(Primitive) = 1 /\ Len(Calculator) = 1 /\ Len(Other) = 1
      /\ Len(None) = 1
  BY DEF Null, Primitive, Calculator, Other, None
<1>6. /\ Null # Calculator /\ Primitive # Calculator /\ Other # Calculator /\ None # Calculator
      /\ Null # Primitive /\ None # Primitive /\ Other # Primitive
  BY DEF Null, Primitive, Calculator, Other, None
<1> QED BY <1>1, <1>2, <1>4, <1>5, <1>6 DEF Objects

LEMMA PlainText ==
  ASSUME NEW t \in Seq(Char \ {WIRE_DELIMITER, NUL})
  PROVE  Plain(t) /\ t \in Strings /\ Len(t) \in Nat
<1>1. \A i \in 1 .. Len(t) : t[i] \in Char \ {WIRE_DELIMITER, NUL}
  OBVIOUS
<1>2. t \in Strings
  BY <1>1, SeqDef DEF Strings
<1> QED BY <1>1, <1>2 DEF Plain, Without

LEMMA GreetingFacts == Plain(Greeting) /\ Greeting \in Strings /\ Len(Greeting) \in Nat
BY PlainText, CharacterAssumption

LEMMA NumeralFacts ==
  /\ \A i \in Numbers : Plain(Numeral(i)) /\ Numeral(i) \in Strings /\ Len(Numeral(i)) \in Nat
  /\ \A i, j \in Numbers : Numeral(i) = Numeral(j) => i = j
<1>1. ASSUME NEW i \in Numbers
      PROVE  Plain(Numeral(i)) /\ Numeral(i) \in Strings /\ Len(Numeral(i)) \in Nat
  <2>1. Numeral(i) \in Seq(Char \ {WIRE_DELIMITER, NUL})
    BY CharacterAssumption DEF Numeral
  <2> QED BY <2>1, PlainText
<1>2. \A i, j \in Numbers : Numeral(i) = Numeral(j) => i = j
  BY CharacterAssumption DEF Numeral
<1> QED BY <1>1, <1>2

\* A message with three parameters and those of the function.
LEMMA HeaderText ==
  ASSUME NEW a \in Strings, NEW b \in Strings, NEW c \in Strings, NEW args \in Seq(Strings)
  PROVE  /\ <<a, b, c>> \o args \in Seq(Strings) /\ <<a, b, c>> \o args # <<>>
         /\ GetWireFormat(<<a, b, c>> \o args) =
              Join(a, Join(b, IF args = <<>> THEN c ELSE Join(c, GetWireFormat(args))))
<1>1. PICK m : m = <<a, b, c>> \o args
  OBVIOUS
<1>2. PICK h : h = <<a, b, c>>
  OBVIOUS
<1>3. h \in Seq(Strings) /\ Len(h) = 3 /\ h[1] = a /\ h[2] = b /\ h[3] = c
  BY <1>2
<1>4. /\ m \in Seq(Strings) /\ Len(m) = 3 + Len(args) /\ Len(args) \in Nat
      /\ \A i \in 1 .. 3 + Len(args) : m[i] = IF i <= 3 THEN h[i] ELSE args[i - 3]
  <2>1. m = h \o args
    BY <1>1, <1>2
  <2>2. /\ h \o args \in Seq(Strings) /\ Len(h \o args) = Len(h) + Len(args)
        /\ \A i \in 1 .. Len(h) + Len(args) :
             (h \o args)[i] = IF i <= Len(h) THEN h[i] ELSE args[i - Len(h)]
    BY <1>3, ConcatProperties
  <2>3. Len(args) \in Nat
    OBVIOUS
  <2> QED BY <1>3, <2>1, <2>2, <2>3
<1>5. m[1] = a /\ m[2] = b /\ m[3] = c /\ \A i \in 1 .. Len(args) : m[i + 3] = args[i]
  <2>1. 1 \in 1 .. 3 + Len(args) /\ 2 \in 1 .. 3 + Len(args) /\ 3 \in 1 .. 3 + Len(args)
    BY <1>4
  <2>2. ASSUME NEW i \in 1 .. Len(args) PROVE m[i + 3] = args[i]
    <3>1. i + 3 \in 1 .. 3 + Len(args) /\ ~(i + 3 <= 3) /\ i + 3 - 3 = i
      BY <1>4
    <3> QED BY <1>4, <3>1
  <2> QED BY <1>3, <1>4, <2>1, <2>2
<1>6. m # <<>>
  BY <1>4
<1>7. PICK n : n = Tail(m)
  OBVIOUS
<1>8. /\ n \in Seq(Strings) /\ Len(n) = 2 + Len(args)
      /\ \A i \in 1 .. Len(n) : n[i] = m[i + 1]
      /\ GetWireFormat(m) = Join(a, GetWireFormat(n))
  BY <1>4, <1>5, <1>7, WireFormatCons
<1>9. PICK k : k = Tail(n)
  OBVIOUS
<1>10. /\ k \in Seq(Strings) /\ Len(k) = 1 + Len(args)
       /\ \A i \in 1 .. Len(k) : k[i] = n[i + 1]
       /\ GetWireFormat(n) = Join(b, GetWireFormat(k))
  <2>1. n[1] = b
    BY <1>4, <1>5, <1>8
  <2> QED BY <1>4, <1>8, <1>9, <2>1, WireFormatCons
<1>11. k[1] = c /\ \A i \in 1 .. Len(args) : k[i + 1] = args[i]
  <2>0. Len(args) \in Nat
    OBVIOUS
  <2>1. n[2] = c /\ k[1] = n[2]
    <3>1. 2 \in 1 .. Len(n) /\ 1 \in 1 .. Len(k)
      BY <1>8, <1>10, <2>0
    <3>2. n[2] = m[2 + 1] /\ k[1] = n[1 + 1]
      BY <1>8, <1>10, <3>1
    <3> QED BY <1>5, <3>2
  <2>2. ASSUME NEW i \in 1 .. Len(args) PROVE k[i + 1] = args[i]
    <3>1. i + 1 \in 1 .. Len(k) /\ i + 1 + 1 \in 1 .. Len(n) /\ i + 1 + 1 + 1 = i + 3
      BY <1>4, <1>8, <1>10
    <3>2. k[i + 1] = n[i + 1 + 1]
      BY <1>10, <3>1
    <3>3. n[i + 1 + 1] = m[i + 3]
      BY <1>8, <3>1
    <3> QED BY <1>5, <3>2, <3>3
  <2> QED BY <2>1, <2>2
<1>12. CASE args = <<>>
  <2>1. Len(k) = 1
    BY <1>10, <1>12
  <2>2. GetWireFormat(k) = c
    BY <1>10, <1>11, <2>1, WireFormatOne
  <2> QED BY <1>1, <1>4, <1>6, <1>8, <1>10, <1>12, <2>2
<1>13. CASE args # <<>>
  <2>1. Len(args) >= 1 /\ Len(k) >= 2
    BY <1>10, <1>13, MessageFacts
  <2>2. PICK q : q = Tail(k)
    OBVIOUS
  <2>3. /\ q \in Seq(Strings) /\ Len(q) = Len(args)
        /\ \A i \in 1 .. Len(q) : q[i] = k[i + 1]
        /\ GetWireFormat(k) = Join(c, GetWireFormat(q))
    BY <1>4, <1>10, <1>11, <2>1, <2>2, WireFormatCons
  <2>4. q = args
    BY <1>11, <2>3, SeqEqual
  <2> QED BY <1>1, <1>4, <1>6, <1>8, <1>10, <1>13, <2>3, <2>4
<1> QED BY <1>12, <1>13

\* The part of it before a NUL.
LEMMA HeaderCut ==
  ASSUME NEW a, Plain(a), NEW b, Plain(b), NEW c, Plain(c), NEW args \in Seq(Strings)
  PROVE  Before(GetWireFormat(<<a, b, c>> \o args), NUL) =
           Join(a, Join(b, IF args = <<>> THEN c
                           ELSE Join(c, Before(GetWireFormat(args), NUL))))
<1>0. /\ a \in Strings /\ b \in Strings /\ c \in Strings
      /\ Without(a, NUL) /\ Without(b, NUL) /\ Without(c, NUL) /\ NUL # WIRE_DELIMITER
  BY CharFacts DEF Plain
<1>1. CASE args = <<>>
  <2>1. GetWireFormat(<<a, b, c>> \o args) = Join(a, Join(b, c))
    <3>1. GetWireFormat(<<a, b, c>> \o args) =
            Join(a, Join(b, IF args = <<>> THEN c ELSE Join(c, GetWireFormat(args))))
      BY <1>0, HeaderText
    <3>2. (IF args = <<>> THEN c ELSE Join(c, GetWireFormat(args))) = c
      BY <1>1
    <3> QED BY <3>1, <3>2, Zenon
  <2>2. Before(Join(b, c), NUL) = Join(b, Before(c, NUL)) /\ Before(c, NUL) = c
    BY <1>0, BeforeLater, BeforeAll
  <2>3. Before(Join(a, Join(b, c)), NUL) = Join(a, Before(Join(b, c), NUL))
    BY <1>0, BeforeLater, JoinType
  <2> QED BY <1>1, <2>1, <2>2, <2>3
<1>2. CASE args # <<>>
  <2>1. PICK r : r = GetWireFormat(args)
    OBVIOUS
  <2>2. r \in Strings
    BY <1>2, <2>1, WireFormatType
  <2>3. GetWireFormat(<<a, b, c>> \o args) = Join(a, Join(b, Join(c, r)))
    BY <1>0, <1>2, <2>1, HeaderText
  <2>4. Before(Join(c, r), NUL) = Join(c, Before(r, NUL)) /\ Join(c, r) \in Strings
    BY <1>0, <2>2, BeforeLater, JoinType
  <2>5. Before(Join(b, Join(c, r)), NUL) = Join(b, Before(Join(c, r), NUL))
    BY <1>0, <2>4, BeforeLater
  <2>6. Before(Join(a, Join(b, Join(c, r))), NUL) = Join(a, Before(Join(b, Join(c, r)), NUL))
    BY <1>0, <2>4, BeforeLater, JoinType
  <2> QED BY <1>2, <2>1, <2>3, <2>4, <2>5, <2>6
<1> QED BY <1>1, <1>2

\* Its tokens.
LEMMA HeaderSplit ==
  ASSUME NEW a, Plain(a), NEW b, Plain(b), NEW c, Plain(c),
         NEW ps, IsSplit(Join(a, Join(b, c)), ps)
  PROVE  Len(ps) = 3 /\ ps[1] = a /\ ps[2] = b /\ ps[3] = c
<1>0. /\ a \in Strings /\ b \in Strings /\ c \in Strings /\ Join(b, c) \in Strings
      /\ Without(a, WIRE_DELIMITER) /\ Without(b, WIRE_DELIMITER) /\ Without(c, WIRE_DELIMITER)
  BY JoinType DEF Plain
<1>1. PICK qs : qs = Tail(ps)
  OBVIOUS
<1>2. /\ ps[1] = a /\ Len(ps) \in Nat
      /\ IsSplit(Join(b, c), qs) /\ Len(qs) = Len(ps) - 1
      /\ \A i \in 1 .. Len(qs) : qs[i] = ps[i + 1]
  BY <1>0, <1>1, SplitPeel
<1>3. PICK rs : rs = Tail(qs)
  OBVIOUS
<1>4. /\ qs[1] = b /\ Len(qs) \in Nat
      /\ IsSplit(c, rs) /\ Len(rs) = Len(qs) - 1
      /\ \A i \in 1 .. Len(rs) : rs[i] = qs[i + 1]
  BY <1>0, <1>2, <1>3, SplitPeel
<1>5. Len(rs) = 1 /\ rs[1] = c
  BY <1>0, <1>4, SplitWhole
<1>6. Len(qs) = 2 /\ Len(ps) = 3
  <2>1. \A x, y \in Nat : 1 = x - 1 /\ x = y - 1 => x = 2 /\ y = 3
    OBVIOUS
  <2>2. Len(qs) \in Nat /\ Len(ps) \in Nat /\ Len(qs) = Len(ps) - 1 /\ 1 = Len(qs) - 1
    <3>1. Len(rs) = Len(qs) - 1
      BY <1>4, Zenon
    <3> QED BY <1>2, <1>4, <1>5, <3>1, Zenon
  <2> QED BY <2>1, <2>2, Zenon
<1>7. rs[1] = qs[2] /\ qs[2] = ps[3] /\ qs[1] = ps[2]
  BY <1>2, <1>4, <1>5, <1>6
<1> QED BY <1>2, <1>4, <1>5, <1>6, <1>7

LEMMA HeaderArgumentsSplit ==
  ASSUME NEW a, Plain(a), NEW b, Plain(b), NEW c, Plain(c), NEW r \in Strings,
         NEW ps, IsSplit(Join(a, Join(b, Join(c, r))), ps)
  PROVE  /\ Len(ps) \in Nat /\ Len(ps) >= 4 /\ ps[1] = a /\ ps[2] = b /\ ps[3] = c
         /\ \E qs : /\ IsSplit(r, qs) /\ Len(qs) = Len(ps) - 3
                    /\ \A i \in 1 .. Len(qs) : ps[i + 3] = qs[i]
<1>0. /\ a \in Strings /\ b \in Strings /\ c \in Strings
      /\ Join(c, r) \in Strings /\ Join(b, Join(c, r)) \in Strings
      /\ Without(a, WIRE_DELIMITER) /\ Without(b, WIRE_DELIMITER) /\ Without(c, WIRE_DELIMITER)
  BY JoinType DEF Plain
<1>1. PICK ns : ns = Tail(ps)
  OBVIOUS
<1>2. /\ ps[1] = a /\ Len(ps) \in Nat
      /\ IsSplit(Join(b, Join(c, r)), ns) /\ Len(ns) = Len(ps) - 1
      /\ \A i \in 1 .. Len(ns) : ns[i] = ps[i + 1]
  BY <1>0, <1>1, SplitPeel
<1>3. PICK rs : rs = Tail(ns)
  OBVIOUS
<1>4. /\ ns[1] = b /\ Len(ns) \in Nat
      /\ IsSplit(Join(c, r), rs) /\ Len(rs) = Len(ns) - 1
      /\ \A i \in 1 .. Len(rs) : rs[i] = ns[i + 1]
  BY <1>0, <1>2, <1>3, SplitPeel
<1>5. PICK qs : qs = Tail(rs)
  OBVIOUS
<1>6. /\ rs[1] = c /\ Len(rs) \in Nat
      /\ IsSplit(r, qs) /\ Len(qs) = Len(rs) - 1
      /\ \A i \in 1 .. Len(qs) : qs[i] = rs[i + 1]
  BY <1>0, <1>4, <1>5, SplitPeel
<1>7. Len(qs) \in Nat /\ Len(qs) >= 1
  BY <1>6, TokenFacts DEF IsSplit
<1>8. Len(qs) = Len(ps) - 3 /\ Len(ps) >= 4
  BY <1>2, <1>4, <1>6, <1>7
<1>9. rs[1] = ns[2] /\ ns[2] = ps[3] /\ ns[1] = ps[2]
  BY <1>2, <1>4, <1>6, <1>7
<1>10. ASSUME NEW i \in 1 .. Len(qs) PROVE ps[i + 3] = qs[i]
  <2>1. i + 1 \in 1 .. Len(rs) /\ i + 1 + 1 \in 1 .. Len(ns) /\ i + 1 + 1 + 1 = i + 3
    BY <1>2, <1>4, <1>6
  <2>2. qs[i] = rs[i + 1]
    BY <1>6
  <2>3. rs[i + 1] = ns[i + 1 + 1]
    BY <1>4, <2>1
  <2>4. ns[i + 1 + 1] = ps[i + 3]
    BY <1>2, <2>1
  <2> QED BY <2>2, <2>3, <2>4
<1> QED BY <1>2, <1>4, <1>6, <1>8, <1>9, <1>10
------------------------------------------------------------------------------
\* The inductive invariant

Sends == {"send", "sendAsync"}
Longs == {"long", "longAsync"}
WithHeader(object, id, r) == Join(Numeral(ERROR_SUCCESS), Join(object, Join(Numeral(id), r)))

\* The calls, and the handle they leave the client with.
CallInv ==
  /\ at = "idle" => handle = None /\ side = "server"
  /\ at # "idle" => call.function # "none"
  /\ call.function \in Sends => \E t \in Text : call.arguments = <<t>> /\ sent = t
  /\ call.function = "reverse" => \E t \in Text : call.arguments = <<t>>
  /\ call.function = "add" =>
       \E x, y, z \in Ints : call.arguments = <<Numeral(x), Numeral(y), Numeral(z)>>
  /\ call.function \in Longs =>
       \E w \in WaitTime, t \in Text : call.arguments = <<Numeral(w), t>>
  /\ call.function = "get" =>
       handle # None /\ (at \in {"parse", "process", "return"} => handle # Null)
  /\ handle \in Objects

\* What Tokenize has done.
ParseInv ==
  at \in {"parse", "process", "return"} =>
    /\ Without(src, NUL) /\ Len(src) < PIPE_BUFFER_SIZE
    /\ \A i \in 1 .. Len(params) : Without(params[i], WIRE_DELIMITER)
    /\ params = <<>> => start = 1
    /\ params # <<>> /\ start = npos => src = GetWireFormat(params)
    /\ params # <<>> /\ start # npos =>
         src = Join(GetWireFormat(params), SubSeq(src, start, Len(src)))
    /\ at # "parse" => params # <<>> /\ start = npos

\* The text of the request.
RequestInv ==
  side = "server" /\ at \in {"parse", "process"} =>
    /\ call.function \in Sends =>
         src = WithHeader(Null, eCreateStringDispId, Before(call.arguments[1], NUL))
    /\ call.function = "get" =>
         src = Join(Numeral(ERROR_SUCCESS), Join(handle, Numeral(eCreateStringDispId)))
    /\ call.function = "add" => src = WithHeader(Calculator, AddDispID, GetWireFormat(call.arguments))
    /\ call.function = "reverse" =>
         src = WithHeader(Calculator, ReverseNameDispID, Before(call.arguments[1], NUL))
    /\ call.function \in Longs =>
         src = WithHeader(Calculator, LongOperationDispID,
                          Join(call.arguments[1], Before(call.arguments[2], NUL)))

\* The parameters of a response.
Answer(m) ==
  /\ m \in Seq(Strings) /\ Len(m) >= eDispIdPosition
  /\ \A i \in 1 .. Len(m) : Plain(m[i])
  /\ call.function \in Sends \cup Longs \cup {"add", "reverse"} => m[1] = Numeral(ERROR_SUCCESS)
  /\ call.function = "send" => Len(m) >= 5 /\ m[5] = Primitive
  /\ call.function = "sendAsync" =>
       Len(m) >= 5 /\ (Delimiters(Before(call.arguments[1], NUL)) <= 1 =>
                          Len(m) = 5 /\ m[5] = Primitive)
  /\ call.function = "get" =>
       IF handle = Primitive
       THEN Len(m) = 4 /\ m[1] = Numeral(ERROR_SUCCESS) /\ m[4] = stored
       ELSE m[1] = Numeral(ERROR_NO_OBJECT_FOUND)
  /\ call.function = "add" =>
       /\ Len(m) = 6
       /\ m[6] = Numeral(Wrap(Number(call.arguments[1]) + Number(call.arguments[2])))
  /\ call.function = "reverse" => Len(m) >= 4 /\ m[4] = Reverse(Arrives(call.arguments[1]))
  /\ call.function \in Longs =>
       /\ Len(m) >= 5 /\ m[5] = Greeting
       /\ Delimiters(Before(call.arguments[2], NUL)) = 0 => Len(m) = 5

AnswerInv ==
  /\ at = "process" => side = "server"
  /\ at = "return" => side = "client"
  /\ side = "client" /\ at \in {"parse", "return"} => \E m : Answer(m) /\ src = GetWireFormat(m)

\* The length of a request for primitive data without the data.
HeaderLength == Len(Numeral(ERROR_SUCCESS)) + Len(Numeral(eCreateStringDispId)) + 4

\* The value of the primitive object, once it has been created.
StoredInv ==
  handle # None \/ (side = "client" /\ call.function \in Sends) =>
    /\ stored = Arrives(sent) /\ Plain(stored)
    /\ HeaderLength + Len(stored) < PIPE_BUFFER_SIZE

ResultInv ==
  HandleArrives /\ StringsAreCut /\ AddIsSum /\ OnlyGrowingResponsesFail

IInv ==
  /\ TypeOK /\ CallInv /\ ParseInv /\ RequestInv /\ AnswerInv /\ StoredInv /\ ResultInv
------------------------------------------------------------------------------
\* Requests and responses

\* A message of texts that come through unchanged.
IsMessage(m) ==
  /\ m \in Seq(Strings) /\ Len(m) >= eDispIdPosition
  /\ \A i \in 1 .. Len(m) : Plain(m[i])

LEMMA PlainIsString ==
  ASSUME NEW t, Plain(t)
  PROVE  t \in Strings /\ Without(t, WIRE_DELIMITER) /\ Without(t, NUL)
BY DEF Plain

LEMMA NumeralTexts ==
  ASSUME NEW i \in Numbers
  PROVE  Plain(Numeral(i)) /\ Numeral(i) \in Strings /\ Len(Numeral(i)) \in Nat
BY NumeralFacts

LEMMA NumbersOfMessages ==
  /\ ERROR_SUCCESS \in Numbers /\ ERROR_NO_OBJECT_FOUND \in Numbers
  /\ eCreateStringDispId \in Numbers /\ AddDispID \in Numbers /\ ReverseNameDispID \in Numbers
  /\ LongOperationDispID \in Numbers
  /\ Ints \subseteq Numbers /\ WaitTime \subseteq Numbers /\ ServerErrorCode \subseteq Numbers
BY DEF Numbers, ServerErrorCode

LEMMA TextFacts ==
  ASSUME NEW t \in Text
  PROVE  t \in Strings /\ Before(t, NUL) \in Strings /\ Without(Before(t, NUL), NUL)
<1>1. t \in Strings
  BY CharacterAssumption DEF Strings
<1> QED BY <1>1, BeforeType

\* The tokens of a text without a NUL have none.
LEMMA SplitPlain ==
  ASSUME NEW t, Without(t, NUL), NEW ps, IsSplit(t, ps)
  PROVE  \A i \in 1 .. Len(ps) : Plain(ps[i])
<1>1. t \in Strings
  BY SplitFirst
<1>2. \A i \in 1 .. Len(t) : t[i] \in Char \ {NUL}
  BY <1>1 DEF Strings, Without
<1>3. \A i \in 1 .. Len(ps) : \A j \in 1 .. Len(ps[i]) : ps[i][j] \in Char \ {NUL}
  BY <1>2, SplitChars
<1>4. \A i \in 1 .. Len(ps) : ps[i] \in Strings /\ Without(ps[i], WIRE_DELIMITER)
  BY TokenFacts DEF IsSplit
<1> QED BY <1>3, <1>4 DEF Plain, Without

\* The text of a message is its own split.
LEMMA MessageSplit ==
  ASSUME NEW m, IsMessage(m)
  PROVE  /\ m # <<>> /\ IsSplit(GetWireFormat(m), m) /\ GetWireFormat(m) \in Strings
         /\ Without(GetWireFormat(m), NUL) /\ Before(GetWireFormat(m), NUL) = GetWireFormat(m)
<1>1. m # <<>> /\ m \in Seq(Strings)
  BY DEF IsMessage, eDispIdPosition
<1>2. Tokens(m)
  BY <1>1 DEF IsMessage, Tokens, Plain
<1>3. Without(GetWireFormat(m), NUL)
  <2>1. \A i \in 1 .. Len(m) : Without(m[i], NUL)
    BY DEF IsMessage, Plain
  <2>2. NUL # WIRE_DELIMITER
    BY CharFacts
  <2> QED BY <1>1, <2>1, <2>2, WireFormatWithout
<1> QED BY <1>1, <1>2, <1>3, WireFormatType, BeforeAll DEF IsSplit

\* The tokens of a request with one string.
LEMMA StringRequest ==
  ASSUME NEW object, Plain(object), NEW id \in Numbers, NEW r \in Strings,
         NEW ps, IsSplit(WithHeader(object, id, r), ps)
  PROVE  /\ ps \in Seq(Strings) /\ Len(ps) \in Nat /\ Len(ps) >= 4
         /\ ps[1] = Numeral(ERROR_SUCCESS) /\ ps[2] = object /\ ps[3] = Numeral(id)
         /\ ps[4] = Before(r, WIRE_DELIMITER)
         /\ Delimiters(r) <= 1 <=> Len(ps) <= 5
<1>1. Plain(Numeral(ERROR_SUCCESS)) /\ Plain(Numeral(id))
  BY NumeralTexts, NumbersOfMessages
<1>2. /\ Len(ps) \in Nat /\ Len(ps) >= 4
      /\ ps[1] = Numeral(ERROR_SUCCESS) /\ ps[2] = object /\ ps[3] = Numeral(id)
      /\ \E qs : /\ IsSplit(r, qs) /\ Len(qs) = Len(ps) - 3
                 /\ \A i \in 1 .. Len(qs) : ps[i + 3] = qs[i]
  BY <1>1, HeaderArgumentsSplit DEF WithHeader
<1>3. PICK qs : /\ IsSplit(r, qs) /\ Len(qs) = Len(ps) - 3
                /\ \A i \in 1 .. Len(qs) : ps[i + 3] = qs[i]
  BY <1>2
<1>4. ps[4] = Before(r, WIRE_DELIMITER)
  <2>1. 1 \in 1 .. Len(qs) /\ 1 + 3 = 4
    BY <1>2, <1>3
  <2>2. ps[1 + 3] = qs[1]
    BY <1>3, <2>1
  <2> QED BY <1>3, <2>1, <2>2, SplitFirst
<1>5. Delimiters(r) <= 1 <=> Len(ps) <= 5
  <2>1. Len(qs) <= 2 <=> Len(ps) <= 5
    BY <1>2, <1>3
  <2>2. Delimiters(r) <= 1 <=> Len(qs) <= 2
    BY <1>3, SplitCount
  <2> QED BY <2>1, <2>2
<1>6. ps \in Seq(Strings)
  BY DEF IsSplit, Tokens
<1> QED BY <1>2, <1>4, <1>5, <1>6

\* The tokens of a request with a number and a string.
LEMMA LongRequest ==
  ASSUME NEW n, Plain(n), NEW r \in Strings,
         NEW ps, IsSplit(WithHeader(Calculator, LongOperationDispID, Join(n, r)), ps)
  PROVE  /\ ps \in Seq(Strings) /\ Len(ps) \in Nat /\ Len(ps) >= 5
         /\ ps[1] = Numeral(ERROR_SUCCESS) /\ ps[2] = Calculator
         /\ ps[3] = Numeral(LongOperationDispID)
         /\ ps[4] = n /\ ps[5] = Before(r, WIRE_DELIMITER)
         /\ Delimiters(r) = 0 <=> Len(ps) = 5
         /\ Delimiters(r) \in Nat
<1>1. /\ Plain(Numeral(ERROR_SUCCESS)) /\ Plain(Numeral(LongOperationDispID))
      /\ Plain(Calculator) /\ n \in Strings /\ Without(n, WIRE_DELIMITER)
  BY NumeralTexts, NumbersOfMessages, CharFacts, PlainIsString
<1>2. PICK u : u = Join(n, r)
  OBVIOUS
<1>3. u \in Strings
  BY <1>1, <1>2, JoinType
<1>4. /\ Len(ps) \in Nat /\ Len(ps) >= 4
      /\ ps[1] = Numeral(ERROR_SUCCESS) /\ ps[2] = Calculator
      /\ ps[3] = Numeral(LongOperationDispID)
      /\ \E qs : /\ IsSplit(u, qs) /\ Len(qs) = Len(ps) - 3
                 /\ \A i \in 1 .. Len(qs) : ps[i + 3] = qs[i]
  BY <1>1, <1>2, <1>3, HeaderArgumentsSplit DEF WithHeader
<1>5. PICK qs : /\ IsSplit(u, qs) /\ Len(qs) = Len(ps) - 3
                /\ \A i \in 1 .. Len(qs) : ps[i + 3] = qs[i]
  BY <1>4
<1>6. PICK rs : rs = Tail(qs)
  OBVIOUS
<1>7. /\ qs[1] = n /\ Len(qs) >= 2 /\ Len(qs) \in Nat
      /\ IsSplit(r, rs) /\ Len(rs) = Len(qs) - 1
      /\ \A i \in 1 .. Len(rs) : rs[i] = qs[i + 1]
  BY <1>1, <1>2, <1>5, <1>6, SplitPeel
<1>8. rs[1] = Before(r, WIRE_DELIMITER)
  BY <1>7, SplitFirst
<1>9. (Delimiters(r) = 0 <=> Len(rs) = 1) /\ Delimiters(r) \in Nat
  BY <1>7, SplitCount
<1>10. Len(rs) \in Nat /\ Len(rs) >= 1 /\ Len(ps) = Len(rs) + 4
  BY <1>4, <1>5, <1>7
<1>11. ps[4] = qs[1] /\ ps[5] = qs[2] /\ rs[1] = qs[2]
  <2>1. 1 \in 1 .. Len(qs) /\ 2 \in 1 .. Len(qs) /\ 1 \in 1 .. Len(rs)
    BY <1>7, <1>10
  <2>2. ps[1 + 3] = qs[1] /\ ps[2 + 3] = qs[2]
    BY <1>5, <2>1
  <2>3. rs[1] = qs[1 + 1]
    BY <1>7, <2>1
  <2> QED BY <2>2, <2>3
<1>12. ps \in Seq(Strings)
  BY DEF IsSplit, Tokens
<1>13. Len(ps) >= 5 /\ (Len(rs) = 1 <=> Len(ps) = 5)
  <2>1. \A j, k \in Nat : j >= 1 /\ k = j + 4 => k >= 5 /\ (j = 1 <=> k = 5)
    OBVIOUS
  <2> QED BY <1>4, <1>10, <2>1, Zenon
<1> QED BY <1>4, <1>7, <1>8, <1>9, <1>11, <1>12, <1>13

\* The tokens of the request of Add.
LEMMA AddRequest ==
  ASSUME NEW x \in Ints, NEW y \in Ints, NEW z \in Ints, NEW args,
         args = <<Numeral(x), Numeral(y), Numeral(z)>>,
         NEW ps, IsSplit(WithHeader(Calculator, AddDispID, GetWireFormat(args)), ps)
  PROVE  /\ ps \in Seq(Strings) /\ Len(ps) = 6
         /\ ps[1] = Numeral(ERROR_SUCCESS) /\ ps[2] = Calculator /\ ps[3] = Numeral(AddDispID)
         /\ ps[4] = Numeral(x) /\ ps[5] = Numeral(y) /\ ps[6] = Numeral(z)
<1>1. /\ Plain(Numeral(x)) /\ Plain(Numeral(y)) /\ Plain(Numeral(z))
      /\ Plain(Numeral(ERROR_SUCCESS)) /\ Plain(Numeral(AddDispID)) /\ Plain(Calculator)
  BY NumeralTexts, NumbersOfMessages, CharFacts
<1>2. /\ args \in Seq(Strings) /\ Len(args) = 3
      /\ args[1] = Numeral(x) /\ args[2] = Numeral(y) /\ args[3] = Numeral(z)
  <2>1. Numeral(x) \in Strings /\ Numeral(y) \in Strings /\ Numeral(z) \in Strings
    BY <1>1, PlainIsString
  <2> QED BY <2>1
<1>3. IsMessage(args)
  BY <1>1, <1>2 DEF IsMessage, eDispIdPosition
<1>4. PICK r : r = GetWireFormat(args)
  OBVIOUS
<1>5. r \in Strings /\ IsSplit(r, args)
  BY <1>3, <1>4, MessageSplit
<1>6. /\ Len(ps) \in Nat /\ ps[1] = Numeral(ERROR_SUCCESS) /\ ps[2] = Calculator
      /\ ps[3] = Numeral(AddDispID)
      /\ \E qs : /\ IsSplit(r, qs) /\ Len(qs) = Len(ps) - 3
                 /\ \A i \in 1 .. Len(qs) : ps[i + 3] = qs[i]
  BY <1>1, <1>4, <1>5, HeaderArgumentsSplit DEF WithHeader
<1>7. PICK qs : /\ IsSplit(r, qs) /\ Len(qs) = Len(ps) - 3
                /\ \A i \in 1 .. Len(qs) : ps[i + 3] = qs[i]
  BY <1>6
<1>8. qs = args
  BY <1>5, <1>7, SplitUnique
<1>9. ps[1 + 3] = args[1] /\ ps[2 + 3] = args[2] /\ ps[3 + 3] = args[3] /\ Len(ps) = 6
  <2>1. Len(qs) = 3
    BY <1>2, <1>8
  <2>2. ps[1 + 3] = qs[1] /\ ps[2 + 3] = qs[2] /\ ps[3 + 3] = qs[3]
    <3>1. 1 \in 1 .. Len(qs) /\ 2 \in 1 .. Len(qs) /\ 3 \in 1 .. Len(qs)
      BY <2>1
    <3> QED BY <1>7, <3>1, Zenon
  <2>3. \A n \in Nat : 3 = n - 3 => n = 6
    OBVIOUS
  <2>4. Len(ps) \in Nat /\ 3 = Len(ps) - 3
    BY <1>6, <1>7, <2>1, Zenon
  <2>5. Len(ps) = 6
    BY <2>3, <2>4, Zenon
  <2> QED BY <1>8, <2>2, <2>5, Zenon
<1>10. ps \in Seq(Strings)
  BY DEF IsSplit, Tokens
<1> QED BY <1>2, <1>6, <1>9, <1>10

\* A parameter set in a message.
IsSet(s, m, index, v) ==
  /\ Len(s) = IF index > Len(m) THEN index ELSE Len(m)
  /\ s[index] = v
  /\ \A i \in 1 .. Len(m) : i # index => s[i] = m[i]

LEMMA SetParameterFacts ==
  ASSUME NEW m, IsMessage(m), NEW index \in Nat, index >= 1, NEW v, Plain(v),
         NEW s, s = SetParameter(m, index, v)
  PROVE  IsMessage(s) /\ IsSet(s, m, index, v)
<1> DEFINE n == IF index > Len(m) THEN index ELSE Len(m)
<1>1. /\ m \in Seq(Strings) /\ Len(m) \in Nat /\ Len(m) >= 3
      /\ \A i \in 1 .. Len(m) : Plain(m[i]) /\ m[i] \in Strings
  BY DEF IsMessage, eDispIdPosition, Plain
<1>2. Plain(EmptyArgument)
  <2>1. EmptyArgument = <<>>
    BY CodecAssumption
  <2>2. <<>> \in Strings /\ Len(<<>>) = 0
    BY DEF Strings
  <2> QED BY <2>1, <2>2 DEF Plain, Without
<1>4. s = [i \in 1 .. n |-> IF i = index THEN v ELSE IF i <= Len(m) THEN m[i] ELSE EmptyArgument]
  BY DEF SetParameter
<1>5. n \in Nat /\ n >= 3 /\ index <= n /\ Len(m) <= n
  BY <1>1
<1> HIDE DEF n
<1>6. \A i \in 1 .. n : Plain(s[i]) /\ s[i] \in Strings
  BY <1>1, <1>2, <1>4, PlainIsString
<1>7. s \in Seq(Strings) /\ Len(s) = n
  <2>1. s \in [1 .. n -> Strings]
    BY <1>4, <1>6
  <2> QED BY <1>5, <2>1, SeqDef
<1>8. IsMessage(s)
  BY <1>5, <1>6, <1>7 DEF IsMessage, eDispIdPosition
<1>9. s[index] = v /\ \A i \in 1 .. Len(m) : i # index => s[i] = m[i]
  BY <1>1, <1>4, <1>5
<1> QED BY <1>1, <1>7, <1>8, <1>9 DEF n, IsSet

\* The arithmetic of an int.
LEMMA WrapFacts ==
  ASSUME NEW x \in Ints, NEW y \in Ints
  PROVE  /\ Wrap(x + y) \in Ints
         /\ x + y \in Ints => Wrap(x + y) = x + y
         /\ (Wrap(x + y) - (x + y)) % IntValues = 0
<1>1. INT_MAX \in Nat
  BY CodecAssumption
<1>2. PICK n : n = 2 * (INT_MAX + 1)
  OBVIOUS
<1>3. PICK s : s = x + y + INT_MAX + 1
  OBVIOUS
<1>4. /\ n \in Nat /\ n > 0 /\ s \in Int /\ -n <= s /\ s < 2 * n /\ IntValues = n
      /\ x \in Int /\ y \in Int
      /\ 0 <= s /\ s < n <=> x + y \in Ints
  BY <1>1, <1>2, <1>3 DEF Ints, INT_MIN, IntValues
<1>5. Wrap(x + y) = (s % n) - INT_MAX - 1
  <2>1. (x + y) - INT_MIN = s
    BY <1>1, <1>3, <1>4 DEF INT_MIN
  <2>2. s % n \in Int
    BY <1>4
  <2> QED BY <1>1, <1>4, <2>1, <2>2 DEF Wrap, INT_MIN
<1>6. PICK k \in {-1, 0, 1} : 0 <= s - k * n /\ s - k * n < n
  <2>1. CASE s < 0
    BY <1>4, <2>1
  <2>2. CASE 0 <= s /\ s < n
    BY <1>4, <2>2
  <2>3. CASE n <= s
    BY <1>4, <2>3
  <2> QED BY <1>4, <2>1, <2>2, <2>3
<1>7. s % n = s - k * n
  BY <1>4, <1>6
<1>8. Wrap(x + y) = x + y - k * n
  BY <1>1, <1>3, <1>4, <1>5, <1>7
<1>9. Wrap(x + y) \in Ints
  BY <1>1, <1>2, <1>3, <1>4, <1>6, <1>8 DEF Ints, INT_MIN
<1>10. ASSUME x + y \in Ints PROVE Wrap(x + y) = x + y
  <2>1. s % n = s
    BY <1>4, <1>10
  <2> QED BY <1>1, <1>3, <1>4, <1>5, <2>1
<1>11. (Wrap(x + y) - (x + y)) % IntValues = 0
  <2>1. Wrap(x + y) - (x + y) \in {-n, 0, n}
    BY <1>4, <1>6, <1>8
  <2>2. (-n) % n = 0 /\ 0 % n = 0 /\ n % n = 0
    BY <1>4
  <2> QED BY <1>4, <2>1, <2>2
<1> QED BY <1>9, <1>10, <1>11

LEMMA NumberFacts ==
  ASSUME NEW x \in Ints
  PROVE  Number(Numeral(x)) = x
<1>1. \A i \in Ints : Numeral(i) = Numeral(x) => i = x
  BY NumeralFacts, NumbersOfMessages
<1>2. \E i \in Ints : Numeral(i) = Numeral(x)
  OBVIOUS
<1>3. /\ Number(Numeral(x)) \in Ints /\ Numeral(Number(Numeral(x))) = Numeral(x)
  BY <1>2 DEF Number
<1> QED BY <1>1, <1>3

LEMMA ArrivesFacts ==
  ASSUME NEW t \in Text
  PROVE  /\ Arrives(t) = Before(Before(t, NUL), WIRE_DELIMITER)
         /\ Plain(Arrives(t)) /\ Len(Arrives(t)) \in Nat
         /\ Len(Arrives(t)) <= Len(Before(t, NUL)) /\ Len(Before(t, NUL)) \in Nat
<1>1. PICK r : r = Before(t, NUL)
  OBVIOUS
<1>2. r \in Strings /\ Without(r, NUL)
  BY <1>1, TextFacts
<1>3. PICK a : a = Before(r, WIRE_DELIMITER)
  OBVIOUS
<1>4. /\ a \in Strings /\ Len(a) \in Nat /\ Len(r) \in Nat /\ Len(a) <= Len(r)
      /\ Without(a, WIRE_DELIMITER) /\ \A i \in 1 .. Len(a) : a[i] = r[i]
  BY <1>2, <1>3, BeforeIsBefore DEF IsBefore, Strings
<1>5. Plain(a)
  BY <1>2, <1>4 DEF Plain, Without
<1> QED BY <1>1, <1>3, <1>4, <1>5 DEF Arrives

LEMMA ReverseFacts ==
  ASSUME NEW t, Plain(t)
  PROVE  Plain(Reverse(t)) /\ Len(Reverse(t)) = Len(t)
<1>1. t \in Strings /\ Len(t) \in Nat
  BY DEF Plain, Strings
<1>2. PICK r : r = Reverse(t)
  OBVIOUS
<1>3. r = [i \in 1 .. Len(t) |-> t[(Len(t) - i) + 1]]
  BY <1>2 DEF Reverse
<1>4. ASSUME NEW i \in 1 .. Len(t)
      PROVE  r[i] \in Char \ {WIRE_DELIMITER, NUL}
  <2>1. (Len(t) - i) + 1 \in 1 .. Len(t)
    BY <1>1
  <2> QED BY <1>3, <2>1 DEF Plain, Without, Strings
<1>5. r \in Strings /\ Len(r) = Len(t)
  <2>1. r \in [1 .. Len(t) -> Char]
    BY <1>3, <1>4
  <2> QED BY <1>1, <2>1, SeqDef DEF Strings
<1>6. Plain(r)
  BY <1>4, <1>5 DEF Plain, Without
<1> QED BY <1>2, <1>5, <1>6
------------------------------------------------------------------------------
\* The calls of the client

LEMMA SendFacts ==
  ASSUME NEW m \in Seq(Strings), m # <<>>, NEW to, Send(m, to)
  PROVE  /\ src' = Before(GetWireFormat(m), NUL) /\ src' \in Strings
         /\ start' = 1 /\ params' = <<>> /\ at' = "parse" /\ side' = to /\ error' = error
         /\ start' \in {npos} \cup 1 .. Len(src') + 1 /\ params' \in Seq(Strings)
         /\ ParseInv'
<1>1. /\ src' = Before(GetWireFormat(m), NUL)
      /\ start' = 1 /\ params' = <<>> /\ at' = "parse" /\ side' = to /\ error' = error
      /\ Len(Before(GetWireFormat(m), NUL)) < PIPE_BUFFER_SIZE
  BY DEF Send, PipeAccepts
<1>2. PICK t : t = GetWireFormat(m)
  OBVIOUS
<1>3. src' \in Strings /\ Without(src', NUL)
  BY <1>1, <1>2, WireFormatType, BeforeType
<1>4. Len(src') \in Nat
  BY <1>3 DEF Strings
<1>5. params' \in Seq(Strings) /\ Len(params') = 0
  BY <1>1
<1>6. ParseInv'
  BY <1>1, <1>3, <1>5 DEF ParseInv
<1> QED BY <1>1, <1>3, <1>4, <1>5, <1>6

LEMMA BeginFacts ==
  ASSUME IInv,
         NEW function \in {"send", "sendAsync", "get", "add", "reverse", "long", "longAsync"},
         NEW args \in Seq(Strings), NEW object, Plain(object), NEW id \in Numbers,
         Begin(function, args, object, id), sent' \in Strings
  PROVE  /\ TypeOK' /\ ParseInv' /\ AnswerInv' /\ ResultInv'
         /\ call' = [function |-> function, arguments |-> args]
         /\ handle' = handle /\ stored' = stored
         /\ \/ /\ at' = "parse" /\ side' = "server"
               /\ src' = Join(Numeral(ERROR_SUCCESS),
                           Join(object, IF args = <<>> THEN Numeral(id)
                                        ELSE Join(Numeral(id), Before(GetWireFormat(args), NUL))))
            \/ at' = "hangs" /\ side' = side
<1> DEFINE m == <<Numeral(ERROR_SUCCESS), object, Numeral(id)>> \o args
<1>0. TypeOK
  BY DEF IInv
<1>1. /\ call' = [function |-> function, arguments |-> args]
      /\ got' = None /\ stored' = stored /\ handle' = handle
      /\ \/ Send(m, "server")
         \/ at' = "hangs" /\ UNCHANGED <<side, src, start, params, error>>
  BY DEF Begin, Message
<1>2. Plain(Numeral(ERROR_SUCCESS)) /\ Plain(Numeral(id))
  BY NumeralTexts, NumbersOfMessages
<1>3. m \in Seq(Strings) /\ m # <<>>
  BY <1>2, HeaderText, PlainIsString
<1>4. /\ call'.function = function /\ call'.arguments \in Seq(Seq(Char))
      /\ {stored', handle', got', sent'} \subseteq Seq(Char)
  <2>1. None \in Strings
    BY CharFacts, PlainIsString
  <2>2. call'.arguments = args
    BY <1>1
  <2> QED BY <1>0, <1>1, <2>1, <2>2 DEF TypeOK, Strings
<1>5. CASE Send(m, "server")
  <2>1. src' = Join(Numeral(ERROR_SUCCESS),
                    Join(object, IF args = <<>> THEN Numeral(id)
                                 ELSE Join(Numeral(id), Before(GetWireFormat(args), NUL))))
    <3>1. Before(GetWireFormat(m), NUL) =
            Join(Numeral(ERROR_SUCCESS),
                 Join(object, IF args = <<>> THEN Numeral(id)
                              ELSE Join(Numeral(id), Before(GetWireFormat(args), NUL))))
      BY <1>2, HeaderCut
    <3>2. src' = Before(GetWireFormat(m), NUL)
      <4> HIDE DEF m
      <4> QED BY <1>3, <1>5, SendFacts
    <3> QED BY <3>1, <3>2, Zenon
  <2>2. /\ src' \in Strings /\ at' = "parse" /\ side' = "server" /\ error' = error
        /\ start' \in {npos} \cup 1 .. Len(src') + 1 /\ params' \in Seq(Strings)
        /\ ParseInv'
    <3> HIDE DEF m
    <3> QED BY <1>3, <1>5, SendFacts
  <2>3. TypeOK'
    BY <1>0, <1>4, <2>2 DEF TypeOK, Strings
  <2>4. AnswerInv' /\ ResultInv'
    BY <2>2 DEF AnswerInv, ResultInv, HandleArrives, StringsAreCut, AddIsSum,
                OnlyGrowingResponsesFail, Returned
  <2> QED BY <1>1, <2>1, <2>2, <2>3, <2>4
<1>6. CASE at' = "hangs" /\ UNCHANGED <<side, src, start, params, error>>
  <2>1. TypeOK'
    BY <1>0, <1>4, <1>6 DEF TypeOK
  <2>2. AnswerInv' /\ ResultInv' /\ ParseInv'
    BY <1>6 DEF ParseInv, AnswerInv, ResultInv, HandleArrives, StringsAreCut,
                AddIsSum, OnlyGrowingResponsesFail, Returned
  <2> QED BY <1>1, <1>6, <2>1, <2>2
<1> QED BY <1>1, <1>5, <1>6

LEMMA OneArgument ==
  ASSUME NEW t \in Strings
  PROVE  /\ <<t>> \in Seq(Strings) /\ <<t>> # <<>> /\ <<t>>[1] = t
         /\ GetWireFormat(<<t>>) = t
<1>1. PICK m : m = <<t>>
  OBVIOUS
<1>2. m \in Seq(Strings) /\ Len(m) = 1 /\ m[1] = t /\ m # <<>>
  BY <1>1
<1>3. GetWireFormat(m) = t
  BY <1>2, WireFormatOne
<1> QED BY <1>1, <1>2, <1>3

LEMMA SendPrimitiveDataPreserves == IInv /\ SendPrimitiveData => IInv'
<1> SUFFICES ASSUME IInv, at = "idle", NEW t \in Text, NEW f \in {"send", "sendAsync"},
                    Begin(f, <<t>>, Null, eCreateStringDispId), sent' = t
             PROVE  IInv'
  BY DEF SendPrimitiveData
<1>1. /\ t \in Strings /\ <<t>> \in Seq(Strings) /\ <<t>> # <<>> /\ <<t>>[1] = t
      /\ GetWireFormat(<<t>>) = t
  BY TextFacts, OneArgument
<1>2. PICK a : a = <<t>>
  OBVIOUS
<1>3. /\ TypeOK' /\ ParseInv' /\ AnswerInv' /\ ResultInv'
      /\ call' = [function |-> f, arguments |-> a]
      /\ handle' = handle /\ stored' = stored
      /\ \/ /\ at' = "parse" /\ side' = "server"
            /\ src' = WithHeader(Null, eCreateStringDispId, Before(t, NUL))
         \/ at' = "hangs" /\ side' = side
  <2>1. sent' \in Strings
    BY <1>1
  <2>2. Plain(Null) /\ eCreateStringDispId \in Numbers
    BY CharFacts, NumbersOfMessages
  <2>3. /\ TypeOK' /\ ParseInv' /\ AnswerInv' /\ ResultInv'
        /\ call' = [function |-> f, arguments |-> a]
        /\ handle' = handle /\ stored' = stored
        /\ \/ /\ at' = "parse" /\ side' = "server"
              /\ src' = Join(Numeral(ERROR_SUCCESS),
                          Join(Null, IF a = <<>> THEN Numeral(eCreateStringDispId)
                               ELSE Join(Numeral(eCreateStringDispId), Before(GetWireFormat(a), NUL))))
           \/ at' = "hangs" /\ side' = side
    BY <1>1, <1>2, <2>1, <2>2, BeginFacts
  <2> QED BY <1>1, <1>2, <2>3 DEF WithHeader
<1>4. handle = None /\ side = "server" /\ handle \in Objects
  BY DEF IInv, CallInv
<1>5. call'.function = f /\ call'.arguments = a /\ call'.arguments[1] = t
  BY <1>1, <1>2, <1>3
<1>6. CallInv'
  BY <1>2, <1>3, <1>4, <1>5 DEF CallInv, Longs
<1>7. RequestInv'
  BY <1>3, <1>5 DEF RequestInv, Longs
<1>8. StoredInv'
  BY <1>3, <1>4 DEF StoredInv
<1> QED BY <1>3, <1>6, <1>7, <1>8 DEF IInv

LEMMA ReverseNamePreserves == IInv /\ ReverseName => IInv'
<1> SUFFICES ASSUME IInv, at = "idle", NEW t \in Text,
                    Begin("reverse", <<t>>, Calculator, ReverseNameDispID), sent' = sent
             PROVE  IInv'
  BY DEF ReverseName
<1>1. /\ t \in Strings /\ <<t>> \in Seq(Strings) /\ <<t>> # <<>> /\ <<t>>[1] = t
      /\ GetWireFormat(<<t>>) = t
  BY TextFacts, OneArgument
<1>2. PICK a : a = <<t>>
  OBVIOUS
<1>3. /\ TypeOK' /\ ParseInv' /\ AnswerInv' /\ ResultInv'
      /\ call' = [function |-> "reverse", arguments |-> a]
      /\ handle' = handle /\ stored' = stored
      /\ \/ /\ at' = "parse" /\ side' = "server"
            /\ src' = WithHeader(Calculator, ReverseNameDispID, Before(t, NUL))
         \/ at' = "hangs" /\ side' = side
  <2>1. sent' \in Strings
    BY DEF IInv, TypeOK, Strings
  <2>2. Plain(Calculator) /\ ReverseNameDispID \in Numbers
    BY CharFacts, NumbersOfMessages
  <2>3. /\ TypeOK' /\ ParseInv' /\ AnswerInv' /\ ResultInv'
        /\ call' = [function |-> "reverse", arguments |-> a]
        /\ handle' = handle /\ stored' = stored
        /\ \/ /\ at' = "parse" /\ side' = "server"
              /\ src' = Join(Numeral(ERROR_SUCCESS),
                          Join(Calculator, IF a = <<>> THEN Numeral(ReverseNameDispID)
                               ELSE Join(Numeral(ReverseNameDispID), Before(GetWireFormat(a), NUL))))
           \/ at' = "hangs" /\ side' = side
    BY <1>1, <1>2, <2>1, <2>2, BeginFacts
  <2> QED BY <1>1, <1>2, <2>3 DEF WithHeader
<1>4. handle = None /\ side = "server" /\ handle \in Objects
  BY DEF IInv, CallInv
<1>5. call'.function = "reverse" /\ call'.arguments = a /\ call'.arguments[1] = t
  BY <1>1, <1>2, <1>3
<1>6. CallInv'
  BY <1>2, <1>3, <1>4, <1>5 DEF CallInv, Sends, Longs
<1>7. RequestInv'
  BY <1>3, <1>5 DEF RequestInv, Sends, Longs
<1>8. StoredInv'
  BY <1>3, <1>4 DEF StoredInv
<1> QED BY <1>3, <1>6, <1>7, <1>8 DEF IInv

LEMMA ThreeNumerals ==
  ASSUME NEW x \in Ints, NEW y \in Ints, NEW z \in Ints, NEW a,
         a = <<Numeral(x), Numeral(y), Numeral(z)>>
  PROVE  /\ IsMessage(a) /\ a \in Seq(Strings) /\ a # <<>> /\ Len(a) = 3
         /\ a[1] = Numeral(x) /\ a[2] = Numeral(y) /\ a[3] = Numeral(z)
<1>1. Plain(Numeral(x)) /\ Plain(Numeral(y)) /\ Plain(Numeral(z))
  BY NumeralTexts, NumbersOfMessages
<1>2. Numeral(x) \in Strings /\ Numeral(y) \in Strings /\ Numeral(z) \in Strings
  BY <1>1, PlainIsString
<1>3. /\ a \in Seq(Strings) /\ a # <<>> /\ Len(a) = 3
      /\ a[1] = Numeral(x) /\ a[2] = Numeral(y) /\ a[3] = Numeral(z)
  BY <1>2
<1>4. IsMessage(a)
  BY <1>1, <1>3 DEF IsMessage, eDispIdPosition
<1> QED BY <1>3, <1>4

LEMMA AddPreserves == IInv /\ Add => IInv'
<1> SUFFICES ASSUME IInv, at = "idle", NEW x \in Ints, NEW y \in Ints, NEW z \in Ints,
                    Begin("add", <<Numeral(x), Numeral(y), Numeral(z)>>, Calculator, AddDispID),
                    sent' = sent
             PROVE  IInv'
  BY DEF Add
<1>1. PICK a : a = <<Numeral(x), Numeral(y), Numeral(z)>>
  OBVIOUS
<1>2. /\ a \in Seq(Strings) /\ a # <<>> /\ Before(GetWireFormat(a), NUL) = GetWireFormat(a)
  BY <1>1, ThreeNumerals, MessageSplit
<1>3. /\ TypeOK' /\ ParseInv' /\ AnswerInv' /\ ResultInv'
      /\ call' = [function |-> "add", arguments |-> a]
      /\ handle' = handle /\ stored' = stored
      /\ \/ /\ at' = "parse" /\ side' = "server"
            /\ src' = WithHeader(Calculator, AddDispID, GetWireFormat(a))
         \/ at' = "hangs" /\ side' = side
  <2>1. sent' \in Strings
    BY DEF IInv, TypeOK, Strings
  <2>2. Plain(Calculator) /\ AddDispID \in Numbers
    BY CharFacts, NumbersOfMessages
  <2>3. Begin("add", a, Calculator, AddDispID)
    BY <1>1
  <2>4. /\ TypeOK' /\ ParseInv' /\ AnswerInv' /\ ResultInv'
        /\ call' = [function |-> "add", arguments |-> a]
        /\ handle' = handle /\ stored' = stored
        /\ \/ /\ at' = "parse" /\ side' = "server"
              /\ src' = Join(Numeral(ERROR_SUCCESS),
                          Join(Calculator, IF a = <<>> THEN Numeral(AddDispID)
                               ELSE Join(Numeral(AddDispID), Before(GetWireFormat(a), NUL))))
           \/ at' = "hangs" /\ side' = side
    BY <1>2, <2>1, <2>2, <2>3, BeginFacts
  <2> QED BY <1>2, <2>4 DEF WithHeader
<1>4. handle = None /\ side = "server" /\ handle \in Objects
  BY DEF IInv, CallInv
<1>5. call'.function = "add" /\ call'.arguments = a
  BY <1>3
<1>6. CallInv'
  BY <1>1, <1>3, <1>4, <1>5 DEF CallInv, Sends, Longs
<1>7. RequestInv'
  BY <1>3, <1>5 DEF RequestInv, Sends, Longs
<1>8. StoredInv'
  BY <1>3, <1>4 DEF StoredInv
<1> QED BY <1>3, <1>6, <1>7, <1>8 DEF IInv

LEMMA LongOperationPreserves == IInv /\ LongOperation => IInv'
<1> SUFFICES ASSUME IInv, at = "idle", NEW w \in WaitTime, NEW t \in Text,
                    NEW f \in {"long", "longAsync"},
                    Begin(f, <<Numeral(w), t>>, Calculator, LongOperationDispID), sent' = sent
             PROVE  IInv'
  BY DEF LongOperation
<1>1. PICK n : n = Numeral(w)
  OBVIOUS
<1>2. Plain(n) /\ n \in Strings /\ Without(n, NUL) /\ t \in Strings /\ NUL # WIRE_DELIMITER
  BY <1>1, NumeralTexts, NumbersOfMessages, TextFacts, PlainIsString, CharFacts
<1>3. PICK a : a = <<n, t>>
  OBVIOUS
<1>4. a \in Seq(Strings) /\ a # <<>> /\ Len(a) = 2 /\ a[1] = n /\ a[2] = t
  BY <1>2, <1>3
<1>5. Before(GetWireFormat(a), NUL) = Join(n, Before(t, NUL))
  <2>1. PICK b : b = Tail(a)
    OBVIOUS
  <2>2. /\ b \in Seq(Strings) /\ Len(b) = 1 /\ b[1] = t
        /\ GetWireFormat(a) = Join(n, GetWireFormat(b))
    <3>1. /\ b \in Seq(Strings) /\ Len(b) = Len(a) - 1
          /\ \A i \in 1 .. Len(b) : b[i] = a[i + 1]
          /\ GetWireFormat(a) = Join(a[1], GetWireFormat(b))
      <4>1. Len(a) >= 2
        BY <1>4
      <4>2. /\ Tail(a) \in Seq(Strings) /\ Len(Tail(a)) = Len(a) - 1
            /\ \A i \in 1 .. Len(Tail(a)) : Tail(a)[i] = a[i + 1]
            /\ GetWireFormat(a) = Join(a[1], GetWireFormat(Tail(a)))
        BY <1>4, <4>1, WireFormatCons, Zenon
      <4> QED BY <2>1, <4>2, Zenon
    <3>2. Len(b) = 1
      BY <1>4, <3>1
    <3>3. b[1] = a[1 + 1]
      <4>1. 1 \in 1 .. Len(b)
        BY <3>2
      <4> QED BY <3>1, <4>1, Zenon
    <3> QED BY <1>4, <3>1, <3>2, <3>3
  <2>3. GetWireFormat(b) = t
    BY <2>2, WireFormatOne
  <2> QED BY <1>2, <2>2, <2>3, BeforeLater
<1>6. /\ TypeOK' /\ ParseInv' /\ AnswerInv' /\ ResultInv'
      /\ call' = [function |-> f, arguments |-> a]
      /\ handle' = handle /\ stored' = stored
      /\ \/ /\ at' = "parse" /\ side' = "server"
            /\ src' = WithHeader(Calculator, LongOperationDispID, Join(n, Before(t, NUL)))
         \/ at' = "hangs" /\ side' = side
  <2>1. sent' \in Strings
    BY DEF IInv, TypeOK, Strings
  <2>2. Plain(Calculator) /\ LongOperationDispID \in Numbers
    BY CharFacts, NumbersOfMessages
  <2>3. Begin(f, a, Calculator, LongOperationDispID)
    BY <1>1, <1>3
  <2>4. /\ TypeOK' /\ ParseInv' /\ AnswerInv' /\ ResultInv'
        /\ call' = [function |-> f, arguments |-> a]
        /\ handle' = handle /\ stored' = stored
        /\ \/ /\ at' = "parse" /\ side' = "server"
              /\ src' = Join(Numeral(ERROR_SUCCESS),
                          Join(Calculator, IF a = <<>> THEN Numeral(LongOperationDispID)
                               ELSE Join(Numeral(LongOperationDispID), Before(GetWireFormat(a), NUL))))
           \/ at' = "hangs" /\ side' = side
    BY <1>4, <2>1, <2>2, <2>3, BeginFacts
  <2> QED BY <1>4, <1>5, <2>4 DEF WithHeader
<1>7. handle = None /\ side = "server" /\ handle \in Objects
  BY DEF IInv, CallInv
<1>8. /\ call'.function = f /\ call'.arguments = a
      /\ call'.arguments[1] = n /\ call'.arguments[2] = t
  BY <1>4, <1>6
<1>9. CallInv'
  <2>1. call'.arguments = <<Numeral(w), t>>
    BY <1>1, <1>3, <1>8
  <2> QED BY <1>6, <1>7, <1>8, <2>1 DEF CallInv, Sends, Longs
<1>10. RequestInv'
  BY <1>6, <1>8 DEF RequestInv, Sends, Longs
<1>11. StoredInv'
  BY <1>6, <1>7 DEF StoredInv
<1> QED BY <1>6, <1>9, <1>10, <1>11 DEF IInv

LEMMA GetPrimitiveDataPreserves == IInv /\ GetPrimitiveData => IInv'
<1> SUFFICES ASSUME IInv, at = "returned", handle # None, sent' = sent,
                    \/ handle # Null /\ Begin("get", <<>>, handle, eCreateStringDispId)
                    \/ /\ handle = Null
                       /\ call' = [function |-> "get", arguments |-> <<>>]
                       /\ got' = None /\ error' = ERROR_NULL_OBJECT
                       /\ UNCHANGED <<at, side, src, start, params, stored, handle>>
             PROVE  IInv'
  BY DEF GetPrimitiveData
<1>1. TypeOK /\ handle \in Objects /\ Plain(handle) /\ StoredInv
  BY CharFacts DEF IInv, CallInv
<1>2. CASE handle # Null /\ Begin("get", <<>>, handle, eCreateStringDispId)
  <2>1. PICK a : a = <<>>
    OBVIOUS
  <2>2. /\ TypeOK' /\ ParseInv' /\ AnswerInv' /\ ResultInv'
        /\ call' = [function |-> "get", arguments |-> a]
        /\ handle' = handle /\ stored' = stored
        /\ \/ /\ at' = "parse" /\ side' = "server"
              /\ src' = Join(Numeral(ERROR_SUCCESS), Join(handle, Numeral(eCreateStringDispId)))
           \/ at' = "hangs" /\ side' = side
    <3>1. sent' \in Strings
      BY <1>1 DEF TypeOK, Strings
    <3>2. eCreateStringDispId \in Numbers
      BY NumbersOfMessages
    <3>3. Begin("get", a, handle, eCreateStringDispId) /\ a \in Seq(Strings)
      BY <1>2, <2>1
    <3>4. /\ TypeOK' /\ ParseInv' /\ AnswerInv' /\ ResultInv'
          /\ call' = [function |-> "get", arguments |-> a]
          /\ handle' = handle /\ stored' = stored
          /\ \/ /\ at' = "parse" /\ side' = "server"
                /\ src' = Join(Numeral(ERROR_SUCCESS),
                            Join(handle, IF a = <<>> THEN Numeral(eCreateStringDispId)
                                 ELSE Join(Numeral(eCreateStringDispId), Before(GetWireFormat(a), NUL))))
             \/ at' = "hangs" /\ side' = side
      BY <1>1, <3>1, <3>2, <3>3, BeginFacts
    <3> QED BY <2>1, <3>4
  <2>3. call'.function = "get"
    BY <2>2
  <2>4. CallInv'
    BY <1>1, <1>2, <2>2, <2>3 DEF CallInv, Sends, Longs
  <2>5. RequestInv'
    BY <2>2, <2>3 DEF RequestInv, Sends, Longs
  <2>6. StoredInv'
    BY <1>1, <2>2 DEF StoredInv
  <2> QED BY <2>2, <2>4, <2>5, <2>6 DEF IInv
<1>3. CASE /\ handle = Null
           /\ call' = [function |-> "get", arguments |-> <<>>]
           /\ got' = None /\ error' = ERROR_NULL_OBJECT
           /\ UNCHANGED <<at, side, src, start, params, stored, handle>>
  <2>1. call'.function = "get"
    BY <1>3
  <2>2. None \in Strings
    BY CharFacts, PlainIsString
  <2>3. TypeOK'
    <3>1. call'.arguments = <<>>
      BY <1>3
    <3> QED BY <1>1, <1>3, <2>1, <2>2, <3>1 DEF TypeOK, Strings
  <2>4. CallInv'
    BY <1>1, <1>3, <2>1 DEF CallInv, Sends, Longs
  <2>5. ParseInv' /\ RequestInv' /\ AnswerInv'
    BY <1>3 DEF ParseInv, RequestInv, AnswerInv
  <2>6. StoredInv'
    BY <1>1, <1>3 DEF StoredInv
  <2>7. ResultInv'
    BY <1>3, <2>1 DEF ResultInv, HandleArrives, StringsAreCut, AddIsSum,
                      OnlyGrowingResponsesFail, Returned, ERROR_NULL_OBJECT, ERROR_SUCCESS,
                      ERROR_RECEIVE_FAILED
  <2> QED BY <2>3, <2>4, <2>5, <2>6, <2>7 DEF IInv
<1> QED BY <1>2, <1>3

LEMMA IInvInit == Init => IInv
<1> SUFFICES ASSUME Init PROVE IInv
  OBVIOUS
<1>1. Plain(None) /\ None \in Strings /\ None \in Objects
  BY CharFacts, PlainIsString
<1>2. <<>> \in Seq(Char) /\ <<>> \in Seq(Strings) /\ Len(<<>>) = 0
  OBVIOUS
<1>3. call.function = "none" /\ call.arguments = <<>>
  BY DEF Init
<1>4. TypeOK
  BY <1>1, <1>2, <1>3 DEF Init, TypeOK, Strings, ServerErrorCode
<1>5. CallInv /\ StoredInv
  BY <1>1, <1>3 DEF Init, CallInv, StoredInv, Sends, Longs
<1>6. ParseInv /\ RequestInv /\ AnswerInv
  BY DEF Init, ParseInv, RequestInv, AnswerInv
<1>7. ResultInv
  BY DEF Init, ResultInv, HandleArrives, StringsAreCut, AddIsSum,
         OnlyGrowingResponsesFail, Returned
<1> QED BY <1>4, <1>5, <1>6, <1>7 DEF IInv
------------------------------------------------------------------------------
\* The tokens

LEMMA TokenizePreserves == IInv /\ Tokenize => IInv'
<1> DEFINE rest == SubSeq(src, start, Len(src))
           token == Before(rest, WIRE_DELIMITER)
           end == start + Len(token)
<1> SUFFICES ASSUME IInv, at = "parse", start # npos, start <= Len(src) + 1,
                    params' = Append(params, token),
                    start' = IF end > Len(src) THEN npos ELSE end + 1,
                    UNCHANGED <<callVars, at, side, src>>
             PROVE  IInv'
  BY DEF Tokenize
<1>1. /\ TypeOK /\ CallInv /\ ParseInv /\ RequestInv /\ AnswerInv /\ StoredInv /\ ResultInv
  BY DEF IInv
<1>2. /\ src \in Strings /\ Len(src) \in Nat /\ src \in Seq(Char)
      /\ params \in Seq(Strings) /\ Len(params) \in Nat
      /\ start \in Nat /\ start >= 1 /\ \A i \in 1 .. Len(src) : src[i] \in Char
  BY <1>1 DEF TypeOK, npos, Strings
<1>3. PICK r : r = rest
  OBVIOUS
<1>4. /\ r \in Strings /\ Len(r) = Len(src) - start + 1
      /\ \A i \in 1 .. Len(r) : r[i] = src[start + i - 1]
  <2>1. \A i \in start .. Len(src) : src[i] \in Char
    BY <1>2
  <2>2. /\ r \in Seq(Char)
        /\ Len(r) = IF start <= Len(src) THEN Len(src) - start + 1 ELSE 0
        /\ \A i \in 1 .. Len(src) - start + 1 : r[i] = src[start + i - 1]
    BY <1>2, <1>3, <2>1, SubSeqProperties
  <2>3. Len(r) = Len(src) - start + 1
    BY <1>2, <2>2
  <2> QED BY <2>2, <2>3 DEF Strings
<1>5. PICK a : a = token
  OBVIOUS
<1>6. PICK e : e = end
  OBVIOUS
<1> HIDE DEF rest
<1>7. /\ a \in Strings /\ Len(a) \in Nat /\ Len(a) <= Len(r) /\ Without(a, WIRE_DELIMITER)
      /\ Len(a) = Len(r) => r = a
      /\ Len(a) < Len(r) => /\ SubSeq(r, Len(a) + 2, Len(r)) \in Strings
                            /\ r = Join(a, SubSeq(r, Len(a) + 2, Len(r)))
  BY <1>3, <1>4, <1>5, BeforeRest
<1> HIDE DEF token, end
<1>8. e = start + Len(a) /\ (e > Len(src) <=> Len(a) = Len(r))
  BY <1>2, <1>4, <1>5, <1>6, <1>7 DEF end
<1>9. PICK ps : ps = Append(params, a)
  OBVIOUS
<1>10. params' = ps /\ start' = IF e > Len(src) THEN npos ELSE e + 1
  BY <1>5, <1>6, <1>9
<1>11. /\ ps \in Seq(Strings) /\ ps # <<>> /\ Len(ps) = Len(params) + 1
       /\ \A i \in 1 .. Len(params) : ps[i] = params[i]
       /\ ps[Len(params) + 1] = a
  BY <1>2, <1>7, <1>9, AppendProperties
<1>12. \A i \in 1 .. Len(ps) : Without(ps[i], WIRE_DELIMITER)
  BY <1>1, <1>2, <1>7, <1>11 DEF ParseInv
\* What is left to read is the rest of the rest.
<1>13. ASSUME Len(a) < Len(r)
       PROVE  SubSeq(r, Len(a) + 2, Len(r)) = SubSeq(src, e + 1, Len(src))
  <2>1. PICK u : u = SubSeq(r, Len(a) + 2, Len(r))
    OBVIOUS
  <2>2. /\ Len(u) = Len(r) - Len(a) - 1
        /\ \A i \in 1 .. Len(u) : u[i] = r[Len(a) + 2 + i - 1]
    <3>1. \A i \in Len(a) + 2 .. Len(r) : r[i] \in Char
      BY <1>4, <1>7 DEF Strings
    <3>2. /\ Len(u) = IF Len(a) + 2 <= Len(r) THEN Len(r) - (Len(a) + 2) + 1 ELSE 0
          /\ \A i \in 1 .. Len(r) - (Len(a) + 2) + 1 : u[i] = r[Len(a) + 2 + i - 1]
      BY <1>2, <1>4, <1>7, <2>1, <3>1, SubSeqProperties DEF Strings
    <3>3. Len(u) = Len(r) - Len(a) - 1 /\ Len(u) = Len(r) - (Len(a) + 2) + 1
      <4>1. Len(r) \in Nat /\ Len(a) \in Nat /\ Len(a) + 1 <= Len(r)
        <5>1. Len(r) \in Nat
          BY <1>4 DEF Strings
        <5>2. Len(a) \in Nat /\ Len(a) < Len(r)
          BY <1>7, <1>13
        <5> QED BY <5>1, <5>2
      <4>2. Len(u) = Len(r) - (Len(a) + 2) + 1
        BY <3>2, <4>1
      <4> QED BY <4>1, <4>2
    <3> QED BY <3>2, <3>3
  <2>3. PICK v : v = SubSeq(src, e + 1, Len(src))
    OBVIOUS
  <2>4. /\ v \in Strings /\ Len(v) = Len(src) - e
        /\ \A i \in 1 .. Len(v) : v[i] = src[e + i]
    <3>1. \A i \in e + 1 .. Len(src) : src[i] \in Char
      BY <1>2, <1>7, <1>8
    <3>2. /\ v \in Seq(Char)
          /\ Len(v) = IF e + 1 <= Len(src) THEN Len(src) - (e + 1) + 1 ELSE 0
          /\ \A i \in 1 .. Len(src) - (e + 1) + 1 : v[i] = src[e + 1 + i - 1]
      BY <1>2, <1>7, <1>8, <2>3, <3>1, SubSeqProperties
    <3>3. Len(v) = Len(src) - e /\ Len(v) = Len(src) - (e + 1) + 1
      BY <1>2, <1>4, <1>7, <1>8, <1>13, <3>2
    <3>4. ASSUME NEW i \in 1 .. Len(v) PROVE v[i] = src[e + i]
      <4>1. e + 1 + i - 1 = e + i
        BY <1>2, <1>7, <1>8, <3>3
      <4> QED BY <3>2, <3>3, <4>1
    <3> QED BY <3>2, <3>3, <3>4 DEF Strings
  <2>5. Len(u) = Len(v)
    BY <1>2, <1>4, <1>7, <1>8, <2>2, <2>4
  <2>6. ASSUME NEW i \in 1 .. Len(u) PROVE u[i] = v[i]
    <3>1. /\ Len(a) + 2 + i - 1 \in 1 .. Len(r)
          /\ start + (Len(a) + 2 + i - 1) - 1 = e + i
      BY <1>2, <1>4, <1>7, <1>8, <2>2
    <3>2. r[Len(a) + 2 + i - 1] = src[e + i]
      BY <1>4, <3>1
    <3> QED BY <2>2, <2>4, <2>5, <3>2
  <2>7. u \in Strings
    BY <1>7, <1>13, <2>1
  <2> QED BY <2>1, <2>3, <2>4, <2>5, <2>6, <2>7, StringEqual
<1>14. params = <<>> => src = r
  <2> SUFFICES ASSUME params = <<>> PROVE src = r
    OBVIOUS
  <2>1. start = 1
    BY <1>1 DEF ParseInv
  <2>2. Len(r) = Len(src) /\ \A i \in 1 .. Len(r) : r[i] = src[i]
    BY <1>2, <1>4, <2>1
  <2> QED BY <1>2, <1>4, <2>2, StringEqual
<1>15. params # <<>> => src = Join(GetWireFormat(params), r) /\ GetWireFormat(params) \in Strings
  BY <1>1, <1>2, <1>3, WireFormatType DEF ParseInv, rest
<1>16. params # <<>> => GetWireFormat(ps) = Join(GetWireFormat(params), a)
  BY <1>2, <1>7, <1>9, WireFormatAppend
<1>17. params = <<>> => GetWireFormat(ps) = a
  <2> SUFFICES ASSUME params = <<>> PROVE GetWireFormat(ps) = a
    OBVIOUS
  <2>1. Len(params) = 0 /\ Len(ps) = 1 /\ ps[1] = a
    BY <1>11
  <2> QED BY <1>11, <2>1, WireFormatOne
<1>18. Len(a) = Len(r) => src = GetWireFormat(ps)
  BY <1>7, <1>14, <1>15, <1>16, <1>17
<1>19. ASSUME Len(a) < Len(r)
       PROVE  src = Join(GetWireFormat(ps), SubSeq(src, e + 1, Len(src)))
  <2>1. PICK u : u = SubSeq(src, e + 1, Len(src))
    OBVIOUS
  <2>2. u \in Strings /\ r = Join(a, u)
    BY <1>7, <1>13, <1>19, <2>1
  <2>3. CASE params = <<>>
    BY <1>14, <1>17, <2>1, <2>2, <2>3
  <2>4. CASE params # <<>>
    <3>1. Join(Join(GetWireFormat(params), a), u) = Join(GetWireFormat(params), Join(a, u))
      BY <1>7, <1>15, <2>2, <2>4, JoinAssociative
    <3> QED BY <1>15, <1>16, <2>1, <2>2, <2>4, <3>1
  <2> QED BY <2>3, <2>4
<1>20. ParseInv'
  <2>1. e + 1 # npos
    BY <1>2, <1>7, <1>8 DEF npos
  <2>2. start' = npos => src = GetWireFormat(ps)
    BY <1>8, <1>10, <1>18, <2>1
  <2>3. start' # npos => src = Join(GetWireFormat(ps), SubSeq(src, start', Len(src)))
    BY <1>7, <1>8, <1>10, <1>19, <1>4, <1>2
  <2> QED BY <1>1, <1>10, <1>11, <1>12, <2>2, <2>3 DEF ParseInv
<1>21. TypeOK'
  <2>1. start' \in {npos} \cup 1 .. Len(src) + 1
    BY <1>2, <1>7, <1>8, <1>10
  <2> QED BY <1>1, <1>10, <1>11, <2>1 DEF TypeOK, callVars, Strings
<1>22. CallInv' /\ RequestInv' /\ StoredInv'
  BY <1>1 DEF CallInv, RequestInv, StoredInv, callVars
<1>23. AnswerInv'
  BY <1>1 DEF AnswerInv, Answer, callVars
<1>24. ResultInv'
  BY DEF ResultInv, HandleArrives, StringsAreCut, AddIsSum,
         OnlyGrowingResponsesFail, Returned
<1> QED BY <1>20, <1>21, <1>22, <1>23, <1>24 DEF IInv

\* The lengths of the requests for primitive data.
LEMMA RequestLength ==
  ASSUME NEW object \in Strings, Len(object) = 1
  PROVE  /\ HeaderLength \in Nat
         /\ Len(Join(Numeral(ERROR_SUCCESS), Join(object, Numeral(eCreateStringDispId))))
              = HeaderLength - 1
         /\ \A r \in Strings :
              Len(WithHeader(object, eCreateStringDispId, r)) = HeaderLength + Len(r)
<1>1. PICK c : c = Numeral(ERROR_SUCCESS)
  OBVIOUS
<1>2. PICK d : d = Numeral(eCreateStringDispId)
  OBVIOUS
<1>3. c \in Strings /\ d \in Strings /\ Len(c) \in Nat /\ Len(d) \in Nat
  BY <1>1, <1>2, NumeralTexts, NumbersOfMessages
<1>4. HeaderLength = Len(c) + Len(d) + 4
  BY <1>1, <1>2 DEF HeaderLength
<1>5. ASSUME NEW u \in Strings
      PROVE  Len(Join(c, Join(object, u))) = Len(c) + Len(u) + 3 /\ Len(u) \in Nat
  <2>1. PICK v : v = Join(object, u)
    OBVIOUS
  <2>2. v \in Strings /\ Len(v) = Len(u) + 2 /\ Len(u) \in Nat
    <3>1. v \in Strings /\ Len(v) = Len(object) + 1 + Len(u) /\ Len(u) \in Nat
      BY <2>1, JoinFacts
    <3> QED BY <3>1
  <2>3. Len(Join(c, v)) = Len(c) + 1 + Len(v)
    BY <1>3, <2>2, JoinFacts
  <2> QED BY <1>3, <2>1, <2>2, <2>3
<1>6. Len(Join(c, Join(object, d))) = HeaderLength - 1
  BY <1>3, <1>4, <1>5
<1>7. ASSUME NEW r \in Strings
      PROVE  Len(Join(c, Join(object, Join(d, r)))) = HeaderLength + Len(r)
  <2>1. PICK u : u = Join(d, r)
    OBVIOUS
  <2>2. u \in Strings /\ Len(u) = Len(d) + 1 + Len(r) /\ Len(r) \in Nat
    BY <1>3, <2>1, JoinFacts
  <2>3. Len(Join(c, Join(object, u))) = Len(c) + Len(u) + 3
    BY <1>5, <2>2
  <2> QED BY <1>3, <1>4, <2>1, <2>2, <2>3
<1>8. HeaderLength \in Nat
  BY <1>3, <1>4
<1> QED BY <1>1, <1>2, <1>6, <1>7, <1>8 DEF WithHeader

\* Tokens of the request, whatever its function.
LEMMA RequestTokens ==
  ASSUME IInv, side = "server", at \in {"parse", "process"},
         NEW ps, IsSplit(src, ps)
  PROVE  /\ IsMessage(ps) /\ Len(ps) \in Nat
         /\ ps[1] = Numeral(ERROR_SUCCESS)
         /\ call.function \in Sends =>
              /\ Len(ps) >= 4 /\ ps[2] = Null /\ ps[4] = Arrives(sent)
              /\ Delimiters(Before(call.arguments[1], NUL)) <= 1 <=> Len(ps) <= 5
              /\ HeaderLength + Len(ps[4]) < PIPE_BUFFER_SIZE
         /\ call.function = "get" =>
              /\ Len(ps) = 3 /\ ps[2] = handle /\ ps[3] = Numeral(eCreateStringDispId)
              /\ Len(src) = HeaderLength - 1 /\ HeaderLength \in Nat
         /\ call.function = "add" =>
              /\ Len(ps) = 6 /\ ps[2] = Calculator /\ ps[3] = Numeral(AddDispID)
              /\ \E x, y, z \in Ints :
                   /\ ps[4] = Numeral(x) /\ ps[5] = Numeral(y) /\ ps[6] = Numeral(z)
                   /\ call.arguments[1] = Numeral(x) /\ call.arguments[2] = Numeral(y)
         /\ call.function = "reverse" =>
              /\ Len(ps) >= 4 /\ ps[2] = Calculator /\ ps[3] = Numeral(ReverseNameDispID)
              /\ ps[4] = Arrives(call.arguments[1])
         /\ call.function \in Longs =>
              /\ Len(ps) >= 5 /\ ps[2] = Calculator /\ ps[3] = Numeral(LongOperationDispID)
              /\ \E w \in WaitTime : ps[4] = Numeral(w)
              /\ ps[5] = Arrives(call.arguments[2])
              /\ Delimiters(Before(call.arguments[2], NUL)) = 0 <=> Len(ps) = 5
              /\ Delimiters(Before(call.arguments[2], NUL)) \in Nat
<1>0. CallInv /\ ParseInv /\ RequestInv /\ TypeOK
  BY DEF IInv
<1>1. \A i \in 1 .. Len(ps) : Plain(ps[i])
  BY <1>0, SplitPlain DEF ParseInv
<1>2. ps \in Seq(Strings)
  BY DEF IsSplit, Tokens
<1>3. call.function \in Sends \cup Longs \cup {"get", "add", "reverse"}
  BY <1>0 DEF TypeOK, CallInv, Sends, Longs
<1>4. CASE call.function \in Sends
  <2>1. PICK t \in Text : call.arguments = <<t>> /\ sent = t
    BY <1>0, <1>4 DEF CallInv
  <2>2. call.arguments[1] = t
    BY <2>1
  <2>3. PICK r : r = Before(t, NUL)
    OBVIOUS
  <2>4. /\ r \in Strings /\ Arrives(t) = Before(r, WIRE_DELIMITER)
        /\ Len(Arrives(t)) \in Nat /\ Len(r) \in Nat /\ Len(Arrives(t)) <= Len(r)
    BY <2>3, TextFacts, ArrivesFacts
  <2>5. src = WithHeader(Null, eCreateStringDispId, r)
    BY <1>0, <1>4, <2>2, <2>3 DEF RequestInv
  <2>6. /\ Len(ps) \in Nat /\ Len(ps) >= 4
        /\ ps[1] = Numeral(ERROR_SUCCESS) /\ ps[2] = Null
        /\ ps[4] = Before(r, WIRE_DELIMITER)
        /\ Delimiters(r) <= 1 <=> Len(ps) <= 5
    BY <2>4, <2>5, StringRequest, CharFacts, NumbersOfMessages
  <2>7. Len(src) = HeaderLength + Len(r) /\ HeaderLength \in Nat
    <3>1. Null \in Strings /\ Len(Null) = 1
      BY CharFacts, PlainIsString
    <3> QED BY <2>4, <2>5, <3>1, RequestLength
  <2>8. Len(src) < PIPE_BUFFER_SIZE /\ PIPE_BUFFER_SIZE \in Nat
    BY <1>0, CodecAssumption DEF ParseInv
  <2>9. HeaderLength + Len(ps[4]) < PIPE_BUFFER_SIZE
    BY <2>4, <2>6, <2>7, <2>8
  <2>10. IsMessage(ps)
    BY <1>1, <1>2, <2>6 DEF IsMessage, eDispIdPosition
  <2> QED BY <1>4, <2>1, <2>2, <2>3, <2>4, <2>6, <2>9, <2>10 DEF Sends, Longs
<1>5. CASE call.function = "get"
  <2>1. Plain(handle) /\ Plain(Numeral(ERROR_SUCCESS)) /\ Plain(Numeral(eCreateStringDispId))
    BY <1>0, NumeralTexts, NumbersOfMessages, CharFacts DEF CallInv
  <2>2. src = Join(Numeral(ERROR_SUCCESS), Join(handle, Numeral(eCreateStringDispId)))
    BY <1>0, <1>5 DEF RequestInv
  <2>3. /\ Len(ps) = 3 /\ ps[1] = Numeral(ERROR_SUCCESS) /\ ps[2] = handle
        /\ ps[3] = Numeral(eCreateStringDispId)
    BY <2>1, <2>2, HeaderSplit
  <2>4. IsMessage(ps)
    BY <1>1, <1>2, <2>3 DEF IsMessage, eDispIdPosition
  <2>5. Len(src) = HeaderLength - 1 /\ HeaderLength \in Nat
    <3>1. handle \in Strings /\ Len(handle) = 1
      BY <1>0, CharFacts, PlainIsString DEF CallInv
    <3> QED BY <2>2, <3>1, RequestLength
  <2> QED BY <1>5, <2>3, <2>4, <2>5 DEF Sends, Longs
<1>6. CASE call.function = "add"
  <2>1. PICK x \in Ints, y \in Ints, z \in Ints :
          call.arguments = <<Numeral(x), Numeral(y), Numeral(z)>>
    BY <1>0, <1>6 DEF CallInv
  <2>2. PICK a : a = call.arguments
    OBVIOUS
  <2>3. a = <<Numeral(x), Numeral(y), Numeral(z)>> /\ a[1] = Numeral(x) /\ a[2] = Numeral(y)
    BY <2>1, <2>2
  <2>4. src = WithHeader(Calculator, AddDispID, GetWireFormat(a))
    BY <1>0, <1>6, <2>2 DEF RequestInv, Sends, Longs
  <2>5. /\ Len(ps) = 6
        /\ ps[1] = Numeral(ERROR_SUCCESS) /\ ps[2] = Calculator /\ ps[3] = Numeral(AddDispID)
        /\ ps[4] = Numeral(x) /\ ps[5] = Numeral(y) /\ ps[6] = Numeral(z)
    BY <2>3, <2>4, AddRequest
  <2>6. IsMessage(ps)
    BY <1>1, <1>2, <2>5 DEF IsMessage, eDispIdPosition
  <2> QED BY <1>6, <2>2, <2>3, <2>5, <2>6 DEF Sends, Longs
<1>7. CASE call.function = "reverse"
  <2>1. PICK t \in Text : call.arguments = <<t>>
    BY <1>0, <1>7 DEF CallInv
  <2>2. call.arguments[1] = t
    BY <2>1
  <2>3. PICK r : r = Before(t, NUL)
    OBVIOUS
  <2>4. r \in Strings /\ Arrives(t) = Before(r, WIRE_DELIMITER)
    BY <2>3, TextFacts, ArrivesFacts
  <2>5. src = WithHeader(Calculator, ReverseNameDispID, r)
    BY <1>0, <1>7, <2>2, <2>3 DEF RequestInv, Sends, Longs
  <2>6. /\ Len(ps) \in Nat /\ Len(ps) >= 4
        /\ ps[1] = Numeral(ERROR_SUCCESS) /\ ps[2] = Calculator
        /\ ps[3] = Numeral(ReverseNameDispID)
        /\ ps[4] = Before(r, WIRE_DELIMITER)
    BY <2>4, <2>5, StringRequest, CharFacts, NumbersOfMessages
  <2>7. IsMessage(ps)
    BY <1>1, <1>2, <2>6 DEF IsMessage, eDispIdPosition
  <2> QED BY <1>7, <2>2, <2>4, <2>6, <2>7 DEF Sends, Longs
<1>8. CASE call.function \in Longs
  <2>1. PICK w \in WaitTime, t \in Text : call.arguments = <<Numeral(w), t>>
    BY <1>0, <1>8 DEF CallInv
  <2>2. call.arguments[1] = Numeral(w) /\ call.arguments[2] = t
    BY <2>1
  <2>3. PICK r : r = Before(t, NUL)
    OBVIOUS
  <2>4. r \in Strings /\ Arrives(t) = Before(r, WIRE_DELIMITER)
    BY <2>3, TextFacts, ArrivesFacts
  <2>5. PICK n : n = Numeral(w)
    OBVIOUS
  <2>6. Plain(n)
    BY <2>5, NumeralTexts, NumbersOfMessages
  <2>7. src = WithHeader(Calculator, LongOperationDispID, Join(n, r))
    BY <1>0, <1>8, <2>2, <2>3, <2>5 DEF RequestInv
  <2>8. /\ Len(ps) \in Nat /\ Len(ps) >= 5
        /\ ps[1] = Numeral(ERROR_SUCCESS) /\ ps[2] = Calculator
        /\ ps[3] = Numeral(LongOperationDispID)
        /\ ps[4] = n /\ ps[5] = Before(r, WIRE_DELIMITER)
        /\ Delimiters(r) = 0 <=> Len(ps) = 5
        /\ Delimiters(r) \in Nat
    BY <2>4, <2>6, <2>7, LongRequest
  <2>9. IsMessage(ps)
    BY <1>1, <1>2, <2>8 DEF IsMessage, eDispIdPosition
  <2> QED BY <1>8, <2>2, <2>3, <2>4, <2>5, <2>8, <2>9 DEF Sends, Longs
<1> QED BY <1>3, <1>4, <1>5, <1>6, <1>7, <1>8

LEMMA InitHelperReturnsPreserves == IInv /\ InitHelperReturns => IInv'
<1> SUFFICES ASSUME IInv, at = "parse", start = npos \/ start > Len(src) + 1,
                    at' = IF side = "server" THEN "process" ELSE "return",
                    UNCHANGED <<callVars, side, src, start, params>>
             PROVE  IInv'
  BY DEF InitHelperReturns
<1>1. TypeOK /\ CallInv /\ ParseInv /\ RequestInv /\ AnswerInv /\ StoredInv /\ ResultInv
  BY DEF IInv
<1>2. start = npos
  <2>1. Len(src) \in Nat /\ start \in {npos} \cup 1 .. Len(src) + 1
    BY <1>1 DEF TypeOK
  <2> QED BY <2>1
<1>3. params # <<>>
  BY <1>1, <1>2 DEF ParseInv, npos
<1>4. IsSplit(src, params)
  BY <1>1, <1>2, <1>3 DEF ParseInv, TypeOK, IsSplit, Tokens, Strings
<1>5. side \in {"server", "client"}
  BY <1>1 DEF TypeOK
<1>6. Len(params) >= eDispIdPosition
  <2>1. CASE side = "server"
    BY <1>4, <2>1, RequestTokens DEF IsMessage
  <2>2. CASE side = "client"
    <3>1. PICK m : Answer(m) /\ src = GetWireFormat(m)
      BY <1>1, <2>2 DEF AnswerInv
    <3>2. IsMessage(m)
      BY <3>1 DEF Answer, IsMessage
    <3>3. m = params
      BY <1>4, <3>1, <3>2, MessageSplit, SplitUnique
    <3> QED BY <3>2, <3>3 DEF IsMessage
  <2> QED BY <1>5, <2>1, <2>2
<1>7. TypeOK'
  BY <1>1, <1>5, <1>6 DEF TypeOK, callVars
<1>8. ParseInv' /\ CallInv' /\ RequestInv' /\ StoredInv'
  BY <1>1, <1>2, <1>3, <1>5 DEF ParseInv, CallInv, RequestInv, StoredInv, callVars
<1>9. AnswerInv'
  BY <1>1, <1>5 DEF AnswerInv, Answer, callVars
<1>10. ResultInv'
  BY <1>5 DEF ResultInv, HandleArrives, StringsAreCut, AddIsSum,
         OnlyGrowingResponsesFail, Returned
<1> QED BY <1>7, <1>8, <1>9, <1>10 DEF IInv
------------------------------------------------------------------------------
\* The server

\* A message whose parameters are not longer than those that came fits as well.
LEMMA ResponseFits ==
  ASSUME NEW ps, IsMessage(ps), Len(GetWireFormat(ps)) < PIPE_BUFFER_SIZE,
         NEW m, IsMessage(m), Len(m) = Len(ps), \A i \in 1 .. Len(ps) : Len(m[i]) <= Len(ps[i])
  PROVE  PipeAccepts(GetWireFormat(m))
<1>1. ps \in Seq(Strings) /\ m \in Seq(Strings) /\ m # <<>>
  BY MessageSplit DEF IsMessage
<1>2. PICK u : u = GetWireFormat(ps)
  OBVIOUS
<1>3. PICK v : v = GetWireFormat(m)
  OBVIOUS
<1>4. Len(v) <= Len(u)
  BY <1>1, <1>2, <1>3, WireFormatLength
<1>5. u \in Strings /\ v \in Strings /\ Before(v, NUL) = v
  BY <1>2, <1>3, MessageSplit
<1>6. Len(v) \in Nat /\ PIPE_BUFFER_SIZE \in Nat /\ Len(v) < PIPE_BUFFER_SIZE
  BY <1>2, <1>4, <1>5, CodecAssumption DEF Strings
<1> QED BY <1>3, <1>5, <1>6 DEF PipeAccepts

LEMMA RespondPreserves ==
  ASSUME IInv, at = "process", NEW m, IsMessage(m), NEW code \in ServerErrorCode,
         Respond(m, code), UNCHANGED <<call, handle, got, sent>>, stored' \in Strings,
         NEW r, r = SetErrorCode(m, Numeral(code)), IsMessage(r), Answer(r)',
         handle # None \/ call.function \in Sends =>
           stored' = Arrives(sent) /\ Plain(stored') /\ HeaderLength + Len(stored') < PIPE_BUFFER_SIZE,
         \/ call.function \in Sends \/ PipeAccepts(GetWireFormat(r))
         \/ call.function \in Longs /\ Outgrows(call.arguments[2])
  PROVE  IInv'
<1>0. TypeOK /\ CallInv
  BY DEF IInv
<1>1. r \in Seq(Strings) /\ r # <<>> /\ Before(GetWireFormat(r), NUL) = GetWireFormat(r)
  BY MessageSplit DEF IsMessage
<1>2. \/ Send(r, "client")
      \/ /\ ~PipeAccepts(GetWireFormat(r))
         /\ error' = ERROR_RECEIVE_FAILED
         /\ at' = "returned"
         /\ UNCHANGED <<side, src, start, params>>
  BY DEF Respond
<1>3. StoredInv'
  BY DEF StoredInv
<1>4. CASE Send(r, "client")
  <2>1. /\ src' = GetWireFormat(r) /\ src' \in Strings
        /\ at' = "parse" /\ side' = "client" /\ error' = error
        /\ start' \in {npos} \cup 1 .. Len(src') + 1 /\ params' \in Seq(Strings)
        /\ ParseInv'
    BY <1>1, <1>4, SendFacts
  <2>2. TypeOK'
    BY <1>0, <2>1 DEF TypeOK, Strings
  <2>3. CallInv'
    BY <1>0, <2>1 DEF CallInv
  <2>4. RequestInv'
    BY <2>1 DEF RequestInv
  <2>5. AnswerInv'
    BY <2>1 DEF AnswerInv
  <2>6. ResultInv'
    BY <2>1 DEF ResultInv, HandleArrives, StringsAreCut, AddIsSum,
                OnlyGrowingResponsesFail, Returned
  <2> QED BY <1>3, <2>1, <2>2, <2>3, <2>4, <2>5, <2>6 DEF IInv
<1>5. CASE /\ ~PipeAccepts(GetWireFormat(r))
           /\ error' = ERROR_RECEIVE_FAILED
           /\ at' = "returned"
           /\ UNCHANGED <<side, src, start, params>>
  <2>1. TypeOK'
    BY <1>0, <1>5 DEF TypeOK, Strings
  <2>2. CallInv'
    BY <1>0, <1>5 DEF CallInv
  <2>3. ParseInv' /\ RequestInv' /\ AnswerInv'
    BY <1>5 DEF ParseInv, RequestInv, AnswerInv
  <2>4. ResultInv'
    BY <1>5 DEF ResultInv, HandleArrives, StringsAreCut, AddIsSum, Sends, Longs,
                OnlyGrowingResponsesFail, Returned, ERROR_SUCCESS, ERROR_RECEIVE_FAILED
  <2> QED BY <1>3, <2>1, <2>2, <2>3, <2>4 DEF IInv
<1> QED BY <1>2, <1>4, <1>5

\* What the server finds in the parameters.
LEMMA ProcessFacts ==
  ASSUME IInv, at = "process"
  PROVE  /\ side = "server" /\ IsSplit(src, params) /\ IsMessage(params)
         /\ src = GetWireFormat(params) /\ Len(src) < PIPE_BUFFER_SIZE
         /\ Len(params) \in Nat /\ Len(params) >= 3
         /\ GetObjectId(params) = params[2] /\ GetDispId(params) = params[3]
         /\ \A i \in Nat : i >= 1 /\ i + 3 <= Len(params) => Parameter(i) = params[i + 3]
<1>1. side = "server" /\ src = GetWireFormat(params) /\ params # <<>> /\ Len(src) < PIPE_BUFFER_SIZE
  BY DEF IInv, AnswerInv, ParseInv
<1>2. IsSplit(src, params)
  BY <1>1 DEF IInv, ParseInv, TypeOK, IsSplit, Tokens, Strings
<1>3. IsMessage(params)
  BY <1>1, <1>2, RequestTokens
<1>4. Len(params) \in Nat /\ Len(params) >= 3
  BY <1>3 DEF IsMessage, eDispIdPosition
<1>5. GetObjectId(params) = params[2] /\ GetDispId(params) = params[3]
  BY <1>4 DEF GetObjectId, GetDispId, GetParameter, eObjectIdPosition, eDispIdPosition
<1>6. ASSUME NEW i \in Nat, i >= 1, i + 3 <= Len(params) PROVE Parameter(i) = params[i + 3]
  <2>1. i # 0 /\ ~(3 + i > Len(params)) /\ 3 + i = i + 3
    BY <1>4, <1>6
  <2> QED BY <2>1 DEF Parameter, GetFunctionParameter, GetParameter, eDispIdPosition
<1> QED BY <1>1, <1>2, <1>3, <1>4, <1>5, <1>6

\* A parameter of the function set in a message, and the error code.
LEMMA SetFunctionParameterFacts ==
  ASSUME NEW m, IsMessage(m), NEW index \in Nat, index >= 1, NEW v, Plain(v),
         NEW s, s = SetFunctionParameter(m, index, v)
  PROVE  IsMessage(s) /\ IsSet(s, m, 3 + index, v)
<1>1. 3 + index \in Nat /\ 3 + index >= 1 /\ s = SetParameter(m, 3 + index, v)
  BY DEF SetFunctionParameter, eDispIdPosition
<1> QED BY <1>1, SetParameterFacts

LEMMA SetErrorCodeFacts ==
  ASSUME NEW m, IsMessage(m), NEW code \in ServerErrorCode,
         NEW r, r = SetErrorCode(m, Numeral(code))
  PROVE  IsMessage(r) /\ IsSet(r, m, 1, Numeral(code))
<1>1. r = SetParameter(m, 1, Numeral(code)) /\ 1 \in Nat /\ 1 >= 1
  BY DEF SetErrorCode, eResultPosition
<1>2. Plain(Numeral(code))
  BY NumeralTexts, NumbersOfMessages
<1> QED BY <1>1, <1>2, SetParameterFacts

LEMMA MessageLength ==
  ASSUME NEW m, IsMessage(m)
  PROVE  Len(m) \in Nat /\ Len(m) >= 3 /\ \A i \in 1 .. Len(m) : Plain(m[i])
BY DEF IsMessage, eDispIdPosition

LEMMA CreationProcessed ==
  ASSUME IInv, at = "process", call.function \in Sends, ProcessRequest
  PROVE  IInv'
<1>1. /\ side = "server" /\ IsSplit(src, params) /\ IsMessage(params)
      /\ GetObjectId(params) = params[2]
      /\ \A i \in Nat : i >= 1 /\ i + 3 <= Len(params) => Parameter(i) = params[i + 3]
  BY ProcessFacts
<1>2. /\ Len(params) >= 4 /\ params[2] = Null /\ params[4] = Arrives(sent)
      /\ Delimiters(Before(call.arguments[1], NUL)) <= 1 <=> Len(params) <= 5
      /\ HeaderLength + Len(params[4]) < PIPE_BUFFER_SIZE
  BY <1>1, RequestTokens
<1>3. Len(params) \in Nat /\ Plain(params[4])
  <2>1. Len(params) \in Nat /\ \A i \in 1 .. Len(params) : Plain(params[i])
    BY <1>1, MessageLength
  <2> QED BY <1>2, <2>1
<1>4. GetObjectId(params) = Null
  BY <1>1, <1>2
<1>5. /\ stored' = Parameter(1) /\ UNCHANGED <<call, handle, got, sent>>
      /\ Respond(SetFunctionParameter(params, 2, Primitive), ERROR_SUCCESS)
  BY <1>4, CharFacts DEF ProcessRequest
<1>6. stored' = params[4]
  <2>1. 1 \in Nat /\ 1 >= 1 /\ 1 + 3 <= Len(params) /\ 1 + 3 = 4
    BY <1>2, <1>3
  <2> QED BY <1>1, <1>5, <2>1
<1>7. PICK m : m = SetFunctionParameter(params, 2, Primitive)
  OBVIOUS
<1>8. IsMessage(m) /\ IsSet(m, params, 5, Primitive)
  <2>1. 2 \in Nat /\ 2 >= 1 /\ 3 + 2 = 5
    OBVIOUS
  <2>2. IsMessage(m) /\ IsSet(m, params, 3 + 2, Primitive)
    BY <1>1, <1>7, <2>1, SetFunctionParameterFacts, CharFacts
  <2> QED BY <2>1, <2>2
<1>9. PICK r : r = SetErrorCode(m, Numeral(ERROR_SUCCESS))
  OBVIOUS
<1>10. ERROR_SUCCESS \in ServerErrorCode
  BY DEF ServerErrorCode
<1>11. IsMessage(r) /\ IsSet(r, m, 1, Numeral(ERROR_SUCCESS))
  BY <1>8, <1>9, <1>10, SetErrorCodeFacts
<1>12. /\ Len(m) = (IF Len(params) < 5 THEN 5 ELSE Len(params)) /\ Len(m) \in Nat /\ Len(m) >= 5
       /\ m[5] = Primitive
       /\ \A i \in 1 .. Len(params) : i # 5 => m[i] = params[i]
  BY <1>3, <1>8 DEF IsSet
<1>13. /\ Len(r) = Len(m) /\ r[1] = Numeral(ERROR_SUCCESS)
       /\ \A i \in 1 .. Len(m) : i # 1 => r[i] = m[i]
  BY <1>11, <1>12 DEF IsSet
<1>14. r[5] = Primitive
  BY <1>12, <1>13
<1>15. Delimiters(Before(call.arguments[1], NUL)) <= 1 => Len(r) = 5
  <2>1. \A k, l \in Nat : l <= 5 /\ k = (IF l < 5 THEN 5 ELSE l) => k = 5
    OBVIOUS
  <2> QED BY <1>2, <1>3, <1>12, <1>13, <2>1, Zenon
<1>16. Answer(r)'
  <2>1. call'.function \in Sends /\ call' = call
    BY <1>5
  <2>2. /\ r \in Seq(Strings) /\ Len(r) >= eDispIdPosition
        /\ \A i \in 1 .. Len(r) : Plain(r[i])
    BY <1>11 DEF IsMessage
  <2> QED BY <2>1, <2>2, <1>12, <1>13, <1>14, <1>15 DEF Answer, Sends, Longs
<1>17. /\ stored' = Arrives(sent) /\ Plain(stored') /\ HeaderLength + Len(stored') < PIPE_BUFFER_SIZE
       /\ stored' \in Strings
  BY <1>2, <1>3, <1>6, PlainIsString
<1> QED BY <1>5, <1>7, <1>8, <1>9, <1>10, <1>11, <1>16, <1>17, RespondPreserves

LEMMA RequestProcessed ==
  ASSUME IInv, at = "process", call.function = "get", ProcessRequest
  PROVE  IInv'
<1>1. /\ side = "server" /\ IsSplit(src, params) /\ IsMessage(params)
      /\ src = GetWireFormat(params) /\ Len(src) < PIPE_BUFFER_SIZE
      /\ GetObjectId(params) = params[2]
  BY ProcessFacts
<1>2. /\ Len(params) = 3 /\ params[2] = handle /\ params[1] = Numeral(ERROR_SUCCESS)
      /\ params[3] = Numeral(eCreateStringDispId)
      /\ Len(src) = HeaderLength - 1 /\ HeaderLength \in Nat
  BY <1>1, RequestTokens
<1>3. /\ handle # None /\ handle # Null /\ handle \in Objects
      /\ StoredInv /\ stored = Arrives(sent) /\ Plain(stored)
      /\ HeaderLength + Len(stored) < PIPE_BUFFER_SIZE
  BY DEF IInv, CallInv, StoredInv
<1>4. UNCHANGED <<call, handle, got, sent>>
  BY DEF ProcessRequest
<1>5. /\ ERROR_SUCCESS \in ServerErrorCode /\ ERROR_NO_OBJECT_FOUND \in ServerErrorCode
      /\ stored \in Strings
  BY <1>3, PlainIsString DEF ServerErrorCode
<1>6. CASE handle = Primitive
  <2>1. /\ Respond(SetFunctionParameter(params, 1, stored), ERROR_SUCCESS)
        /\ UNCHANGED stored
    BY <1>1, <1>2, <1>6, CharFacts DEF ProcessRequest
  <2>2. PICK m : m = SetFunctionParameter(params, 1, stored)
    OBVIOUS
  <2>3. IsMessage(m) /\ IsSet(m, params, 4, stored)
    <3>1. 1 \in Nat /\ 1 >= 1 /\ 3 + 1 = 4
      OBVIOUS
    <3>2. IsMessage(m) /\ IsSet(m, params, 3 + 1, stored)
      BY <1>1, <1>3, <2>2, <3>1, SetFunctionParameterFacts
    <3> QED BY <3>1, <3>2
  <2>4. PICK r : r = SetErrorCode(m, Numeral(ERROR_SUCCESS))
    OBVIOUS
  <2>5. IsMessage(r) /\ IsSet(r, m, 1, Numeral(ERROR_SUCCESS))
    BY <1>5, <2>3, <2>4, SetErrorCodeFacts
  <2>6. Len(m) = 4 /\ m[4] = stored /\ m[1] = params[1] /\ m[2] = params[2] /\ m[3] = params[3]
    BY <1>2, <2>3 DEF IsSet
  <2>7. /\ Len(r) = 4 /\ r[4] = stored /\ r[1] = Numeral(ERROR_SUCCESS)
        /\ r[2] = params[2] /\ r[3] = params[3]
    BY <2>5, <2>6 DEF IsSet
  <2>8. Answer(r)'
    <3>1. call'.function = "get" /\ handle' = Primitive /\ stored' = stored
      BY <1>4, <1>6, <2>1
    <3>2. /\ r \in Seq(Strings) /\ Len(r) >= eDispIdPosition
          /\ \A i \in 1 .. Len(r) : Plain(r[i])
      BY <2>5 DEF IsMessage
    <3> QED BY <3>1, <3>2, <2>7 DEF Answer, Sends, Longs
  <2>9. PipeAccepts(GetWireFormat(r))
    <3>0. PICK p : p = stored
      OBVIOUS
    <3>1. PICK ps : ps = params
      OBVIOUS
    <3>2. ps \in Seq(Strings) /\ ps # <<>>
      BY <1>1, <1>2, <3>1 DEF IsMessage
    <3>3. PICK a : a = Append(ps, p)
      OBVIOUS
    <3>4. /\ a \in Seq(Strings) /\ Len(a) = 4
          /\ \A i \in 1 .. 3 : a[i] = ps[i]
          /\ a[4] = p
      <4>1. p \in Strings
        BY <1>5, <3>0
      <4>2. /\ a \in Seq(Strings) /\ Len(a) = Len(ps) + 1
            /\ \A i \in 1 .. Len(ps) : a[i] = ps[i]
            /\ a[Len(ps) + 1] = p
        BY <3>2, <3>3, <4>1, AppendProperties
      <4>3. Len(ps) = 3
        BY <1>2, <3>1
      <4> QED BY <4>2, <4>3
    <3>5. r = a
      <4>1. \A i \in 1 .. 4 : r[i] = a[i]
        <5>1. r[1] = a[1] /\ r[2] = a[2] /\ r[3] = a[3] /\ r[4] = a[4]
          BY <1>2, <2>7, <3>0, <3>1, <3>4
        <5> QED BY <5>1
      <4>2. r \in Seq(Strings)
        BY <2>5 DEF IsMessage
      <4> QED BY <2>7, <3>4, <4>1, <4>2, SeqEqual
    <3>6. GetWireFormat(r) = Join(GetWireFormat(ps), p) /\ p \in Strings
      BY <1>5, <3>0, <3>2, <3>3, <3>5, WireFormatAppend
    <3>7. PICK u : u = GetWireFormat(ps)
      OBVIOUS
    <3>8. PICK v : v = GetWireFormat(r)
      OBVIOUS
    <3>9. u \in Strings /\ Len(u) = HeaderLength - 1 /\ HeaderLength \in Nat
      BY <1>1, <1>2, <3>1, <3>2, <3>7, WireFormatType
    <3>10. v \in Strings /\ Before(v, NUL) = v
      BY <2>5, <3>8, MessageSplit
    <3>11. Len(v) = HeaderLength + Len(stored) /\ Len(stored) \in Nat
      <4>1. u \in Strings /\ p \in Strings /\ v = Join(u, p)
        BY <3>6, <3>7, <3>8, <3>9
      <4>2. Len(v) = Len(u) + 1 + Len(p) /\ Len(p) \in Nat
        BY <4>1, JoinLength
      <4> QED BY <3>0, <3>9, <4>2
    <3>12. Len(v) < PIPE_BUFFER_SIZE /\ Len(v) <= PIPE_BUFFER_SIZE
      BY <1>3, <3>11, CodecAssumption
    <3> QED BY <3>8, <3>10, <3>12 DEF PipeAccepts
  <2> QED BY <1>3, <1>4, <1>5, <2>1, <2>2, <2>3, <2>4, <2>5, <2>8, <2>9, RespondPreserves
<1>7. CASE handle # Primitive
  <2>1. Respond(params, ERROR_NO_OBJECT_FOUND) /\ UNCHANGED stored
    BY <1>1, <1>2, <1>3, <1>7, CharFacts DEF ProcessRequest
  <2>2. PICK m : m = params
    OBVIOUS
  <2>3. /\ IsMessage(m) /\ Len(m) = 3 /\ m[2] = handle
        /\ m[3] = Numeral(eCreateStringDispId)
    BY <1>1, <1>2, <2>2
  <2>4. PICK r : r = SetErrorCode(m, Numeral(ERROR_NO_OBJECT_FOUND))
    OBVIOUS
  <2>5. IsMessage(r) /\ IsSet(r, m, 1, Numeral(ERROR_NO_OBJECT_FOUND))
    BY <1>5, <2>3, <2>4, SetErrorCodeFacts
  <2>6. Len(r) = 3 /\ r[1] = Numeral(ERROR_NO_OBJECT_FOUND) /\ \A i \in 2 .. 3 : r[i] = m[i]
    BY <2>3, <2>5 DEF IsSet
  <2>7. Answer(r)'
    <3>1. call'.function = "get" /\ handle' # Primitive
      BY <1>4, <1>7
    <3>2. /\ r \in Seq(Strings) /\ Len(r) >= eDispIdPosition
          /\ \A i \in 1 .. Len(r) : Plain(r[i])
      BY <2>5 DEF IsMessage
    <3> QED BY <3>1, <3>2, <2>6 DEF Answer, Sends, Longs
  <2>8. PipeAccepts(GetWireFormat(r))
    <3>1. handle = Other
      BY <1>3, <1>7 DEF Objects
    <3>2. PICK q : q = Message(ERROR_NO_OBJECT_FOUND, Other, eCreateStringDispId, <<>>)
      OBVIOUS
    <3>3. /\ q = <<Numeral(ERROR_NO_OBJECT_FOUND), Other, Numeral(eCreateStringDispId)>>
          /\ q \in Seq(Strings)
      <4>1. /\ Numeral(ERROR_NO_OBJECT_FOUND) \in Strings /\ Other \in Strings
            /\ Numeral(eCreateStringDispId) \in Strings
        BY NumeralTexts, NumbersOfMessages, CharFacts, PlainIsString
      <4> QED BY <3>2, <4>1 DEF Message
    <3>4. r = q
      <4>1. r \in Seq(Strings)
        BY <2>5 DEF IsMessage
      <4>2. /\ Len(q) = 3 /\ q[1] = Numeral(ERROR_NO_OBJECT_FOUND) /\ q[2] = Other
            /\ q[3] = Numeral(eCreateStringDispId)
        BY <3>3
      <4>3. r[2] = Other /\ r[3] = Numeral(eCreateStringDispId)
        BY <2>3, <2>6, <3>1
      <4>4. \A i \in 1 .. 3 : r[i] = q[i]
        <5>1. \A i \in 1 .. 3 : i = 1 \/ i = 2 \/ i = 3
          OBVIOUS
        <5> QED BY <2>6, <4>2, <4>3, <5>1, Zenon
      <4> QED BY <2>6, <3>3, <4>1, <4>2, <4>4, SeqEqual
    <3> QED BY <1>5, <3>2, <3>4, RoomAssumption
  <2> QED BY <1>3, <1>4, <1>5, <2>1, <2>2, <2>3, <2>4, <2>5, <2>7, <2>8, RespondPreserves
<1> QED BY <1>6, <1>7

LEMMA DispIdsDiffer ==
  /\ Numeral(AddDispID) # Numeral(ReverseNameDispID)
  /\ Numeral(AddDispID) # Numeral(LongOperationDispID)
  /\ Numeral(ReverseNameDispID) # Numeral(LongOperationDispID)
<1>1. AddDispID # ReverseNameDispID /\ AddDispID # LongOperationDispID
      /\ ReverseNameDispID # LongOperationDispID
  BY DEF AddDispID, ReverseNameDispID, LongOperationDispID
<1> QED BY <1>1, NumeralFacts, NumbersOfMessages

LEMMA AddProcessed ==
  ASSUME IInv, at = "process", call.function = "add", ProcessRequest
  PROVE  IInv'
<1>1. /\ side = "server" /\ IsSplit(src, params) /\ IsMessage(params)
      /\ src = GetWireFormat(params) /\ Len(src) < PIPE_BUFFER_SIZE
      /\ GetObjectId(params) = params[2] /\ GetDispId(params) = params[3]
      /\ \A i \in Nat : i >= 1 /\ i + 3 <= Len(params) => Parameter(i) = params[i + 3]
  BY ProcessFacts
<1>2. PICK x \in Ints, y \in Ints, z \in Ints :
        /\ params[4] = Numeral(x) /\ params[5] = Numeral(y) /\ params[6] = Numeral(z)
        /\ call.arguments[1] = Numeral(x) /\ call.arguments[2] = Numeral(y)
  BY <1>1, RequestTokens
<1>3. /\ Len(params) = 6 /\ params[1] = Numeral(ERROR_SUCCESS)
      /\ params[2] = Calculator /\ params[3] = Numeral(AddDispID)
  BY <1>1, RequestTokens
<1>4. Parameter(1) = Numeral(x) /\ Parameter(2) = Numeral(y)
  <2>1. /\ 1 \in Nat /\ 1 >= 1 /\ 1 + 3 <= 6 /\ 1 + 3 = 4
        /\ 2 \in Nat /\ 2 >= 1 /\ 2 + 3 <= 6 /\ 2 + 3 = 5
    OBVIOUS
  <2> QED BY <1>1, <1>2, <1>3, <2>1
<1>5. UNCHANGED <<call, handle, got, sent, stored>> /\ Respond(InvokeAdd, ERROR_SUCCESS)
  <2>1. /\ Numeral(AddDispID) # Numeral(ReverseNameDispID)
        /\ Numeral(AddDispID) # Numeral(LongOperationDispID)
        /\ Numeral(ReverseNameDispID) # Numeral(LongOperationDispID)
    BY DispIdsDiffer
  <2>2. Calculator # Null /\ Calculator # Primitive
    BY CharFacts
  <2> QED BY <1>1, <1>3, <2>1, <2>2 DEF ProcessRequest
<1>6. PICK w : w = Numeral(Wrap(x + y))
  OBVIOUS
<1>7. Plain(w) /\ Wrap(x + y) \in Ints
  BY <1>6, WrapFacts, NumeralTexts, NumbersOfMessages
<1>8. Numeral(Wrap(Number(Parameter(1)) + Number(Parameter(2)))) = w
  BY <1>4, <1>6, NumberFacts
<1>9. Numeral(Wrap(Number(call.arguments[1]) + Number(call.arguments[2]))) = w
  BY <1>2, <1>6, NumberFacts
<1>10. Plain(Numeral(x)) /\ Plain(Numeral(y))
  BY NumeralTexts, NumbersOfMessages
<1>11. PICK m1 : m1 = SetFunctionParameter(params, 3, w)
  OBVIOUS
<1>12. PICK m2 : m2 = SetFunctionParameter(m1, 2, Numeral(y))
  OBVIOUS
<1>13. PICK m : m = SetFunctionParameter(m2, 1, Numeral(x))
  OBVIOUS
<1>14. InvokeAdd = m
  BY <1>4, <1>8, <1>11, <1>12, <1>13 DEF InvokeAdd
<1>15. IsMessage(m1) /\ IsSet(m1, params, 6, w)
  <2>1. 3 \in Nat /\ 3 >= 1 /\ 3 + 3 = 6
    OBVIOUS
  <2>2. IsMessage(m1) /\ IsSet(m1, params, 3 + 3, w)
    BY <1>1, <1>7, <1>11, <2>1, SetFunctionParameterFacts
  <2> QED BY <2>1, <2>2
<1>16. IsMessage(m2) /\ IsSet(m2, m1, 5, Numeral(y))
  <2>1. 2 \in Nat /\ 2 >= 1 /\ 3 + 2 = 5
    OBVIOUS
  <2>2. IsMessage(m2) /\ IsSet(m2, m1, 3 + 2, Numeral(y))
    BY <1>10, <1>12, <1>15, <2>1, SetFunctionParameterFacts
  <2> QED BY <2>1, <2>2
<1>17. IsMessage(m) /\ IsSet(m, m2, 4, Numeral(x))
  <2>1. 1 \in Nat /\ 1 >= 1 /\ 3 + 1 = 4
    OBVIOUS
  <2>2. IsMessage(m) /\ IsSet(m, m2, 3 + 1, Numeral(x))
    BY <1>10, <1>13, <1>16, <2>1, SetFunctionParameterFacts
  <2> QED BY <2>1, <2>2
<1>18. PICK r : r = SetErrorCode(m, Numeral(ERROR_SUCCESS))
  OBVIOUS
<1>19. ERROR_SUCCESS \in ServerErrorCode
  BY DEF ServerErrorCode
<1>20. IsMessage(r) /\ IsSet(r, m, 1, Numeral(ERROR_SUCCESS))
  BY <1>17, <1>18, <1>19, SetErrorCodeFacts
<1>21. Len(m1) = 6 /\ m1[6] = w /\ \A i \in 1 .. 6 : i # 6 => m1[i] = params[i]
  BY <1>3, <1>15 DEF IsSet
<1>22. Len(m2) = 6 /\ m2[5] = Numeral(y) /\ \A i \in 1 .. 6 : i # 5 => m2[i] = m1[i]
  BY <1>16, <1>21 DEF IsSet
<1>23. Len(m) = 6 /\ m[4] = Numeral(x) /\ \A i \in 1 .. 6 : i # 4 => m[i] = m2[i]
  BY <1>17, <1>22 DEF IsSet
<1>24. Len(r) = 6 /\ r[1] = Numeral(ERROR_SUCCESS) /\ \A i \in 1 .. 6 : i # 1 => r[i] = m[i]
  BY <1>20, <1>23 DEF IsSet
<1>25. /\ r[2] = params[2] /\ r[3] = params[3]
       /\ r[4] = Numeral(x) /\ r[5] = Numeral(y) /\ r[6] = w
  BY <1>21, <1>22, <1>23, <1>24
<1>26. Answer(r)'
  <2>1. call'.function = "add" /\ call' = call
    BY <1>5
  <2>2. /\ r \in Seq(Strings) /\ Len(r) >= eDispIdPosition
        /\ \A i \in 1 .. Len(r) : Plain(r[i])
    BY <1>20 DEF IsMessage
  <2> QED BY <1>9, <1>24, <1>25, <2>1, <2>2 DEF Answer, Sends, Longs
<1>27. PipeAccepts(GetWireFormat(r))
  <2>1. PICK a \in Strings : a = Numeral(ERROR_SUCCESS)
    BY NumeralTexts, NumbersOfMessages
  <2>2. PICK b \in Strings : b = Calculator
    BY CharFacts, PlainIsString
  <2>3. PICK c \in Strings : c = Numeral(AddDispID)
    BY NumeralTexts, NumbersOfMessages
  <2>4. PICK d \in Strings : d = Numeral(x)
    BY <1>10, PlainIsString
  <2>5. PICK e \in Strings : e = Numeral(y)
    BY <1>10, PlainIsString
  <2>6. w \in Strings
    BY <1>7, PlainIsString
  <2>7. PICK q : q = Message(ERROR_SUCCESS, Calculator, AddDispID, <<d, e, w>>)
    OBVIOUS
  <2>8. q = <<a, b, c>> \o <<d, e, w>>
    BY <2>1, <2>2, <2>3, <2>7 DEF Message
  <2>9. /\ Len(q) = 6 /\ q \in Seq(Strings)
        /\ q[1] = a /\ q[2] = b /\ q[3] = c /\ q[4] = d /\ q[5] = e /\ q[6] = w
    BY <2>6, <2>8
  <2>10. /\ r[1] = a /\ r[2] = b /\ r[3] = c /\ r[4] = d /\ r[5] = e /\ r[6] = w
    BY <1>3, <1>24, <1>25, <2>1, <2>2, <2>3, <2>4, <2>5
  <2>11. \A i \in 1 .. 6 : r[i] = q[i]
    <3>1. \A i \in 1 .. 6 : i = 1 \/ i = 2 \/ i = 3 \/ i = 4 \/ i = 5 \/ i = 6
      OBVIOUS
    <3> QED BY <2>9, <2>10, <3>1, Zenon
  <2>12. r = q
    <3>1. r \in Seq(Strings)
      BY <1>20 DEF IsMessage
    <3> QED BY <1>24, <2>9, <2>11, <3>1, SeqEqual
  <2> QED BY <1>6, <1>7, <2>4, <2>5, <2>7, <2>12, RoomAssumption
<1>28. /\ stored' = stored /\ stored' \in Strings
       /\ handle # None => /\ stored = Arrives(sent) /\ Plain(stored)
                           /\ HeaderLength + Len(stored) < PIPE_BUFFER_SIZE
  BY <1>5 DEF IInv, StoredInv, TypeOK, Strings
<1>29. call.function \notin Sends
  BY DEF Sends
<1> QED BY <1>5, <1>14, <1>17, <1>18, <1>19, <1>20, <1>26, <1>27, <1>28, <1>29, RespondPreserves

LEMMA ReverseProcessed ==
  ASSUME IInv, at = "process", call.function = "reverse", ProcessRequest
  PROVE  IInv'
<1>1. /\ side = "server" /\ IsSplit(src, params) /\ IsMessage(params)
      /\ src = GetWireFormat(params) /\ Len(src) < PIPE_BUFFER_SIZE
      /\ GetObjectId(params) = params[2] /\ GetDispId(params) = params[3]
      /\ \A i \in Nat : i >= 1 /\ i + 3 <= Len(params) => Parameter(i) = params[i + 3]
  BY ProcessFacts
<1>2. /\ Len(params) >= 4 /\ params[1] = Numeral(ERROR_SUCCESS)
      /\ params[2] = Calculator /\ params[3] = Numeral(ReverseNameDispID)
      /\ params[4] = Arrives(call.arguments[1])
  BY <1>1, RequestTokens
<1>3. Len(params) \in Nat /\ Plain(params[4])
  <2>1. Len(params) \in Nat /\ \A i \in 1 .. Len(params) : Plain(params[i])
    BY <1>1, MessageLength
  <2> QED BY <1>2, <2>1
<1>4. Parameter(1) = params[4]
  <2>1. 1 \in Nat /\ 1 >= 1 /\ 1 + 3 <= Len(params) /\ 1 + 3 = 4
    BY <1>2, <1>3
  <2> QED BY <1>1, <2>1
<1>5. UNCHANGED <<call, handle, got, sent, stored>> /\ Respond(InvokeReverseName, ERROR_SUCCESS)
  <2>1. /\ Numeral(AddDispID) # Numeral(ReverseNameDispID)
        /\ Numeral(AddDispID) # Numeral(LongOperationDispID)
        /\ Numeral(ReverseNameDispID) # Numeral(LongOperationDispID)
    BY DispIdsDiffer
  <2>2. Calculator # Null /\ Calculator # Primitive
    BY CharFacts
  <2> QED BY <1>1, <1>2, <2>1, <2>2 DEF ProcessRequest
<1>6. PICK w : w = Reverse(params[4])
  OBVIOUS
<1>7. Plain(w) /\ Len(w) = Len(params[4])
  BY <1>3, <1>6, ReverseFacts
<1>8. PICK m : m = SetFunctionParameter(params, 1, w)
  OBVIOUS
<1>9. InvokeReverseName = m
  BY <1>4, <1>6, <1>8 DEF InvokeReverseName
<1>10. IsMessage(m) /\ IsSet(m, params, 4, w)
  <2>1. 1 \in Nat /\ 1 >= 1 /\ 3 + 1 = 4
    OBVIOUS
  <2>2. IsMessage(m) /\ IsSet(m, params, 3 + 1, w)
    BY <1>1, <1>7, <1>8, <2>1, SetFunctionParameterFacts
  <2> QED BY <2>1, <2>2
<1>11. PICK r : r = SetErrorCode(m, Numeral(ERROR_SUCCESS))
  OBVIOUS
<1>12. ERROR_SUCCESS \in ServerErrorCode
  BY DEF ServerErrorCode
<1>13. IsMessage(r) /\ IsSet(r, m, 1, Numeral(ERROR_SUCCESS))
  BY <1>10, <1>11, <1>12, SetErrorCodeFacts
<1>14. Len(m) = Len(params) /\ m[4] = w /\ \A i \in 1 .. Len(params) : i # 4 => m[i] = params[i]
  BY <1>2, <1>3, <1>10 DEF IsSet
<1>15. /\ Len(r) = Len(params) /\ r[1] = Numeral(ERROR_SUCCESS)
       /\ \A i \in 1 .. Len(params) : i # 1 => r[i] = m[i]
  BY <1>2, <1>3, <1>13, <1>14 DEF IsSet
<1>16. r[4] = w
  BY <1>2, <1>3, <1>14, <1>15
<1>17. Answer(r)'
  <2>1. call'.function = "reverse" /\ call' = call
    BY <1>5
  <2>2. /\ r \in Seq(Strings) /\ Len(r) >= eDispIdPosition
        /\ \A i \in 1 .. Len(r) : Plain(r[i])
    BY <1>13 DEF IsMessage
  <2> QED BY <1>2, <1>6, <1>15, <1>16, <2>1, <2>2 DEF Answer, Sends, Longs
<1>18. PipeAccepts(GetWireFormat(r))
  <2>1. PICK ps : ps = params
    OBVIOUS
  <2>2. ASSUME NEW i \in 1 .. Len(ps) PROVE Len(r[i]) <= Len(ps[i])
    <3>0. Len(ps[i]) \in Nat
      <4>1. Plain(ps[i])
        BY <1>1, <2>1, MessageLength
      <4> QED BY <4>1, PlainIsString DEF Strings
    <3>1. CASE i = 1
      BY <1>2, <1>15, <2>1, <3>0, <3>1
    <3>2. CASE i = 4
      BY <1>7, <1>16, <2>1, <3>0, <3>2
    <3>3. CASE i # 1 /\ i # 4
      BY <1>14, <1>15, <2>1, <3>0, <3>3
    <3> QED BY <3>1, <3>2, <3>3
  <2>3. IsMessage(ps) /\ Len(r) = Len(ps) /\ Len(GetWireFormat(ps)) < PIPE_BUFFER_SIZE
    BY <1>1, <1>15, <2>1
  <2> QED BY <1>13, <2>2, <2>3, ResponseFits
<1>19. /\ stored' = stored /\ stored' \in Strings
       /\ handle # None => /\ stored = Arrives(sent) /\ Plain(stored)
                           /\ HeaderLength + Len(stored) < PIPE_BUFFER_SIZE
  BY <1>5 DEF IInv, StoredInv, TypeOK, Strings
<1>20. call.function \notin Sends
  BY DEF Sends
<1> QED BY <1>5, <1>9, <1>10, <1>11, <1>12, <1>13, <1>17, <1>18, <1>19, <1>20, RespondPreserves

LEMMA LongProcessed ==
  ASSUME IInv, at = "process", call.function \in Longs, ProcessRequest
  PROVE  IInv'
<1>1. /\ side = "server" /\ IsSplit(src, params) /\ IsMessage(params)
      /\ src = GetWireFormat(params) /\ Len(src) < PIPE_BUFFER_SIZE
      /\ GetObjectId(params) = params[2] /\ GetDispId(params) = params[3]
      /\ \A i \in Nat : i >= 1 /\ i + 3 <= Len(params) => Parameter(i) = params[i + 3]
  BY ProcessFacts
<1>2. /\ Len(params) >= 5 /\ params[1] = Numeral(ERROR_SUCCESS)
      /\ params[2] = Calculator /\ params[3] = Numeral(LongOperationDispID)
      /\ params[5] = Arrives(call.arguments[2])
      /\ Delimiters(Before(call.arguments[2], NUL)) = 0 <=> Len(params) = 5
      /\ Delimiters(Before(call.arguments[2], NUL)) \in Nat
  BY <1>1, RequestTokens
<1>3. PICK w \in WaitTime : params[4] = Numeral(w)
  BY <1>1, RequestTokens
<1>4. Len(params) \in Nat /\ Plain(params[4]) /\ Plain(params[5]) /\ Plain(Greeting)
  <2>1. Len(params) \in Nat /\ \A i \in 1 .. Len(params) : Plain(params[i])
    BY <1>1, MessageLength
  <2> QED BY <1>2, <2>1, GreetingFacts
<1>5. Parameter(1) = params[4]
  <2>1. 1 \in Nat /\ 1 >= 1 /\ 1 + 3 <= Len(params) /\ 1 + 3 = 4
    BY <1>2, <1>4
  <2> QED BY <1>1, <2>1
<1>6. UNCHANGED <<call, handle, got, sent, stored>> /\ Respond(InvokeLongOperation, ERROR_SUCCESS)
  <2>1. Calculator # Null /\ Calculator # Primitive
    BY CharFacts
  <2> QED BY <1>1, <1>2, <2>1, DispIdsDiffer DEF ProcessRequest
<1>7. PICK m1 : m1 = SetFunctionParameter(params, 2, Greeting)
  OBVIOUS
<1>8. PICK n : n = params[4]
  OBVIOUS
<1>9. PICK m : m = SetFunctionParameter(m1, 1, n)
  OBVIOUS
<1>10. InvokeLongOperation = m
  BY <1>5, <1>7, <1>8, <1>9 DEF InvokeLongOperation
<1>11. IsMessage(m1) /\ IsSet(m1, params, 5, Greeting)
  <2>1. 2 \in Nat /\ 2 >= 1 /\ 3 + 2 = 5
    OBVIOUS
  <2>2. IsMessage(m1) /\ IsSet(m1, params, 3 + 2, Greeting)
    BY <1>1, <1>4, <1>7, <2>1, SetFunctionParameterFacts
  <2> QED BY <2>1, <2>2
<1>12. IsMessage(m) /\ IsSet(m, m1, 4, n)
  <2>1. 1 \in Nat /\ 1 >= 1 /\ 3 + 1 = 4
    OBVIOUS
  <2>2. IsMessage(m) /\ IsSet(m, m1, 3 + 1, n)
    BY <1>4, <1>8, <1>9, <1>11, <2>1, SetFunctionParameterFacts
  <2> QED BY <2>1, <2>2
<1>13. PICK r : r = SetErrorCode(m, Numeral(ERROR_SUCCESS))
  OBVIOUS
<1>14. ERROR_SUCCESS \in ServerErrorCode
  BY DEF ServerErrorCode
<1>15. IsMessage(r) /\ IsSet(r, m, 1, Numeral(ERROR_SUCCESS))
  BY <1>12, <1>13, <1>14, SetErrorCodeFacts
<1>16. /\ Len(m1) = Len(params) /\ m1[5] = Greeting
       /\ \A i \in 1 .. Len(params) : i # 5 => m1[i] = params[i]
  BY <1>2, <1>4, <1>11 DEF IsSet
<1>17. Len(m) = Len(params) /\ m[4] = n /\ \A i \in 1 .. Len(params) : i # 4 => m[i] = m1[i]
  BY <1>2, <1>4, <1>12, <1>16 DEF IsSet
<1>18. /\ Len(r) = Len(params) /\ r[1] = Numeral(ERROR_SUCCESS)
       /\ \A i \in 1 .. Len(params) : i # 1 => r[i] = m[i]
  BY <1>2, <1>4, <1>15, <1>17 DEF IsSet
<1>19. /\ r[2] = params[2] /\ r[3] = params[3] /\ r[4] = n /\ r[5] = Greeting
       /\ \A i \in 1 .. Len(params) : i # 1 /\ i # 4 /\ i # 5 => r[i] = params[i]
  BY <1>2, <1>4, <1>16, <1>17, <1>18
<1>20. Answer(r)'
  <2>1. call'.function \in Longs /\ call' = call
    BY <1>6
  <2>2. /\ r \in Seq(Strings) /\ Len(r) >= eDispIdPosition
        /\ \A i \in 1 .. Len(r) : Plain(r[i])
    BY <1>15 DEF IsMessage
  <2> QED BY <1>2, <1>18, <1>19, <2>1, <2>2 DEF Answer, Sends, Longs
<1>21. PipeAccepts(GetWireFormat(r)) \/ Outgrows(call.arguments[2])
  <2>1. CASE Len(params) = 5
    <3>1. PICK a \in Strings : a = Numeral(ERROR_SUCCESS)
      BY NumeralTexts, NumbersOfMessages
    <3>2. PICK b \in Strings : b = Calculator
      BY CharFacts, PlainIsString
    <3>3. PICK c \in Strings : c = Numeral(LongOperationDispID)
      BY NumeralTexts, NumbersOfMessages
    <3>4. PICK e \in Strings : e = Greeting
      BY GreetingFacts
    <3>5. n \in Strings
      BY <1>4, <1>8, PlainIsString
    <3>6. PICK q : q = Message(ERROR_SUCCESS, Calculator, LongOperationDispID, <<n, e>>)
      OBVIOUS
    <3>7. q = <<a, b, c>> \o <<n, e>>
      BY <3>1, <3>2, <3>3, <3>6 DEF Message
    <3>8. /\ Len(q) = 5 /\ q \in Seq(Strings)
          /\ q[1] = a /\ q[2] = b /\ q[3] = c /\ q[4] = n /\ q[5] = e
      BY <3>5, <3>7
    <3>9. r[1] = a /\ r[2] = b /\ r[3] = c /\ r[4] = n /\ r[5] = e
      BY <1>2, <1>18, <1>19, <3>1, <3>2, <3>3, <3>4
    <3>10. \A i \in 1 .. 5 : r[i] = q[i]
      <4>1. \A i \in 1 .. 5 : i = 1 \/ i = 2 \/ i = 3 \/ i = 4 \/ i = 5
        OBVIOUS
      <4> QED BY <3>8, <3>9, <4>1, Zenon
    <3>11. r = q
      <4>1. r \in Seq(Strings)
        BY <1>15 DEF IsMessage
      <4> QED BY <1>18, <2>1, <3>8, <3>10, <4>1, SeqEqual
    <3> QED BY <1>3, <1>8, <3>4, <3>6, <3>11, RoomAssumption
  <2>2. CASE Len(params) # 5 /\ Len(params[5]) < Len(Greeting)
    <3>1. Delimiters(Before(call.arguments[2], NUL)) > 0
      BY <1>2, <2>2
    <3> QED BY <1>2, <2>2, <3>1 DEF Outgrows
  <2>3. CASE ~(Len(params[5]) < Len(Greeting))
    <3>1. PICK ps : ps = params
      OBVIOUS
    <3>2. ASSUME NEW i \in 1 .. Len(ps) PROVE Len(r[i]) <= Len(ps[i])
      <4>1. Len(ps[i]) \in Nat
        <5>1. Plain(ps[i])
          BY <1>1, <3>1, MessageLength
        <5> QED BY <5>1, PlainIsString DEF Strings
      <4>2. CASE i = 5
        BY <1>19, <2>3, <3>1, <4>1, <4>2, GreetingFacts
      <4>3. CASE i # 5
        <5>1. r[i] = ps[i]
          BY <1>2, <1>8, <1>18, <1>19, <3>1, <4>3
        <5> QED BY <4>1, <5>1
      <4> QED BY <4>2, <4>3
    <3>3. IsMessage(ps) /\ Len(r) = Len(ps) /\ Len(GetWireFormat(ps)) < PIPE_BUFFER_SIZE
      BY <1>1, <1>18, <3>1
    <3> QED BY <1>15, <3>2, <3>3, ResponseFits
  <2> QED BY <2>1, <2>2, <2>3
<1>22. /\ stored' = stored /\ stored' \in Strings
       /\ handle # None => /\ stored = Arrives(sent) /\ Plain(stored)
                           /\ HeaderLength + Len(stored) < PIPE_BUFFER_SIZE
  BY <1>6 DEF IInv, StoredInv, TypeOK, Strings
<1>23. call.function \notin Sends
  BY DEF Sends, Longs
<1> QED BY <1>6, <1>10, <1>12, <1>13, <1>14, <1>15, <1>20, <1>21, <1>22, <1>23, RespondPreserves

LEMMA ProcessRequestPreserves == IInv /\ ProcessRequest => IInv'
<1> SUFFICES ASSUME IInv, ProcessRequest PROVE IInv'
  OBVIOUS
<1>1. at = "process"
  BY DEF ProcessRequest
<1>2. call.function \in Sends \cup Longs \cup {"get", "add", "reverse"}
  BY <1>1 DEF IInv, TypeOK, CallInv, Sends, Longs
<1> QED BY <1>1, <1>2, CreationProcessed, RequestProcessed, AddProcessed, ReverseProcessed,
           LongProcessed
------------------------------------------------------------------------------
\* The result

\* What the client has taken apart is the response of the server.
LEMMA ReturnFacts ==
  ASSUME IInv, at = "return"
  PROVE  /\ side = "client" /\ Answer(params) /\ IsMessage(params)
         /\ Len(params) \in Nat /\ Len(params) >= 3
         /\ GetErrorCode(params) = params[1]
         /\ \A i \in Nat : i >= 1 /\ i + 3 <= Len(params) => Parameter(i) = params[i + 3]
<1>1. side = "client" /\ src = GetWireFormat(params) /\ params # <<>>
  BY DEF IInv, AnswerInv, ParseInv
<1>2. IsSplit(src, params)
  BY <1>1 DEF IInv, ParseInv, TypeOK, IsSplit, Tokens, Strings
<1>3. PICK m : Answer(m) /\ src = GetWireFormat(m)
  BY <1>1 DEF IInv, AnswerInv
<1>4. IsMessage(m)
  BY <1>3 DEF Answer, IsMessage
<1>5. m = params
  BY <1>2, <1>3, <1>4, MessageSplit, SplitUnique
<1>6. Len(params) \in Nat /\ Len(params) >= 3
  BY <1>4, <1>5, MessageLength
<1>7. GetErrorCode(params) = params[1]
  BY <1>6 DEF GetErrorCode, GetParameter, eResultPosition
<1>8. ASSUME NEW i \in Nat, i >= 1, i + 3 <= Len(params) PROVE Parameter(i) = params[i + 3]
  <2>1. i # 0 /\ ~(3 + i > Len(params)) /\ 3 + i = i + 3
    BY <1>6, <1>8
  <2> QED BY <2>1 DEF Parameter, GetFunctionParameter, GetParameter, eDispIdPosition
<1> QED BY <1>1, <1>3, <1>4, <1>5, <1>6, <1>7, <1>8

LEMMA HandleReturned ==
  ASSUME IInv, call.function \in Sends, ReturnResult
  PROVE  IInv'
<1>1. /\ at = "return" /\ at' = "returned"
      /\ error' \in ServerErrorCode /\ Numeral(error') = GetErrorCode(params)
      /\ got' = HandleOf(Parameter(ResultPosition)) /\ handle' = got'
      /\ UNCHANGED <<call, side, src, start, params, stored, sent>>
  BY DEF ReturnResult, Sends
<1>2. /\ side = "client" /\ Answer(params) /\ IsMessage(params)
      /\ Len(params) \in Nat /\ Len(params) >= 3
      /\ \A i \in Nat : i >= 1 /\ i + 3 <= Len(params) => Parameter(i) = params[i + 3]
  BY <1>1, ReturnFacts
<1>3. TypeOK /\ CallInv /\ StoredInv
  BY DEF IInv
<1>4. PICK h : h = HandleOf(Parameter(ResultPosition))
  OBVIOUS
<1>5. HandleOf(Primitive) = Primitive
  <2>1. Primitive[1] # "0" /\ 1 \in DOMAIN Primitive
    BY DEF Primitive
  <2> QED BY <2>1 DEF HandleOf
<1>6. call.function = "send" => h = Primitive
  <2> SUFFICES ASSUME call.function = "send" PROVE h = Primitive
    OBVIOUS
  <2>1. ResultPosition = 2 /\ Len(params) >= 5 /\ params[5] = Primitive
    BY <1>2 DEF ResultPosition, Answer
  <2>2. 2 \in Nat /\ 2 >= 1 /\ 2 + 3 <= Len(params) /\ 2 + 3 = 5
    BY <1>2, <2>1
  <2>3. Parameter(2) = Primitive
    BY <1>2, <2>1, <2>2
  <2> QED BY <1>4, <1>5, <2>1, <2>3
<1>7. call.function = "sendAsync" /\ Delimiters(Before(call.arguments[1], NUL)) <= 1 =>
        h = Primitive
  <2> SUFFICES ASSUME call.function = "sendAsync", Delimiters(Before(call.arguments[1], NUL)) <= 1
               PROVE  h = Primitive
    OBVIOUS
  <2>1. Len(params) = 5 /\ params[5] = Primitive
    BY <1>2 DEF Answer
  <2>2. ResultPosition = 2
    BY <2>1 DEF ResultPosition, GetLastFunctionParameterIndex, eDispIdPosition
  <2>3. 2 \in Nat /\ 2 >= 1 /\ 2 + 3 <= Len(params) /\ 2 + 3 = 5
    BY <2>1
  <2>4. Parameter(2) = Primitive
    BY <1>2, <2>1, <2>3
  <2> QED BY <1>4, <1>5, <2>2, <2>4
<1>8. h \in Objects /\ h \in Strings
  <2>1. h \in Objects
    BY <1>4 DEF HandleOf, Objects
  <2> QED BY <2>1, CharFacts, PlainIsString
<1>9. error' = ERROR_SUCCESS
  <2>1. Numeral(error') = Numeral(ERROR_SUCCESS)
    <3>1. GetErrorCode(params) = params[1]
      BY <1>1, ReturnFacts
    <3> QED BY <1>1, <1>2, <3>1 DEF Answer
  <2> QED BY <1>1, <2>1, NumeralFacts, NumbersOfMessages
<1>10. TypeOK'
  BY <1>1, <1>3, <1>4, <1>8 DEF TypeOK, Strings
<1>11. CallInv'
  BY <1>1, <1>3, <1>4, <1>8 DEF CallInv, Sends, Longs
<1>12. ParseInv' /\ RequestInv' /\ AnswerInv'
  BY <1>1 DEF ParseInv, RequestInv, AnswerInv
<1>13. StoredInv'
  BY <1>1, <1>2, <1>3 DEF StoredInv
<1>14. ResultInv'
  <2>1. HandleArrives'
    BY <1>1, <1>4, <1>6, <1>7 DEF HandleArrives, Returned
  <2>2. StringsAreCut' /\ AddIsSum'
    BY <1>1 DEF StringsAreCut, AddIsSum, Returned, Sends
  <2>3. OnlyGrowingResponsesFail'
    BY <1>1 DEF OnlyGrowingResponsesFail, Sends
  <2> QED BY <2>1, <2>2, <2>3 DEF ResultInv
<1> QED BY <1>10, <1>11, <1>12, <1>13, <1>14 DEF IInv

LEMMA ValueReturned ==
  ASSUME IInv, call.function \notin Sends, ReturnResult
  PROVE  IInv'
<1>1. /\ at = "return" /\ at' = "returned"
      /\ error' \in ServerErrorCode /\ Numeral(error') = GetErrorCode(params)
      /\ got' = IF error' = ERROR_SUCCESS THEN Parameter(ResultPosition) ELSE None
      /\ UNCHANGED <<call, side, src, start, params, stored, sent, handle>>
  BY DEF ReturnResult, Sends
<1>2. /\ side = "client" /\ Answer(params) /\ IsMessage(params)
      /\ Len(params) \in Nat /\ Len(params) >= 3 /\ GetErrorCode(params) = params[1]
      /\ \A i \in Nat : i >= 1 /\ i + 3 <= Len(params) => Parameter(i) = params[i + 3]
  BY <1>1, ReturnFacts
<1>3. TypeOK /\ CallInv /\ StoredInv
  BY DEF IInv
<1>4. call.function \in Longs \cup {"get", "add", "reverse"}
  BY <1>1, <1>3 DEF TypeOK, CallInv, Sends, Longs
<1>5. call.function = "get" /\ error' = ERROR_SUCCESS => got' = Arrives(sent) /\ got' \in Strings
  <2> SUFFICES ASSUME call.function = "get", error' = ERROR_SUCCESS
               PROVE  got' = Arrives(sent) /\ got' \in Strings
    OBVIOUS
  <2>1. handle = Primitive
    <3> SUFFICES ASSUME handle # Primitive PROVE FALSE
      OBVIOUS
    <3>1. Numeral(ERROR_SUCCESS) = Numeral(ERROR_NO_OBJECT_FOUND)
      BY <1>1, <1>2 DEF Answer
    <3> QED BY <3>1, NumeralFacts, NumbersOfMessages DEF ERROR_SUCCESS, ERROR_NO_OBJECT_FOUND
  <2>2. Len(params) = 4 /\ params[4] = stored
    BY <1>2, <2>1 DEF Answer
  <2>3. Parameter(1) = stored
    <3>1. 1 \in Nat /\ 1 >= 1 /\ 1 + 3 <= Len(params) /\ 1 + 3 = 4
      BY <2>2
    <3> QED BY <1>2, <2>2, <3>1
  <2>4. ResultPosition = 1
    BY DEF ResultPosition
  <2>5. stored = Arrives(sent) /\ Plain(stored)
    BY <1>3 DEF CallInv, StoredInv
  <2> QED BY <1>1, <2>3, <2>4, <2>5, PlainIsString
<1>6. call.function = "reverse" =>
        Parameter(ResultPosition) = Reverse(Arrives(call.arguments[1])) /\ Plain(Parameter(ResultPosition))
  <2> SUFFICES ASSUME call.function = "reverse"
               PROVE  /\ Parameter(ResultPosition) = Reverse(Arrives(call.arguments[1]))
                      /\ Plain(Parameter(ResultPosition))
    OBVIOUS
  <2>1. Len(params) >= 4 /\ params[4] = Reverse(Arrives(call.arguments[1]))
    BY <1>2 DEF Answer
  <2>2. Parameter(1) = params[4]
    <3>1. 1 \in Nat /\ 1 >= 1 /\ 1 + 3 <= Len(params) /\ 1 + 3 = 4
      BY <1>2, <2>1
    <3> QED BY <1>2, <3>1
  <2>3. ResultPosition = 1
    BY DEF ResultPosition
  <2>4. Plain(params[4])
    BY <1>2, <2>1, MessageLength
  <2> QED BY <2>1, <2>2, <2>3, <2>4
<1>7. call.function = "add" =>
        \E x, y \in Ints : /\ call.arguments[1] = Numeral(x) /\ call.arguments[2] = Numeral(y)
                           /\ Parameter(ResultPosition) = Numeral(Wrap(x + y))
  <2> SUFFICES ASSUME call.function = "add"
               PROVE  \E x, y \in Ints :
                        /\ call.arguments[1] = Numeral(x) /\ call.arguments[2] = Numeral(y)
                        /\ Parameter(ResultPosition) = Numeral(Wrap(x + y))
    OBVIOUS
  <2>1. PICK x \in Ints, y \in Ints, z \in Ints :
          call.arguments = <<Numeral(x), Numeral(y), Numeral(z)>>
    BY <1>3 DEF CallInv
  <2>2. call.arguments[1] = Numeral(x) /\ call.arguments[2] = Numeral(y)
    BY <2>1
  <2>3. /\ Len(params) = 6
        /\ params[6] = Numeral(Wrap(Number(call.arguments[1]) + Number(call.arguments[2])))
    BY <1>2 DEF Answer
  <2>4. params[6] = Numeral(Wrap(x + y))
    BY <2>2, <2>3, NumberFacts
  <2>5. Parameter(3) = params[6]
    <3>1. 3 \in Nat /\ 3 >= 1 /\ 3 + 3 <= Len(params) /\ 3 + 3 = 6
      BY <2>3
    <3> QED BY <1>2, <3>1
  <2>6. ResultPosition = 3
    BY DEF ResultPosition
  <2> QED BY <2>2, <2>4, <2>5, <2>6
<1>17. call.function \in Longs =>
         /\ Plain(Parameter(ResultPosition))
         /\ call.function = "long" \/ Delimiters(Before(call.arguments[2], NUL)) = 0 =>
              Parameter(ResultPosition) = Greeting
  <2> SUFFICES ASSUME call.function \in Longs
               PROVE  /\ Plain(Parameter(ResultPosition))
                      /\ call.function = "long" \/ Delimiters(Before(call.arguments[2], NUL)) = 0 =>
                           Parameter(ResultPosition) = Greeting
    OBVIOUS
  <2>1. /\ Len(params) >= 5 /\ params[5] = Greeting
        /\ Delimiters(Before(call.arguments[2], NUL)) = 0 => Len(params) = 5
    BY <1>2 DEF Answer
  <2>2. PICK k : k = ResultPosition
    OBVIOUS
  <2>3. call.function = "long" => k = 2
    BY <2>2 DEF ResultPosition
  <2>4. call.function = "longAsync" => k = Len(params) - 3
    BY <2>2 DEF ResultPosition, GetLastFunctionParameterIndex, eDispIdPosition
  <2>5. k = 2 \/ k = Len(params) - 3
    BY <2>3, <2>4 DEF Longs
  <2>6. k \in Nat /\ k >= 1 /\ k + 3 <= Len(params) /\ k + 3 \in 1 .. Len(params)
    BY <1>2, <2>1, <2>5
  <2>7. Parameter(k) = params[k + 3]
    BY <1>2, <2>6
  <2>8. Plain(params[k + 3])
    BY <1>2, <2>6, MessageLength
  <2>9. k = 2 => params[k + 3] = Greeting
    BY <2>1
  <2>10. call.function = "long" \/ Delimiters(Before(call.arguments[2], NUL)) = 0 => k = 2
    BY <1>2, <2>1, <2>3, <2>5
  <2> QED BY <2>2, <2>7, <2>8, <2>9, <2>10
<1>8. got' \in Strings
  <2>1. None \in Strings
    BY CharFacts, PlainIsString
  <2>2. CASE error' # ERROR_SUCCESS
    BY <1>1, <2>1, <2>2
  <2>3. CASE error' = ERROR_SUCCESS /\ call.function = "get"
    BY <1>5, <2>3
  <2>4. CASE error' = ERROR_SUCCESS /\ call.function = "reverse"
    BY <1>1, <1>6, <2>4, PlainIsString
  <2>5. CASE error' = ERROR_SUCCESS /\ call.function = "add"
    <3>1. PICK x \in Ints, y \in Ints : Parameter(ResultPosition) = Numeral(Wrap(x + y))
      BY <1>7, <2>5
    <3>2. Wrap(x + y) \in Numbers
      BY WrapFacts, NumbersOfMessages
    <3> QED BY <1>1, <2>5, <3>1, <3>2, NumeralTexts
  <2>6. CASE error' = ERROR_SUCCESS /\ call.function \in Longs
    BY <1>1, <1>17, <2>6, PlainIsString
  <2> QED BY <1>4, <2>2, <2>3, <2>4, <2>5, <2>6
<1>9. TypeOK'
  BY <1>1, <1>3, <1>8 DEF TypeOK, Strings
<1>10. CallInv'
  BY <1>1, <1>3 DEF CallInv
<1>11. ParseInv' /\ RequestInv' /\ AnswerInv'
  BY <1>1 DEF ParseInv, RequestInv, AnswerInv
<1>12. StoredInv'
  BY <1>1, <1>3 DEF StoredInv
<1>13. HandleArrives'
  BY <1>1, <1>4 DEF HandleArrives, Returned, Longs
<1>14. StringsAreCut'
  BY <1>1, <1>5, <1>6, <1>17 DEF StringsAreCut, Returned, Longs
<1>15. AddIsSum'
  <2> SUFFICES ASSUME call.function = "add", error' = ERROR_SUCCESS
               PROVE  LET sum == Number(call.arguments[1]) + Number(call.arguments[2])
                      IN /\ sum \in Ints => Number(got') = sum
                         /\ (Number(got') - sum) % IntValues = 0
    BY <1>1 DEF AddIsSum, Returned
  <2>1. PICK x \in Ints, y \in Ints :
          /\ call.arguments[1] = Numeral(x) /\ call.arguments[2] = Numeral(y)
          /\ Parameter(ResultPosition) = Numeral(Wrap(x + y))
    BY <1>7
  <2>2. Number(call.arguments[1]) = x /\ Number(call.arguments[2]) = y
    BY <2>1, NumberFacts
  <2>3. Number(got') = Wrap(x + y)
    BY <1>1, <2>1, WrapFacts, NumberFacts
  <2> QED BY <2>2, <2>3, WrapFacts
<1>16. OnlyGrowingResponsesFail'
  BY <1>1 DEF OnlyGrowingResponsesFail, ServerErrorCode, ERROR_SUCCESS, ERROR_RECEIVE_FAILED,
              ERROR_NO_OBJECT_FOUND, ERROR_DISPID_INVALID, ERROR_PARAMETER_INVALID,
              ERROR_OBJECT_NOT_REGISTERED
<1> QED BY <1>9, <1>10, <1>11, <1>12, <1>13, <1>14, <1>15, <1>16 DEF IInv, ResultInv

LEMMA IInvStutter == IInv /\ UNCHANGED vars => IInv'
<1> SUFFICES ASSUME IInv, UNCHANGED vars PROVE IInv'
  OBVIOUS
<1> USE DEF vars
<1>1. TypeOK' /\ CallInv'
  BY DEF IInv, TypeOK, CallInv
<1>2. ParseInv' /\ RequestInv' /\ StoredInv'
  BY DEF IInv, ParseInv, RequestInv, StoredInv
<1>3. AnswerInv'
  BY DEF IInv, AnswerInv, Answer
<1>4. ResultInv'
  BY DEF IInv, ResultInv, HandleArrives, StringsAreCut, AddIsSum,
         OnlyGrowingResponsesFail, Returned
<1> QED BY <1>1, <1>2, <1>3, <1>4 DEF IInv

\* The inductive invariant: what comes out of the pipe is the text of the
\* request or of its response, and the tokens are its parameters
\* (Marshaller.cpp:28-60, Utils.h:50-63).
THEOREM CodecInvHolds == Spec => []IInv
<1>1. Init => IInv
  BY IInvInit
<1>2. IInv /\ [Next]_vars => IInv'
  <2> SUFFICES ASSUME IInv, [Next]_vars PROVE IInv'
    OBVIOUS
  <2>1. CASE SendPrimitiveData
    BY <2>1, SendPrimitiveDataPreserves
  <2>2. CASE GetPrimitiveData
    BY <2>2, GetPrimitiveDataPreserves
  <2>3. CASE Add
    BY <2>3, AddPreserves
  <2>4. CASE ReverseName
    BY <2>4, ReverseNamePreserves
  <2>5. CASE Tokenize
    BY <2>5, TokenizePreserves
  <2>6. CASE InitHelperReturns
    BY <2>6, InitHelperReturnsPreserves
  <2>7. CASE ProcessRequest
    BY <2>7, ProcessRequestPreserves
  <2>8. CASE ReturnResult
    BY <2>8, HandleReturned, ValueReturned
  <2>9. CASE LongOperation
    BY <2>9, LongOperationPreserves
  <2>10. CASE UNCHANGED vars
    BY <2>10, IInvStutter
  <2> QED BY <2>1, <2>2, <2>3, <2>4, <2>5, <2>6, <2>7, <2>8, <2>9, <2>10 DEF Next
<1> QED BY <1>1, <1>2, PTL DEF Spec

\* The variables keep their types, and neither side reads a message with less
\* than the three parameters before those of the function (Marshaller.h:20-25).
THEOREM CodecTypesCorrect == Spec => []TypeOK
<1>1. IInv => TypeOK
  BY DEF IInv
<1> QED BY <1>1, CodecInvHolds, PTL

\* InitHelper loses no part of any text (Marshaller.cpp:39-42, Utils.h:50-63).
THEOREM NothingIsLost == Spec => []TokensAndRestAreText
<1>1. IInv => TokensAndRestAreText
  <2> SUFFICES ASSUME IInv, at \in {"parse", "process", "return"}, params # <<>>
               PROVE  src = GetWireFormat(params)
                              \o IF start = npos THEN <<>>
                                 ELSE <<WIRE_DELIMITER>> \o SubSeq(src, start, Len(src))
    BY DEF TokensAndRestAreText
  <2>1. PICK t : t = GetWireFormat(params)
    OBVIOUS
  <2>2. t \in Strings
    BY <2>1, WireFormatType DEF IInv, TypeOK, Strings
  <2>3. CASE start = npos
    <3>1. src = t
      BY <2>1, <2>3 DEF IInv, ParseInv
    <3>2. t \o <<>> = t
      BY <2>2, ConcatEmptySeq DEF Strings
    <3> QED BY <2>1, <2>3, <3>1, <3>2
  <2>4. CASE start # npos
    <3>1. PICK r : r = SubSeq(src, start, Len(src))
      OBVIOUS
    <3>2. src = Join(t, r)
      BY <2>1, <2>4, <3>1 DEF IInv, ParseInv
    <3>3. r \in Strings
      <4>1. src \in Seq(Char) /\ Len(src) \in Nat /\ start \in 1 .. Len(src) + 1
        BY <2>4 DEF IInv, TypeOK
      <4>2. \A i \in start .. Len(src) : src[i] \in Char
        BY <4>1
      <4> QED BY <3>1, <4>1, <4>2, SubSeqProperties DEF Strings
    <3>4. (t \o D) \o r = t \o (D \o r)
      <4>1. t \in Seq(Char) /\ r \in Seq(Char) /\ D \in Seq(Char)
        BY <2>2, <3>3, DType DEF Strings
      <4> HIDE DEF D
      <4> QED BY <4>1, ConcatAssociative
    <3> QED BY <2>1, <2>4, <3>1, <3>2, <3>4 DEF Join, D
  <2> QED BY <2>3, <2>4
<1> QED BY <1>1, CodecInvHolds, PTL

\* Whatever the value of a new string is, SendPrimitiveData returns the handle of
\* the object that has been created for it (ObjectManager.cpp:121), and the
\* callback of SendPrimitivecDataAsync is given it when what is left of the value
\* before a NUL has at most one delimiter (ClientMessageHandler.h:115-117).
THEOREM NewHandleArrives == Spec => []HandleArrives
<1>1. IInv => HandleArrives
  BY DEF IInv, ResultInv
<1> QED BY <1>1, CodecInvHolds, PTL

\* Strings arrive up to the first NUL or delimiter, and no further, in both
\* directions (NamedPipe.cpp:114-134, Marshaller.cpp:39-42); LongOperation's
\* string comes back whole (CalculatorClient.h:95-134).
THEOREM StringsArriveCut == Spec => []StringsAreCut
<1>1. IInv => StringsAreCut
  BY DEF IInv, ResultInv
<1> QED BY <1>1, CodecInvHolds, PTL

\* Add returns the sum modulo the width of an int, for any ints
\* (Calculator.cpp:9, Calculator.h:52).
THEOREM SumArrives == Spec => []AddIsSum
<1>1. IInv => AddIsSum
  BY DEF IInv, ResultInv
<1> QED BY <1>1, CodecInvHolds, PTL

\* When the pipe has room for the messages without strings of the client, and
\* however numbers are written, the only responses that do not fit, to requests
\* that did, are those of creations and of LongOperation with a string of
\* several parameters, the first shorter than the greeting
\* (NamedPipe.cpp:114-134, Calculator.h:52, Calculator.cpp:27).
THEOREM ResponsesFit == Spec => []OnlyGrowingResponsesFail
<1>1. IInv => OnlyGrowingResponsesFail
  BY DEF IInv, ResultInv
<1> QED BY <1>1, CodecInvHolds, PTL
==============================================================================
