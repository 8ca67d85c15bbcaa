----------------------------- MODULE HostProofs -----------------------------
(***************************************************************************)
(* Proofs about Encoding, for any sequence of bytes: what Base64Encode     *)
(* writes Base64Decode reads back, and what IsValidUtf8 accepts is well    *)
(* formed by the table of the standard; and about HostCall, for any number *)
(* of threads and any calls.                                               *)
(***************************************************************************)
EXTENDS HostCall, FiniteSetTheorems, SequenceTheorems, WellFoundedInduction, TLAPS

Byte == 0..255

\* The nonempty sets of naturals have a least member.
LEMMA Least ==
    ASSUME NEW T \in SUBSET Nat, T # {}
    PROVE  \E x \in T : \A y \in T : x <= y
<1> DEFINE R == OpToRel(<, Nat)
<1>1. IsWellFoundedOn(R, Nat)
  BY NatLessThanWellFounded
<1>2. PICK x \in T : \A y \in T : ~(<<y, x>> \in R)
  <2> HIDE DEF R
  <2> QED BY <1>1, WFMin
<1>3. ASSUME NEW y \in T PROVE x <= y
  <2>1. <<y, x>> \in Nat \X Nat /\ <<y, x>>[1] = y /\ <<y, x>>[2] = x
    OBVIOUS
  <2>2. y < x => <<y, x>> \in R
    BY <2>1 DEF OpToRel
  <2> HIDE DEF R
  <2>3. ~(y < x)
    BY <1>2, <2>2
  <2>4. x \in Nat /\ y \in Nat
    OBVIOUS
  <2> QED BY <2>3, <2>4
<1> QED BY <1>3

-----------------------------------------------------------------------------
(* Base64 *)

\* Four digits with the padding as zero, as Base64Decode weighs them.
Digit(d) == IF d = Pad THEN 0 ELSE d
Weight(d1, d2, d3, d4) == Digit(d1) * 262144 + Digit(d2) * 4096 + Digit(d3) * 64 + Digit(d4)

\* A word of three bytes is four digits of six bits.
Word(a, b, c) == a * 65536 + b * 256 + c

LEMMA SextetFact ==
    ASSUME NEW v \in Nat
    PROVE  (v \div 262144) * 262144 + ((v \div 4096) % 64) * 4096
             + ((v \div 64) % 64) * 64 + (v % 64) = v
<1> DEFINE q == v \div 64
<1> DEFINE r == v \div 4096
<1> DEFINE u == v \div 262144
<1>1. q \in Nat /\ r \in Nat /\ u \in Nat
  BY SMT
<1>2. v % 64 = v - 64 * q
  BY SMT
<1>3. r = q \div 64
  BY SMT
<1>4. u = r \div 64
  BY SMT
<1>5. q % 64 = q - 64 * r
  <2> HIDE DEF q
  <2>1. q % 64 = q - 64 * (q \div 64)
    BY <1>1, SMT
  <2> HIDE DEF r
  <2> QED BY <2>1, <1>3, SMT
<1>6. r % 64 = r - 64 * u
  <2> HIDE DEF q, r
  <2>1. r % 64 = r - 64 * (r \div 64)
    BY <1>1, SMT
  <2> HIDE DEF u
  <2> QED BY <2>1, <1>4, SMT
<1>7. u * 262144 + (r % 64) * 4096 + (q % 64) * 64 + (v % 64) = v
  <2> HIDE DEF q, r, u
  <2> QED BY <1>1, <1>2, <1>5, <1>6, SMT
<1> QED BY <1>7, SMT

Splits(v, a, b, c) ==
    /\ v \in Nat
    /\ v \div 262144 \in 0..63
    /\ v \div 65536 = a /\ (v \div 256) % 256 = b /\ v % 256 = c
    /\ c = 0 => v % 64 = 0
    /\ (b = 0 /\ c = 0) => (v \div 64) % 64 = 0

LEMMA WordFact ==
    ASSUME NEW a \in Byte, NEW b \in Byte, NEW c \in Byte
    PROVE  Splits(Word(a, b, c), a, b, c)
<1> DEFINE v == Word(a, b, c)
<1>1. v \in Nat /\ v < 16777216
  BY SMT DEF Byte, Word
<1>2. v \div 262144 \in 0..63
  <2> HIDE DEF v
  <2> QED BY <1>1, SMT
<1>3. v \div 65536 = a
  BY SMT DEF Byte, Word
<1>4. (v \div 256) % 256 = b
  <2>1. v \div 256 = a * 256 + b
    BY SMT DEF Byte, Word
  <2>2. (a * 256 + b) % 256 = b
    BY SMT DEF Byte
  <2> QED BY <2>1, <2>2, SMT
<1>5. v % 256 = c
  BY SMT DEF Byte, Word
<1>6. c = 0 => v % 64 = 0
  BY SMT DEF Byte, Word
<1>7. (b = 0 /\ c = 0) => (v \div 64) % 64 = 0
  BY SMT DEF Byte, Word
<1> QED BY <1>1, <1>2, <1>3, <1>4, <1>5, <1>6, <1>7, SMT DEF Splits

\* The four digits hold the bytes, of which the last word has one, two or three.
LEMMA DigitsFact ==
    ASSUME NEW s \in Seq(Byte), NEW i \in 1..Len(s)
    PROVE  LET d == Digits(s, i)
               v == Weight(d[1], d[2], d[3], d[4])
           IN  /\ d[1] # Pad /\ d[2] # Pad
               /\ d[3] = Pad <=> i + 1 > Len(s)
               /\ d[4] = Pad <=> i + 2 > Len(s)
               /\ v \in Nat /\ v \div 65536 = s[i]
               /\ i + 1 <= Len(s) => (v \div 256) % 256 = s[i + 1]
               /\ i + 2 <= Len(s) => v % 256 = s[i + 2]
<1> DEFINE two == Len(s) - i + 1 >= 2
<1> DEFINE three == Len(s) - i + 1 >= 3
<1> DEFINE b == IF two THEN s[i + 1] ELSE 0
<1> DEFINE c == IF three THEN s[i + 2] ELSE 0
<1> DEFINE w == Word(s[i], b, c)
<1> DEFINE d == Digits(s, i)
<1>1. s[i] \in Byte /\ Len(s) \in Nat /\ i \in Nat
  BY SMT
<1>2. /\ two <=> i + 1 <= Len(s)
      /\ three <=> i + 2 <= Len(s)
      /\ three => two
  BY <1>1, SMT
<1>3. b \in Byte
  <2>1. CASE two
    <3>1. i + 1 \in 1..Len(s)
      BY <1>1, <2>1, SMT
    <3>2. s[i + 1] \in Byte
      BY <3>1, SMT
    <3> QED BY <2>1, <3>2, Zenon
  <2>2. CASE ~two
    <3>1. 0 \in Byte
      BY SMT DEF Byte
    <3> QED BY <2>2, <3>1, Zenon
  <2> QED BY <2>1, <2>2
<1>4. c \in Byte
  <2>1. CASE three
    <3>1. i + 2 \in 1..Len(s)
      BY <1>1, <2>1, SMT
    <3>2. s[i + 2] \in Byte
      BY <3>1, SMT
    <3> QED BY <2>1, <3>2, Zenon
  <2>2. CASE ~three
    <3>1. 0 \in Byte
      BY SMT DEF Byte
    <3> QED BY <2>2, <3>1, Zenon
  <2> QED BY <2>1, <2>2
<1>5. d = <<w \div 262144, (w \div 4096) % 64,
            IF two THEN (w \div 64) % 64 ELSE Pad, IF three THEN w % 64 ELSE Pad>>
  <2>1. w = s[i] * 65536 + (IF two THEN s[i + 1] * 256 ELSE 0) + (IF three THEN s[i + 2] ELSE 0)
    BY <1>1, SMT DEF Word
  <2> QED BY <2>1, SMT DEF Digits
<1>6. /\ ~two => b = 0 /\ c = 0
      /\ ~three => c = 0
      /\ two => b = s[i + 1]
      /\ three => c = s[i + 2]
  BY <1>2, SMT
<1> HIDE DEF two, three, b, c, w, d
<1>7. /\ w \in Nat
      /\ w \div 262144 \in 0..63
      /\ w \div 65536 = s[i] /\ (w \div 256) % 256 = b /\ w % 256 = c
      /\ c = 0 => w % 64 = 0
      /\ (b = 0 /\ c = 0) => (w \div 64) % 64 = 0
  <2> DEFINE a == s[i]
  <2>1. a \in Byte /\ b \in Byte /\ c \in Byte /\ w = Word(a, b, c)
    BY <1>1, <1>3, <1>4, SMT DEF w
  <2> HIDE DEF a
  <2>2. Splits(w, a, b, c)
    BY <2>1, WordFact, SMT
  <2> QED BY <2>2, SMT DEF a, Splits
<1> DEFINE d1 == w \div 262144
<1> DEFINE d2 == (w \div 4096) % 64
<1> DEFINE d3 == (w \div 64) % 64
<1> DEFINE d4 == w % 64
<1>8. /\ d1 \in 0..63 /\ d2 \in 0..63 /\ d3 \in 0..63 /\ d4 \in 0..63
  BY <1>7, SMT
<1>9. d1 * 262144 + d2 * 4096 + d3 * 64 + d4 = w
  BY <1>7, SextetFact, SMT
<1>10. /\ ~two => d3 = 0
       /\ ~three => d4 = 0
  BY <1>6, <1>7, SMT
<1>11. d = <<d1, d2, IF two THEN d3 ELSE Pad, IF three THEN d4 ELSE Pad>>
  BY <1>5, SMT
<1> HIDE DEF d1, d2, d3, d4
<1>12. \A x \in 0..63 : x # Pad /\ Digit(x) = x
  BY SMT DEF Pad, Digit
<1>13. Digit(Pad) = 0
  BY SMT DEF Digit
<1>14. /\ d[1] = d1 /\ d[2] = d2
       /\ d[3] = (IF two THEN d3 ELSE Pad)
       /\ d[4] = (IF three THEN d4 ELSE Pad)
  BY <1>11, SMT
<1>15. /\ d[1] # Pad /\ d[2] # Pad
       /\ d[3] = Pad <=> ~two
       /\ d[4] = Pad <=> ~three
  BY <1>8, <1>12, <1>14, Zenon
<1>16. Digit(d[1]) = d1 /\ Digit(d[2]) = d2 /\ Digit(d[3]) = d3 /\ Digit(d[4]) = d4
  BY <1>8, <1>10, <1>12, <1>13, <1>14, Zenon
<1>17. Weight(d[1], d[2], d[3], d[4]) = w
  BY <1>9, <1>16, SMT DEF Weight
<1>18. /\ w \in Nat /\ w \div 65536 = s[i]
       /\ i + 1 <= Len(s) => (w \div 256) % 256 = s[i + 1]
       /\ i + 2 <= Len(s) => w % 256 = s[i + 2]
  BY <1>2, <1>6, <1>7, SMT
<1>19. /\ d[3] = Pad <=> i + 1 > Len(s)
       /\ d[4] = Pad <=> i + 2 > Len(s)
  BY <1>1, <1>2, <1>15, SMT
<1> QED BY <1>15, <1>17, <1>18, <1>19, SMT DEF d

Groups(s) == (Len(s) + 2) \div 3

\* Where a position lies in groups of four digits and of three bytes.
LEMMA FourFact ==
    ASSUME NEW m \in Nat, NEW k \in 1..(4 * m)
    PROVE  \E g \in 0..(m - 1), j \in 1..4 : k = 4 * g + j
<1>1. k \in Int /\ k >= 1 /\ k <= 4 * m
  OBVIOUS
<1>2. /\ (k - 1) \div 4 \in 0..(m - 1) /\ ((k - 1) % 4) + 1 \in 1..4
      /\ k = 4 * ((k - 1) \div 4) + (((k - 1) % 4) + 1)
  BY <1>1, SMT
<1> QED BY <1>2

LEMMA ThreeFact ==
    ASSUME NEW m \in Nat, NEW n \in Nat, 3 * m - n \in 0..2, NEW k \in 1..n
    PROVE  /\ (k - 1) \div 3 \in 0..(m - 1)
           /\ \/ k % 3 = 1 /\ k = 3 * ((k - 1) \div 3) + 1
              \/ k % 3 = 2 /\ k = 3 * ((k - 1) \div 3) + 2
              \/ k % 3 = 0 /\ k = 3 * ((k - 1) \div 3) + 3
<1>1. k \in Int /\ k >= 1 /\ k <= 3 * m
  OBVIOUS
<1> QED BY <1>1

LEMMA EncodeFact ==
    ASSUME NEW s \in Seq(Byte)
    PROVE  /\ Groups(s) \in Nat /\ Len(Base64Encode(s)) = 4 * Groups(s)
           /\ 3 * Groups(s) - Len(s) \in 0..2
           /\ \A g \in 0..(Groups(s) - 1) :
                 /\ 3 * g + 1 \in 1..Len(s)
                 /\ \A j \in 1..4 : Base64Encode(s)[4 * g + j] = Digits(s, 3 * g + 1)[j]
<1> DEFINE n == Len(s)
<1> DEFINE m == Groups(s)
<1> DEFINE t == Base64Encode(s)
<1>1. n \in Nat /\ m \in Nat /\ 3 * m - n \in 0..2
  BY DEF Groups
<1>2. t = [k \in 1..(4 * m) |-> Digits(s, 3 * ((k - 1) \div 4) + 1)[((k - 1) % 4) + 1]]
  BY DEF Base64Encode, Groups
<1> HIDE DEF n, m, t
<1>3. Len(t) = 4 * m
  <2>1. 4 * m \in Nat
    BY <1>1
  <2> DEFINE l == 4 * m
  <2>2. DOMAIN t = 1..l /\ l \in Nat
    BY <1>2, <2>1
  <2>3. t \in Seq({t[k] : k \in 1..l})
    <3>1. t = [k \in 1..l |-> t[k]]
      BY <1>2, SMT
    <3> HIDE DEF l
    <3> QED BY <2>2, <3>1, SMT
  <2> HIDE DEF l
  <2>4. Len(t) = l
    BY <2>2, <2>3
  <2> QED BY <2>4 DEF l
<1>4. ASSUME NEW g \in 0..(m - 1)
      PROVE  /\ 3 * g + 1 \in 1..n
             /\ \A j \in 1..4 : t[4 * g + j] = Digits(s, 3 * g + 1)[j]
  <2>1. 3 * g + 1 \in 1..n
    BY <1>1
  <2>2. ASSUME NEW j \in 1..4 PROVE t[4 * g + j] = Digits(s, 3 * g + 1)[j]
    <3>1. 4 * g + j \in 1..(4 * m) /\ (4 * g + j - 1) \div 4 = g /\ ((4 * g + j - 1) % 4) + 1 = j
      BY <1>1
    <3> QED BY <1>2, <3>1
  <2> QED BY <2>1, <2>2
<1> QED BY <1>1, <1>3, <1>4 DEF n, m, t

\* The padding stands for what the last word lacks of three bytes.
LEMMA PadsFact ==
    ASSUME NEW s \in Seq(Byte)
    PROVE  Cardinality({k \in 1..Len(Base64Encode(s)) : Base64Encode(s)[k] = Pad})
             = 3 * Groups(s) - Len(s)
<1> DEFINE n == Len(s)
<1> DEFINE m == Groups(s)
<1> DEFINE t == Base64Encode(s)
<1> DEFINE pads == {k \in 1..Len(t) : t[k] = Pad}
<1>1. /\ n \in Nat /\ m \in Nat /\ Len(t) = 4 * m /\ 3 * m - n \in 0..2
      /\ \A g \in 0..(m - 1) :
            /\ 3 * g + 1 \in 1..n
            /\ \A j \in 1..4 : t[4 * g + j] = Digits(s, 3 * g + 1)[j]
  BY EncodeFact
<1>2. ASSUME NEW g \in 0..(m - 1)
      PROVE  /\ t[4 * g + 1] # Pad /\ t[4 * g + 2] # Pad
             /\ t[4 * g + 3] = Pad <=> 3 * g + 2 > n
             /\ t[4 * g + 4] = Pad <=> 3 * g + 3 > n
  <2> DEFINE i == 3 * g + 1
  <2>1. i \in 1..n /\ i + 1 = 3 * g + 2 /\ i + 2 = 3 * g + 3
    BY <1>1
  <2>2. \A j \in 1..4 : t[4 * g + j] = Digits(s, i)[j]
    BY <1>1
  <2> HIDE DEF i
  <2>3. /\ Digits(s, i)[1] # Pad /\ Digits(s, i)[2] # Pad
        /\ Digits(s, i)[3] = Pad <=> i + 1 > n
        /\ Digits(s, i)[4] = Pad <=> i + 2 > n
    BY <2>1, DigitsFact
  <2> QED BY <2>1, <2>2, <2>3
<1> HIDE DEF n, m, t
<1>3. ASSUME NEW k \in 1..(4 * m)
      PROVE  t[k] = Pad <=> k \in (m + n + 1)..(4 * m)
  <2>1. PICK g \in 0..(m - 1), j \in 1..4 : k = 4 * g + j
    BY <1>1, FourFact
  <2>2. /\ t[4 * g + 1] # Pad /\ t[4 * g + 2] # Pad
        /\ t[4 * g + 3] = Pad <=> 3 * g + 2 > n
        /\ t[4 * g + 4] = Pad <=> 3 * g + 3 > n
    BY <1>2
  <2>3. /\ n \in Nat /\ m \in Nat /\ 3 * m - n \in 0..2
        /\ 3 * g + 1 \in 1..n
    BY <1>1
  <2>4. t[k] = Pad <=> (j = 3 /\ 3 * g + 2 > n) \/ (j = 4 /\ 3 * g + 3 > n)
    BY <2>1, <2>2
  <2> QED BY <2>1, <2>3, <2>4
<1>4. pads = (m + n + 1)..(4 * m)
  <2>1. \A k \in (m + n + 1)..(4 * m) : k \in 1..(4 * m)
    BY <1>1
  <2> QED BY <1>1, <1>3, <2>1
<1>5. Cardinality((m + n + 1)..(4 * m)) = 3 * m - n
  <2>1. m + n + 1 \in Int /\ 4 * m \in Int
    BY <1>1
  <2>2. Cardinality((m + n + 1)..(4 * m))
          = IF m + n + 1 > 4 * m THEN 0 ELSE 4 * m - (m + n + 1) + 1
    BY <2>1, FS_Interval
  <2> QED BY <1>1, <2>2
<1> QED BY <1>4, <1>5 DEF n, m, t

\* What was encoded is recovered.
LEMMA DecodeFact ==
    ASSUME NEW s \in Seq(Byte)
    PROVE  Base64Decode(Base64Encode(s)) = s
<1> DEFINE n == Len(s)
<1> DEFINE m == Groups(s)
<1> DEFINE t == Base64Encode(s)
<1> DEFINE pads == Cardinality({k \in 1..Len(t) : t[k] = Pad})
<1> DEFINE word(q) == Weight(t[q + 1], t[q + 2], t[q + 3], t[q + 4])
<1> DEFINE byte(k) == CASE k % 3 = 1 -> word(4 * ((k - 1) \div 3)) \div 65536
                        [] k % 3 = 2 -> (word(4 * ((k - 1) \div 3)) \div 256) % 256
                        [] OTHER -> word(4 * ((k - 1) \div 3)) % 256
<1>1. /\ n \in Nat /\ m \in Nat /\ Len(t) = 4 * m /\ 3 * m - n \in 0..2
      /\ \A g \in 0..(m - 1) :
            /\ 3 * g + 1 \in 1..n
            /\ \A j \in 1..4 : t[4 * g + j] = Digits(s, 3 * g + 1)[j]
  BY EncodeFact, SMT
<1>2. pads = 3 * m - n
  BY PadsFact, SMT
<1>3. Base64Decode(t) = [k \in 1..(3 * (Len(t) \div 4) - pads) |-> byte(k)]
  BY SMT DEF Base64Decode, Weight, Digit
<1>4. 3 * (Len(t) \div 4) - pads = n
  <2> HIDE DEF t, n, m, pads
  <2> QED BY <1>1, <1>2, SMT
<1>5. ASSUME NEW k \in 1..n PROVE byte(k) = s[k]
  <2> DEFINE g == (k - 1) \div 3
  <2> DEFINE i == 3 * g + 1
  <2> HIDE DEF t, m, n
  <2>1. /\ g \in 0..(m - 1)
        /\ \/ k % 3 = 1 /\ k = i
           \/ k % 3 = 2 /\ k = i + 1
           \/ k % 3 = 0 /\ k = i + 2
    <3>1. n \in Nat /\ m \in Nat /\ 3 * m - n \in 0..2
      BY <1>1, SMT
    <3>2. /\ (k - 1) \div 3 \in 0..(m - 1)
          /\ \/ k % 3 = 1 /\ k = 3 * ((k - 1) \div 3) + 1
             \/ k % 3 = 2 /\ k = 3 * ((k - 1) \div 3) + 2
             \/ k % 3 = 0 /\ k = 3 * ((k - 1) \div 3) + 3
      BY <3>1, ThreeFact, SMT
    <3> QED BY <3>2, SMT
  <2>2. i \in 1..n /\ \A j \in 1..4 : t[4 * g + j] = Digits(s, i)[j]
    <3> HIDE DEF g
    <3> QED BY <1>1, <2>1, SMT
  <2> DEFINE w == word(4 * g)
  <2>3. byte(k) = CASE k % 3 = 1 -> w \div 65536
                    [] k % 3 = 2 -> (w \div 256) % 256
                    [] OTHER -> w % 256
    BY SMT
  <2> DEFINE d == Digits(s, i)
  <2>4. w = Weight(d[1], d[2], d[3], d[4])
    <3> HIDE DEF g, i
    <3>1. /\ t[4 * g + 1] = d[1] /\ t[4 * g + 2] = d[2]
          /\ t[4 * g + 3] = d[3] /\ t[4 * g + 4] = d[4]
      <4> HIDE DEF d
      <4> QED BY <2>2, SMT DEF d
    <3> QED BY <3>1, SMT
  <2> HIDE DEF byte, word, w, d, i, g
  <2>5. /\ w \div 65536 = s[i]
        /\ i + 1 <= n => (w \div 256) % 256 = s[i + 1]
        /\ i + 2 <= n => w % 256 = s[i + 2]
    <3>1. /\ w \div 65536 = s[i]
          /\ i + 1 <= Len(s) => (w \div 256) % 256 = s[i + 1]
          /\ i + 2 <= Len(s) => w % 256 = s[i + 2]
      BY <2>2, <2>4, DigitsFact, SMT DEF d, n
    <3> QED BY <3>1, SMT DEF n
  <2>6. CASE k % 3 = 1
    BY <2>1, <2>3, <2>5, <2>6, SMT
  <2>7. CASE k % 3 = 2
    <3>1. byte(k) = (w \div 256) % 256
      BY <2>3, <2>7, SMT
    <3>2. k = i + 1 /\ i + 1 <= n
      BY <2>1, <2>7, SMT
    <3> QED BY <2>5, <3>1, <3>2, SMT
  <2>8. CASE k % 3 = 0
    <3>1. byte(k) = w % 256
      BY <2>3, <2>8, SMT
    <3>2. k = i + 2 /\ i + 2 <= n
      BY <2>1, <2>8, SMT
    <3> QED BY <2>5, <3>1, <3>2, SMT
  <2> QED BY <2>1, <2>6, <2>7, <2>8, SMT
<1> HIDE DEF byte, word, pads
<1>6. s = [k \in 1..n |-> s[k]]
  BY SMT
<1>7. Base64Decode(t) = [k \in 1..n |-> byte(k)]
  BY <1>3, <1>4, SMT
<1> QED BY <1>5, <1>6, <1>7, SMT

-----------------------------------------------------------------------------
(* UTF-8 *)

\* IsValidUtf8 and WellFormed are recursive functions on the positions: what
\* they choose is a function that satisfies their equation, if there is one.
ValidAt(s, i, next) ==
    i > Len(s) \/ LET extra == Extra(s[i]) IN
        /\ extra >= 0
        /\ i + extra <= Len(s)
        /\ \A k \in 1..extra : s[i + k] \div 64 = 2
        /\ extra > 0 => ~Rejected(extra, CodePoint(s, i, extra))
        /\ next[i + extra + 1]
IsValidity(s, f) == f = [i \in 1..(Len(s) + 4) |-> ValidAt(s, i, f)]
Validity(s) == CHOOSE f : IsValidity(s, f)

LEMMA ValidityFact == ASSUME NEW s PROVE IsValidUtf8(s) = Validity(s)[1]
  BY Zenon DEF IsValidUtf8, Validity, IsValidity, ValidAt

FormedAt(s, i, next) ==
    i = Len(s) + 1
        \/ \E j \in i..Len(s) : j < i + 4 /\ WellFormedChar(SubSeq(s, i, j)) /\ next[j + 1]
IsForming(s, f) == f = [i \in 1..(Len(s) + 1) |-> FormedAt(s, i, f)]
Forming(s) == CHOOSE f : IsForming(s, f)

LEMMA FormingFact == ASSUME NEW s PROVE WellFormed(s) = Forming(s)[1]
  BY Zenon DEF WellFormed, Forming, IsForming, FormedAt

CodeAt(s, i, low, k, prior) ==
    IF k = 0 THEN s[i] % low ELSE prior[k - 1] * 64 + (s[i + k] % 64)
IsCode(s, i, extra, low, f) == f = [k \in 0..extra |-> CodeAt(s, i, low, k, f)]
Low(extra) == IF extra = 1 THEN 32 ELSE IF extra = 2 THEN 16 ELSE 8
Code(s, i, extra, low) == CHOOSE f : IsCode(s, i, extra, low, f)

LEMMA CodeFact ==
    ASSUME NEW s, NEW i, NEW extra
    PROVE  CodePoint(s, i, extra) = Code(s, i, extra, Low(extra))[extra]
  BY Zenon DEF CodePoint, Code, IsCode, CodeAt, Low

\* What ValidAt asks of a position, and the position it asks about next.
ValidHere(s, i) ==
    LET extra == Extra(s[i]) IN
        /\ extra >= 0
        /\ i + extra <= Len(s)
        /\ \A k \in 1..extra : s[i + k] \div 64 = 2
        /\ extra > 0 => ~Rejected(extra, CodePoint(s, i, extra))
NextAt(s, i) == i + Extra(s[i]) + 1

LEMMA ValidAtFact ==
    ASSUME NEW s, NEW i, NEW f
    PROVE  ValidAt(s, i, f) <=> i > Len(s) \/ (ValidHere(s, i) /\ f[NextAt(s, i)])
  BY Zenon DEF ValidAt, ValidHere, NextAt

LEMMA ExtraFact == ASSUME NEW c PROVE Extra(c) \in {-1, 0, 1, 2, 3}
  BY SMT DEF Extra

\* The positions from which every step is valid satisfy the equation.
LEMMA ValidityExists ==
    ASSUME NEW s \in Seq(Byte)
    PROVE  IsValidity(s, Validity(s))
<1> DEFINE D == 1..(Len(s) + 4)
<1> DEFINE Kept(P) == \A p \in P : p > Len(s) \/ (ValidHere(s, p) /\ NextAt(s, p) \in P)
<1> DEFINE f == [i \in D |-> \E P \in SUBSET D : i \in P /\ Kept(P)]
<1>1. ASSUME NEW i \in D PROVE f[i] = ValidAt(s, i, f)
  <2>1. f[i] <=> \E P \in SUBSET D : i \in P /\ Kept(P)
    BY Zenon
  <2>2. ASSUME NEW P \in SUBSET D, i \in P, Kept(P)
        PROVE  i > Len(s) \/ (ValidHere(s, i) /\ f[NextAt(s, i)])
    <3>1. CASE i > Len(s)
      BY <3>1
    <3>2. CASE ValidHere(s, i) /\ NextAt(s, i) \in P
      <4>1. NextAt(s, i) \in D
        BY <3>2
      <4>2. f[NextAt(s, i)]
        BY <2>2, <3>2, <4>1, Zenon
      <4> QED BY <3>2, <4>2
    <3> QED BY <2>2, <3>1, <3>2
  <2>3. ASSUME i > Len(s) PROVE \E P \in SUBSET D : i \in P /\ Kept(P)
    <3>1. {i} \in SUBSET D /\ i \in {i} /\ Kept({i})
      BY <2>3, Zenon
    <3> QED BY <3>1, Zenon
  <2>4. ASSUME i <= Len(s), ValidHere(s, i), f[NextAt(s, i)]
        PROVE  \E P \in SUBSET D : i \in P /\ Kept(P)
    <3>1. NextAt(s, i) \in D
      <4>1. Extra(s[i]) \in {0, 1, 2, 3} /\ i + Extra(s[i]) <= Len(s)
        BY <2>4, ExtraFact DEF ValidHere
      <4> HIDE DEF f
      <4> QED BY <4>1 DEF NextAt
    <3>2. PICK P \in SUBSET D : NextAt(s, i) \in P /\ Kept(P)
      BY <2>4, <3>1, Zenon
    <3>3. P \cup {i} \in SUBSET D /\ i \in P \cup {i}
      BY Zenon
    <3>4. Kept(P \cup {i})
      BY <2>4, <3>2, Zenon
    <3> QED BY <3>3, <3>4, Zenon
  <2>5. i > Len(s) \/ i <= Len(s)
    <3> HIDE DEF f
    <3> QED OBVIOUS
  <2>6. f[i] <=> (i > Len(s) \/ (ValidHere(s, i) /\ f[NextAt(s, i)]))
    <3> HIDE DEF f
    <3> QED BY <2>1, <2>2, <2>3, <2>4, <2>5, Zenon
  <2>7. f[i] <=> ValidAt(s, i, f)
    <3> HIDE DEF f
    <3> QED BY <2>6, ValidAtFact, Zenon
  <2>8. f[i] \in BOOLEAN /\ ValidAt(s, i, f) \in BOOLEAN
    <3>1. f[i] \in BOOLEAN
      BY Zenon
    <3>2. ValidAt(s, i, f) \in BOOLEAN
      <4> HIDE DEF f
      <4> QED BY Zenon DEF ValidAt
    <3> QED BY <3>1, <3>2
  <2> HIDE DEF f
  <2>9. \A a, b \in BOOLEAN : (a <=> b) => a = b
    BY Zenon
  <2> QED BY <2>7, <2>8, <2>9, Zenon
<1>2. f = [i \in D |-> f[i]]
  BY Zenon
<1>3. IsValidity(s, f)
  <2> HIDE DEF f
  <2> QED BY <1>1, <1>2, Zenon DEF IsValidity
<1> QED BY <1>3, Zenon DEF Validity

\* The same for the well-formed texts.
LEMMA FormingExists ==
    ASSUME NEW s \in Seq(Byte)
    PROVE  IsForming(s, Forming(s))
<1> DEFINE D == 1..(Len(s) + 1)
<1> DEFINE Char(i, j) == j < i + 4 /\ WellFormedChar(SubSeq(s, i, j))
<1> DEFINE Kept(P) == \A p \in P : p = Len(s) + 1 \/ \E j \in p..Len(s) : Char(p, j) /\ j + 1 \in P
<1> DEFINE f == [i \in D |-> \E P \in SUBSET D : i \in P /\ Kept(P)]
<1>1. ASSUME NEW i \in D PROVE f[i] = FormedAt(s, i, f)
  <2>0. \A j \in i..Len(s) : j + 1 \in D
    OBVIOUS
  <2>1. f[i] <=> \E P \in SUBSET D : i \in P /\ Kept(P)
    BY Zenon
  <2>2. ASSUME NEW P \in SUBSET D, i \in P, Kept(P)
        PROVE  i = Len(s) + 1 \/ \E j \in i..Len(s) : Char(i, j) /\ f[j + 1]
    <3>1. CASE i = Len(s) + 1
      BY <3>1
    <3>2. ASSUME NEW j \in i..Len(s), Char(i, j), j + 1 \in P
          PROVE  \E l \in i..Len(s) : Char(i, l) /\ f[l + 1]
      <4>1. f[j + 1]
        BY <2>0, <2>2, <3>2, Zenon
      <4> HIDE DEF f, Char
      <4> QED BY <3>2, <4>1, Zenon
    <3> HIDE DEF f, Char
    <3> QED BY <2>2, <3>1, <3>2, Zenon
  <2>3. ASSUME i = Len(s) + 1 PROVE \E P \in SUBSET D : i \in P /\ Kept(P)
    <3>1. {i} \in SUBSET D /\ i \in {i} /\ Kept({i})
      BY <2>3, Zenon
    <3> QED BY <3>1, Zenon
  <2>4. ASSUME NEW j \in i..Len(s), Char(i, j), f[j + 1]
        PROVE  \E P \in SUBSET D : i \in P /\ Kept(P)
    <3>1. PICK P \in SUBSET D : j + 1 \in P /\ Kept(P)
      BY <2>0, <2>4, Zenon
    <3>2. P \cup {i} \in SUBSET D /\ i \in P \cup {i}
      BY Zenon
    <3>3. Kept(P \cup {i})
      <4> HIDE DEF Char
      <4> QED BY <2>4, <3>1, Zenon
    <3> QED BY <3>2, <3>3, Zenon
  <2>5. f[i] <=> (i = Len(s) + 1 \/ \E j \in i..Len(s) : Char(i, j) /\ f[j + 1])
    <3> HIDE DEF f, Char
    <3> QED BY <2>1, <2>2, <2>3, <2>4, Zenon
  <2>6. f[i] <=> FormedAt(s, i, f)
    <3> HIDE DEF f
    <3> QED BY <2>5, Zenon DEF FormedAt
  <2>7. f[i] \in BOOLEAN /\ FormedAt(s, i, f) \in BOOLEAN
    <3>1. f[i] \in BOOLEAN
      BY Zenon
    <3>2. FormedAt(s, i, f) \in BOOLEAN
      <4> HIDE DEF f
      <4> QED BY Zenon DEF FormedAt
    <3> QED BY <3>1, <3>2
  <2> HIDE DEF f
  <2>8. \A a, b \in BOOLEAN : (a <=> b) => a = b
    BY Zenon
  <2> QED BY <2>6, <2>7, <2>8, Zenon
<1>2. f = [i \in D |-> f[i]]
  BY Zenon
<1>3. IsForming(s, f)
  <2> HIDE DEF f
  <2> QED BY <1>1, <1>2, Zenon DEF IsForming
<1> QED BY <1>3, Zenon DEF Forming

\* The code point of at most three continuation bytes.
LEMMA CodeExists ==
    ASSUME NEW s, NEW i, NEW extra \in 1..3, NEW low
    PROVE  IsCode(s, i, extra, low, Code(s, i, extra, low))
<1> DEFINE v0 == s[i] % low
<1> DEFINE v1 == v0 * 64 + (s[i + 1] % 64)
<1> DEFINE v2 == v1 * 64 + (s[i + 2] % 64)
<1> DEFINE v3 == v2 * 64 + (s[i + 3] % 64)
<1> DEFINE f == [k \in 0..extra |-> IF k = 0 THEN v0 ELSE IF k = 1 THEN v1
                                    ELSE IF k = 2 THEN v2 ELSE v3]
<1>1. ASSUME NEW k \in 0..extra PROVE f[k] = CodeAt(s, i, low, k, f)
  <2>1. CASE k = 0
    BY <2>1, SMT DEF CodeAt
  <2>2. CASE k = 1
    <3>1. f[1] = v1 /\ f[0] = v0
      BY <2>2, SMT
    <3>2. k - 1 = 0 /\ i + k = i + 1 /\ k # 0
      BY <2>2, SMT
    <3> QED BY <2>2, <3>1, <3>2 DEF CodeAt
  <2>3. CASE k = 2
    <3>1. f[2] = v2 /\ f[1] = v1
      BY <2>3, SMT
    <3>2. k - 1 = 1 /\ i + k = i + 2 /\ k # 0
      BY <2>3, SMT
    <3> QED BY <2>3, <3>1, <3>2 DEF CodeAt
  <2>4. CASE k = 3
    <3>1. f[3] = v3 /\ f[2] = v2
      BY <2>4, SMT
    <3>2. k - 1 = 2 /\ i + k = i + 3 /\ k # 0
      BY <2>4, SMT
    <3> QED BY <2>4, <3>1, <3>2 DEF CodeAt
  <2> QED BY <2>1, <2>2, <2>3, <2>4, SMT
<1>2. f = [k \in 0..extra |-> f[k]]
  BY Zenon
<1>3. IsCode(s, i, extra, low, f)
  <2> HIDE DEF f
  <2> QED BY <1>1, <1>2, Zenon DEF IsCode
<1> QED BY <1>3, Zenon DEF Code

LEMMA SubFact ==
    ASSUME NEW s \in Seq(Byte), NEW i \in 1..Len(s), NEW e \in 0..3, i + e <= Len(s)
    PROVE  LET c == SubSeq(s, i, i + e) IN
           Len(c) = e + 1 /\ \A k \in 0..e : c[k + 1] = s[i + k] /\ s[i + k] \in Byte
<1> DEFINE c == SubSeq(s, i, i + e)
<1>1. Len(s) \in Nat /\ i \in Nat /\ e \in Nat
  BY SMT
<1>2. Len(c) = e + 1
  BY <1>1, SMT
<1>3. ASSUME NEW k \in 0..e PROVE c[k + 1] = s[i + k] /\ s[i + k] \in Byte
  <2>1. k + 1 \in 1..(i + e - i + 1) /\ i + (k + 1) - 1 = i + k /\ i + k \in 1..Len(s)
    BY <1>1, SMT
  <2>2. c[k + 1] = s[i + (k + 1) - 1]
    BY <1>1, <2>1, SMT
  <2> QED BY <2>1, <2>2, SMT
<1> QED BY <1>2, <1>3

\* The value of a code point, and the bits of its first byte.
LEMMA CodeValue ==
    ASSUME NEW s, NEW i, NEW extra \in 1..3
    PROVE  LET cp == CodePoint(s, i, extra) IN
           /\ extra = 1 => cp = (s[i] % 32) * 64 + (s[i + 1] % 64)
           /\ extra = 2 => cp = ((s[i] % 16) * 64 + (s[i + 1] % 64)) * 64 + (s[i + 2] % 64)
           /\ extra = 3 => cp = (((s[i] % 8) * 64 + (s[i + 1] % 64)) * 64 + (s[i + 2] % 64)) * 64
                                  + (s[i + 3] % 64)
<1> DEFINE low == Low(extra)
<1> DEFINE f == Code(s, i, extra, low)
<1>1. CodePoint(s, i, extra) = f[extra]
  BY CodeFact
<1>2. f = [k \in 0..extra |-> CodeAt(s, i, low, k, f)]
  <2>1. IsCode(s, i, extra, low, f)
    <3> HIDE DEF low
    <3> QED BY CodeExists
  <2> HIDE DEF f, low
  <2> QED BY <2>1 DEF IsCode
<1>3. \A k \in 0..extra : f[k] = CodeAt(s, i, low, k, f)
  <2> HIDE DEF f, low
  <2> QED BY <1>2, Zenon
<1> HIDE DEF f
<1>4. f[0] = s[i] % low
  BY <1>3, SMT DEF CodeAt
<1>5. f[1] = f[0] * 64 + (s[i + 1] % 64)
  <2>1. f[1] = CodeAt(s, i, low, 1, f)
    BY <1>3, SMT
  <2> QED BY <2>1, SMT DEF CodeAt
<1>6. extra >= 2 => f[2] = f[1] * 64 + (s[i + 2] % 64)
  <2>1. extra >= 2 => f[2] = CodeAt(s, i, low, 2, f)
    BY <1>3, SMT
  <2> QED BY <2>1, SMT DEF CodeAt
<1>7. extra = 3 => f[3] = f[2] * 64 + (s[i + 3] % 64)
  <2>1. extra = 3 => f[3] = CodeAt(s, i, low, 3, f)
    BY <1>3, SMT
  <2> QED BY <2>1, SMT DEF CodeAt
<1>8. CASE extra = 1
  BY <1>1, <1>4, <1>5, <1>8, SMT DEF Low
<1>9. CASE extra = 2
  BY <1>1, <1>4, <1>5, <1>6, <1>9, SMT DEF Low
<1>10. CASE extra = 3
  BY <1>1, <1>4, <1>5, <1>6, <1>7, <1>10, SMT DEF Low
<1> QED BY <1>8, <1>9, <1>10, SMT

\* Bytes that pass the test of a code point are in the ranges of the standard.
LEMMA TwoBytes ==
    ASSUME NEW a \in Byte, NEW b \in Byte, Extra(a) = 1, b \div 64 = 2,
           ~Rejected(1, (a % 32) * 64 + (b % 64))
    PROVE  a \in 194..223 /\ b \in Following
<1>1. a \div 32 = 6
  BY SMT DEF Extra
<1>2. ~((a % 32) * 64 + (b % 64) < 128)
  BY SMT DEF Rejected
<1>3. a \in 0..255 /\ b \in 0..255
  BY DEF Byte
<1> QED BY <1>1, <1>2, <1>3, SMT DEF Following

LEMMA TwoMoreFact ==
    ASSUME NEW cp \in Int, ~Rejected(2, cp)
    PROVE  cp >= 2048 /\ (cp < 55296 \/ cp > 57343)
  BY SMT DEF Rejected

LEMMA ThreeMoreFact ==
    ASSUME NEW cp \in Int, ~Rejected(3, cp)
    PROVE  cp >= 65536 /\ cp <= 1114111
  BY SMT DEF Rejected

LEMMA ThreeBytes ==
    ASSUME NEW a \in Byte, NEW b \in Byte, NEW c \in Byte,
           Extra(a) = 2, b \div 64 = 2, c \div 64 = 2,
           ~Rejected(2, ((a % 16) * 64 + (b % 64)) * 64 + (c % 64))
    PROVE  /\ c \in Following
           /\ \/ a = 224 /\ b \in 160..191
              \/ a \in (225..236) \cup {238, 239} /\ b \in Following
              \/ a = 237 /\ b \in 128..159
<1> DEFINE cp == ((a % 16) * 64 + (b % 64)) * 64 + (c % 64)
<1>1. a \div 16 = 14
  BY SMT DEF Extra
<1>2. a \in 0..255 /\ b \in 0..255 /\ c \in 0..255
  BY DEF Byte
<1>3. cp \in Int
  BY <1>2, SMT
<1>0. ~Rejected(2, cp)
  OBVIOUS
<1>4. cp >= 2048 /\ (cp < 55296 \/ cp > 57343)
  <2> HIDE DEF cp
  <2> QED BY <1>0, <1>3, TwoMoreFact
<1>5. a \in 224..239 /\ b \in 128..191 /\ c \in 128..191
  BY <1>1, <1>2, SMT
<1>6. a % 16 = a - 224 /\ b % 64 = b - 128 /\ c % 64 = c - 128
  BY <1>5, SMT
<1>7. cp = ((a - 224) * 64 + (b - 128)) * 64 + (c - 128)
  BY <1>6, SMT
<1> HIDE DEF cp
<1>8. /\ a = 224 => b >= 160
      /\ a = 237 => b <= 159
  BY <1>4, <1>5, <1>7, SMT
<1> QED BY <1>5, <1>8, SMT DEF Following

LEMMA FourBytes ==
    ASSUME NEW a \in Byte, NEW b \in Byte, NEW c \in Byte, NEW d \in Byte,
           Extra(a) = 3, b \div 64 = 2, c \div 64 = 2, d \div 64 = 2,
           ~Rejected(3, (((a % 8) * 64 + (b % 64)) * 64 + (c % 64)) * 64 + (d % 64))
    PROVE  /\ c \in Following /\ d \in Following
           /\ \/ a = 240 /\ b \in 144..191
              \/ a \in 241..243 /\ b \in Following
              \/ a = 244 /\ b \in 128..143
<1> DEFINE cp == (((a % 8) * 64 + (b % 64)) * 64 + (c % 64)) * 64 + (d % 64)
<1>1. a \div 8 = 30
  BY SMT DEF Extra
<1>2. a \in 0..255 /\ b \in 0..255 /\ c \in 0..255 /\ d \in 0..255
  BY DEF Byte
<1>3. cp \in Int
  BY <1>2, SMT
<1>0. ~Rejected(3, cp)
  OBVIOUS
<1>4. cp >= 65536 /\ cp <= 1114111
  <2> HIDE DEF cp
  <2> QED BY <1>0, <1>3, ThreeMoreFact
<1>5. a \in 240..247 /\ b \in 128..191 /\ c \in 128..191 /\ d \in 128..191
  BY <1>1, <1>2, SMT
<1>6. a % 8 = a - 240 /\ b % 64 = b - 128 /\ c % 64 = c - 128 /\ d % 64 = d - 128
  BY <1>5, SMT
<1>7. cp = (((a - 240) * 64 + (b - 128)) * 64 + (c - 128)) * 64 + (d - 128)
  BY <1>6, SMT
<1> HIDE DEF cp
<1>8. /\ a <= 244
      /\ a = 240 => b >= 144
      /\ a = 244 => b <= 143
  BY <1>4, <1>5, <1>7, SMT
<1> QED BY <1>5, <1>8, SMT DEF Following

\* A position that is valid begins a well-formed character.
LEMMA CharFact ==
    ASSUME NEW s \in Seq(Byte), NEW i \in 1..Len(s), ValidHere(s, i)
    PROVE  \E e \in 0..3 : /\ i + e <= Len(s) /\ NextAt(s, i) = i + e + 1
                           /\ WellFormedChar(SubSeq(s, i, i + e))
<1> DEFINE e == Extra(s[i])
<1> DEFINE c == SubSeq(s, i, i + e)
<1> DEFINE cp == CodePoint(s, i, e)
<1>1. /\ e >= 0 /\ i + e <= Len(s)
      /\ \A k \in 1..e : s[i + k] \div 64 = 2
      /\ e > 0 => ~Rejected(e, cp)
  BY SMT DEF ValidHere
<1>2. e \in 0..3
  BY <1>1, ExtraFact, SMT
<1>3. NextAt(s, i) = i + e + 1
  BY Zenon DEF NextAt
<1>4. s[i] \in Byte
  BY SMT
<1>5. /\ e = 1 => cp = (s[i] % 32) * 64 + (s[i + 1] % 64)
      /\ e = 2 => cp = ((s[i] % 16) * 64 + (s[i + 1] % 64)) * 64 + (s[i + 2] % 64)
      /\ e = 3 => cp = (((s[i] % 8) * 64 + (s[i + 1] % 64)) * 64 + (s[i + 2] % 64)) * 64
                          + (s[i + 3] % 64)
  <2>1. CASE e \in 1..3
    <3> HIDE DEF e
    <3> QED BY <2>1, CodeValue, SMTT(30)
  <2>2. CASE e = 0
    <3> HIDE DEF cp, e
    <3> QED BY <2>2, SMT
  <2> HIDE DEF cp, e
  <2> QED BY <1>2, <2>1, <2>2, SMT
<1>6. Len(c) = e + 1 /\ \A k \in 0..e : c[k + 1] = s[i + k] /\ s[i + k] \in Byte
  <2> HIDE DEF e
  <2> QED BY <1>1, <1>2, SubFact, SMT
<1>7. e = Extra(s[i])
  BY Zenon
<1> HIDE DEF e, c, cp
<1>8. ASSUME e = 0 PROVE WellFormedChar(c)
  <2>1. Len(c) = 1 /\ c[1] = s[i]
    BY <1>6, <1>8, SMT
  <2>2. s[i] < 128
    BY <1>7, <1>8, SMT DEF Extra
  <2>3. s[i] \in 0..127
    <3> DEFINE x == s[i]
    <3>1. x \in 0..255 /\ x < 128
      BY <1>4, <2>2, SMT DEF Byte
    <3> HIDE DEF x
    <3>2. x \in 0..127
      BY <3>1, SMT
    <3> QED BY <3>2 DEF x
  <2> QED BY <2>1, <2>3, SMT DEF WellFormedChar
<1>9. ASSUME e = 1 PROVE WellFormedChar(c)
  <2>1. Len(c) = 2 /\ c[1] = s[i] /\ c[2] = s[i + 1] /\ s[i + 1] \in Byte
    BY <1>4, <1>6, <1>9, SMT
  <2>2. s[i + 1] \div 64 = 2
    BY <1>1, <1>9, SMT
  <2>3. ~Rejected(1, (s[i] % 32) * 64 + (s[i + 1] % 64))
    BY <1>1, <1>5, <1>9, SMT
  <2>4. s[i] \in 194..223 /\ s[i + 1] \in Following
    BY <1>4, <1>7, <1>9, <2>1, <2>2, <2>3, TwoBytes
  <2> QED BY <2>1, <2>4, SMT DEF WellFormedChar
<1>10. ASSUME e = 2 PROVE WellFormedChar(c)
  <2>1. /\ Len(c) = 3 /\ c[1] = s[i] /\ c[2] = s[i + 1] /\ c[3] = s[i + 2]
        /\ s[i + 1] \in Byte /\ s[i + 2] \in Byte
    BY <1>4, <1>6, <1>10, SMT
  <2>2. s[i + 1] \div 64 = 2 /\ s[i + 2] \div 64 = 2
    BY <1>1, <1>10, SMT
  <2>3. ~Rejected(2, ((s[i] % 16) * 64 + (s[i + 1] % 64)) * 64 + (s[i + 2] % 64))
    BY <1>1, <1>5, <1>10, SMT
  <2>4. /\ s[i + 2] \in Following
        /\ \/ s[i] = 224 /\ s[i + 1] \in 160..191
           \/ s[i] \in (225..236) \cup {238, 239} /\ s[i + 1] \in Following
           \/ s[i] = 237 /\ s[i + 1] \in 128..159
    <3> DEFINE x == s[i]
    <3> DEFINE y == s[i + 1]
    <3> DEFINE z == s[i + 2]
    <3>1. /\ x \in Byte /\ y \in Byte /\ z \in Byte
          /\ Extra(x) = 2 /\ y \div 64 = 2 /\ z \div 64 = 2
          /\ ~Rejected(2, ((x % 16) * 64 + (y % 64)) * 64 + (z % 64))
      BY <1>4, <1>7, <1>10, <2>1, <2>2, <2>3, SMT
    <3> HIDE DEF x, y, z
    <3>2. /\ z \in Following
          /\ \/ x = 224 /\ y \in 160..191
             \/ x \in (225..236) \cup {238, 239} /\ y \in Following
             \/ x = 237 /\ y \in 128..159
      BY <3>1, ThreeBytes, SMT
    <3> QED BY <3>2, Zenon DEF x, y, z
  <2> QED BY <2>1, <2>4, SMT DEF WellFormedChar
<1>11. ASSUME e = 3 PROVE WellFormedChar(c)
  <2>1. /\ Len(c) = 4 /\ c[1] = s[i] /\ c[2] = s[i + 1] /\ c[3] = s[i + 2] /\ c[4] = s[i + 3]
        /\ s[i + 1] \in Byte /\ s[i + 2] \in Byte /\ s[i + 3] \in Byte
    BY <1>4, <1>6, <1>11, SMT
  <2>2. s[i + 1] \div 64 = 2 /\ s[i + 2] \div 64 = 2 /\ s[i + 3] \div 64 = 2
    BY <1>1, <1>11, SMT
  <2>3. ~Rejected(3, (((s[i] % 8) * 64 + (s[i + 1] % 64)) * 64 + (s[i + 2] % 64)) * 64
                       + (s[i + 3] % 64))
    BY <1>1, <1>5, <1>11, SMT
  <2>4. /\ s[i + 2] \in Following /\ s[i + 3] \in Following
        /\ \/ s[i] = 240 /\ s[i + 1] \in 144..191
           \/ s[i] \in 241..243 /\ s[i + 1] \in Following
           \/ s[i] = 244 /\ s[i + 1] \in 128..143
    <3> DEFINE x == s[i]
    <3> DEFINE y == s[i + 1]
    <3> DEFINE z == s[i + 2]
    <3> DEFINE w == s[i + 3]
    <3>1. /\ x \in Byte /\ y \in Byte /\ z \in Byte /\ w \in Byte
          /\ Extra(x) = 3 /\ y \div 64 = 2 /\ z \div 64 = 2 /\ w \div 64 = 2
          /\ ~Rejected(3, (((x % 8) * 64 + (y % 64)) * 64 + (z % 64)) * 64 + (w % 64))
      BY <1>4, <1>7, <1>11, <2>1, <2>2, <2>3, SMT
    <3> HIDE DEF x, y, z, w
    <3>2. /\ z \in Following /\ w \in Following
          /\ \/ x = 240 /\ y \in 144..191
             \/ x \in 241..243 /\ y \in Following
             \/ x = 244 /\ y \in 128..143
      BY <3>1, FourBytes, SMT
    <3> QED BY <3>2, Zenon DEF x, y, z, w
  <2> QED BY <2>1, <2>4, SMT DEF WellFormedChar
<1>12. WellFormedChar(c)
  BY <1>2, <1>8, <1>9, <1>10, <1>11, SMT
<1> QED BY <1>1, <1>2, <1>3, <1>12, Zenon DEF c

\* What IsValidUtf8 accepts is UTF-8: were some valid position not well formed,
\* the last of them would begin a well-formed character, and what follows it
\* would be well formed.
LEMMA Utf8Fact ==
    ASSUME NEW s \in Seq(Byte), IsValidUtf8(s)
    PROVE  WellFormed(s)
<1> DEFINE n == Len(s)
<1> DEFINE f == Validity(s)
<1> DEFINE g == Forming(s)
<1>1. n \in Nat
  BY SMT
<1>2. ASSUME NEW i \in 1..(n + 1)
      PROVE  f[i] <=> i > n \/ (ValidHere(s, i) /\ f[NextAt(s, i)])
  <2>1. f = [j \in 1..(n + 4) |-> ValidAt(s, j, f)]
    BY ValidityExists, Zenon DEF IsValidity
  <2>2. i \in 1..(n + 4)
    BY <1>1, SMT
  <2> HIDE DEF f, n
  <2>3. f[i] = ValidAt(s, i, f)
    BY <2>1, <2>2, Zenon
  <2> QED BY <2>3, ValidAtFact, Zenon DEF n
<1>3. ASSUME NEW i \in 1..(n + 1)
      PROVE  g[i] <=> i = n + 1 \/ \E j \in i..n : j < i + 4 /\ WellFormedChar(SubSeq(s, i, j)) /\ g[j + 1]
  <2>1. g = [j \in 1..(n + 1) |-> FormedAt(s, j, g)]
    BY FormingExists, Zenon DEF IsForming
  <2> HIDE DEF g
  <2>2. g[i] = FormedAt(s, i, g)
    BY <2>1, Zenon
  <2> QED BY <2>2, Zenon DEF FormedAt
<1>4. f[1]
  BY ValidityFact, Zenon
<1> HIDE DEF f, g
<1> DEFINE T == {d \in 0..n : f[n + 1 - d] /\ ~g[n + 1 - d]}
<1>5. T = {}
  <2> SUFFICES ASSUME T # {} PROVE FALSE
    OBVIOUS
  <2>1. T \in SUBSET Nat
    BY <1>1, SMT
  <2>2. PICK d \in T : \A y \in T : d <= y
    <3> HIDE DEF T
    <3> QED BY <2>1, Least
  <2> DEFINE i == n + 1 - d
  <2>3. d \in 0..n /\ f[i] /\ ~g[i]
    BY <2>2, Zenon
  <2>4. i \in 1..(n + 1)
    BY <1>1, <2>3, SMT
  <2> HIDE DEF i
  <2>5. i # n + 1
    BY <1>3, <2>3, <2>4, Zenon
  <2>6. i \in 1..n
    <3> HIDE DEF n
    <3> QED BY <1>1, <2>4, <2>5, SMT
  <2>7. ValidHere(s, i) /\ f[NextAt(s, i)]
    <3>1. ~(i > n)
      <4> HIDE DEF n
      <4> QED BY <1>1, <2>6, SMT
    <3> QED BY <1>2, <2>3, <2>4, <3>1, Zenon
  <2>8. PICK e \in 0..3 : /\ i + e <= n /\ NextAt(s, i) = i + e + 1
                          /\ WellFormedChar(SubSeq(s, i, i + e))
    BY <2>6, <2>7, CharFact, Zenon
  <2> HIDE DEF n
  <2>9. /\ i + e \in i..n /\ i + e < i + 4 /\ (i + e) + 1 = i + e + 1
    BY <1>1, <2>6, <2>8, SMT
  <2>10. ~g[i + e + 1]
    BY <1>3, <2>3, <2>4, <2>8, <2>9, Zenon
  <2> DEFINE y == n - (i + e)
  <2>11. y \in 0..n /\ n + 1 - y = i + e + 1 /\ y < d
    BY <1>1, <2>3, <2>6, <2>8, <2>9, SMT DEF i
  <2>12. f[n + 1 - y] /\ ~g[n + 1 - y]
    <3> HIDE DEF y
    <3> QED BY <2>7, <2>8, <2>10, <2>11, Zenon
  <2> HIDE DEF y
  <2>13. y \in T
    BY <2>11, <2>12, Zenon
  <2>14. d <= y
    <3> HIDE DEF T
    <3> QED BY <2>2, <2>13, Zenon
  <2> QED BY <1>1, <2>3, <2>11, <2>14, SMT
<1>6. n \in 0..n /\ n + 1 - n = 1
  <2> HIDE DEF n
  <2> QED BY <1>1, SMT
<1>7. g[1]
  <2> HIDE DEF n
  <2> QED BY <1>4, <1>5, <1>6, Zenon
<1> QED BY <1>7, FormingFact, Zenon DEF g

-----------------------------------------------------------------------------
(* The envelope *)

\* Whatever bytes a body has, bh_result_json gives them back: the envelope's text
\* is the body, or Base64 of it, and a text it calls UTF-8 is.
THEOREM EnvelopeKeepsBody ==
    ASSUME NEW body \in Seq(Byte)
    PROVE  /\ Recovered(Envelope(body)) = body
           /\ Envelope(body).encoding = "utf8" => WellFormed(Envelope(body).text)
<1>1. CASE IsValidUtf8(body)
  <2>1. WellFormed(body)
    BY <1>1, Utf8Fact
  <2>2. Envelope(body) = [encoding |-> "utf8", text |-> body]
    BY <1>1 DEF Envelope
  <2> QED BY <2>1, <2>2 DEF Recovered
<1>2. CASE ~IsValidUtf8(body)
  <2>1. Base64Decode(Base64Encode(body)) = body
    BY DecodeFact
  <2>2. Envelope(body) = [encoding |-> "base64", text |-> Base64Encode(body)]
    BY <1>2 DEF Envelope
  <2> QED BY <2>1, <2>2 DEF Recovered
<1> QED BY <1>1, <1>2

-----------------------------------------------------------------------------
(* The groups of rows *)

\* The last row of the group that begins at a row.
LastIn(rows, row) ==
    CHOOSE e \in row..Len(rows) :
        /\ \A k \in row..e : rows[k].config = rows[row].config
        /\ e < Len(rows) => rows[e + 1].config # rows[row].config

LastOf(t, row) == LastIn(Rows(t), row)

LEMMA GroupEndFact == ASSUME NEW t PROVE GroupEnd(t) = LastOf(t, th[t].row)
  BY DEF GroupEnd, LastOf, LastIn, Config

LEMMA LastFact ==
    ASSUME NEW t, NEW n \in Nat, Len(Rows(t)) = n, NEW row \in 1..n
    PROVE  /\ LastOf(t, row) \in row..n
           /\ \A k \in row..LastOf(t, row) : Config(t, k) = Config(t, row)
<1> DEFINE T == {e \in row..n : e < n => Config(t, e + 1) # Config(t, row)}
<1>1. T \in SUBSET Nat /\ n \in T
  OBVIOUS
<1>2. PICK e \in T : \A y \in T : e <= y
  <2> HIDE DEF T
  <2> QED BY <1>1, Least
<1>3. ASSUME NEW k \in row..e PROVE Config(t, k) = Config(t, row)
  <2>1. CASE k = row
    BY <2>1
  <2>2. CASE k # row
    <3>1. k - 1 \in row..n /\ k - 1 < e /\ k - 1 < n /\ (k - 1) + 1 = k
      BY <2>2
    <3>2. k - 1 \notin T
      BY <1>2, <3>1
    <3> QED BY <3>1, <3>2
  <2> QED BY <2>1, <2>2
<1>4. \E x \in row..n : /\ \A k \in row..x : Config(t, k) = Config(t, row)
                        /\ x < n => Config(t, x + 1) # Config(t, row)
  BY <1>3
<1> QED BY <1>4 DEF LastOf, LastIn, Config

-----------------------------------------------------------------------------
(* Types *)

PCs == {"call", "group", "add", "perform", "write", "maps", "fail", "done", "error"}
Causes == {"", "required", "add", "perform", "json"}
Messages == [by : Threads \cup {"nobody"}, what : Causes]

\* A body as it came, or in an envelope.
BodyType == Seq(0..255) \cup {Envelope(b) : b \in Seq(0..255)}
Configs == STRING \cup {""}
ResultType == [row : Nat, config : Configs, body : BodyType]
Pairs == Seq(Nat \X Nat)
EntryType == [offset : Nat, length : Nat]

Locals(t) ==
    [pc : PCs, row : Nat, r : Nat, open : BOOLEAN, pending : Seq(Nat),
     results : Seq(ResultType), output : [1..Len(Rows(t)) -> ResultType],
     headers : [1..Len(Rows(t)) -> Pairs], entries : [1..Len(Rows(t)) -> EntryType],
     child : Pairs, offset : Nat, reported : Messages, cause : Causes, sent : Seq(Nat)]

-----------------------------------------------------------------------------
(* The invariant, of a thread t with the locals x and the message m of g_errmsg *)

\* The batch is open from bh_batch_new until it is freed.
OpenOK(x) == x.open => x.pc \in {"add", "perform", "write", "fail"}

\* A failure is reported with the message of the step that failed, which nothing
\* overwrites before it is read.
ErrorOK(t, x, m) ==
    /\ x.pc \notin {"fail", "error"} => x.reported = None /\ x.cause = ""
    /\ x.pc = "fail" =>
          /\ x.cause # "" /\ m = Message(t, x.cause)
          /\ x.reported # None => x.reported = Message(t, x.cause)
    /\ x.pc = "error" => x.reported = Message(t, x.cause)

\* The requests that went out are those of the groups before this one, and of
\* this one once it is performed.
SentOK(t, x) ==
    /\ \A k \in 1..Len(x.sent) : x.sent[k] = k
    /\ x.pc = "call" => x.row = 1
    /\ 1 <= x.row /\ x.row <= Len(Rows(t)) + 1
    /\ x.pc \in {"add", "perform", "write"} => x.row <= Len(Rows(t))
    /\ x.pc \in {"call", "group", "add", "perform"} => Len(x.sent) = x.row - 1
    /\ x.pc = "write" => Len(x.sent) = LastOf(t, x.row)
    /\ x.pc = "maps" \/ (x.pc = "done" /\ ~Rejects(t)) =>
          x.row = Len(Rows(t)) + 1 /\ Len(x.sent) = Len(Rows(t))
    /\ x.cause \in {"required", "add"} => Len(x.sent) = x.row - 1
    /\ x.cause = "json" => Len(x.sent) = x.row

\* What is pending are the rows of the group that have been added, and the
\* results are theirs, in that order.
BatchOK(t, x) ==
    /\ x.pc \in {"add", "write"} => x.row <= x.r /\ x.r <= LastOf(t, x.row) + 1
    /\ x.pc = "add" => Len(x.pending) = x.r - x.row
    /\ x.pc = "perform" => Len(x.pending) = LastOf(t, x.row) + 1 - x.row
    /\ x.pc \in {"add", "perform"} =>
          \A k \in 1..Len(x.pending) : x.pending[k] = x.row + k - 1
    /\ x.pc = "write" =>
          /\ Len(x.results) = LastOf(t, x.row) + 1 - x.row
          /\ \A k \in 1..Len(x.results) :
                x.results[k] = [row |-> x.row + k - 1, config |-> Config(t, x.row),
                                body |-> Rows(t)[x.row + k - 1].body]

\* The rows that have their result.
HasResult(t, x, k) ==
    \/ x.pc \in {"group", "add", "perform"} /\ k < x.row
    \/ x.pc = "write" /\ k < x.r
    \/ x.pc = "maps" \/ (x.pc = "done" /\ ~Rejects(t))

OutputOK(t, x) ==
    \A k \in 1..Len(Rows(t)) : HasResult(t, x, k) =>
        /\ x.output[k].row = k
        /\ x.output[k].config = Config(t, k)
        /\ x.output[k].body = IF AsJson(t) THEN Envelope(Rows(t)[k].body) ELSE Rows(t)[k].body
        /\ x.headers[k] = [j \in 1..Rows(t)[k].headers |-> <<k, j>>]

\* The entries that are written designate each row's own pairs in the list child.
HasEntry(t, x, k) ==
    \/ x.pc = "maps" /\ k < x.r
    \/ x.pc = "done" /\ Host(t) = "duckdb"

MapsOK(t, x) ==
    /\ Len(x.child) = x.offset
    /\ x.pc = "maps" => 1 <= x.r /\ x.r <= Len(Rows(t)) + 1
    /\ \A k \in 1..Len(Rows(t)) : HasEntry(t, x, k) =>
          LET e == x.entries[k] IN
          /\ e.length = Rows(t)[k].headers
          /\ e.offset + e.length <= x.offset
          /\ \A j \in 1..e.length : x.child[e.offset + j] = <<k, j>>

ThreadOK(t, x, m) ==
    /\ OpenOK(x) /\ ErrorOK(t, x, m) /\ SentOK(t, x)
    /\ BatchOK(t, x) /\ OutputOK(t, x) /\ MapsOK(t, x)

HostInv ==
    /\ call \in Calls
    /\ errmsg \in [Threads -> Messages]
    /\ th = [t \in Threads |-> th[t]]
    /\ \A t \in Threads : th[t] \in Locals(t) /\ ThreadOK(t, th[t], errmsg[t])

LEMMA Typed ==
    ASSUME HostInv, NEW t \in Threads
    PROVE  /\ th[t] \in Locals(t) /\ ThreadOK(t, th[t], errmsg[t]) /\ errmsg[t] \in Messages
           /\ Rows(t) \in Seq(RowType) /\ Len(Rows(t)) \in Nat
           /\ Host(t) \in {"duckdb", "request", "verb", "body", "python"}
           /\ Host(t) \in {"request", "verb", "body"} => Len(Rows(t)) = 1
  BY HostAssumption DEF HostInv, Rows, Host

LEMMA Own ==
    ASSUME HostInv, NEW t \in Threads
    PROVE  th[t] \in Locals(t)
  BY Typed

LEMMA Fields ==
    ASSUME HostInv, NEW t \in Threads
    PROVE  /\ th[t].pc \in PCs /\ th[t].row \in Nat /\ th[t].r \in Nat /\ th[t].open \in BOOLEAN
           /\ th[t].pending \in Seq(Nat) /\ th[t].results \in Seq(ResultType)
           /\ th[t].child \in Pairs /\ th[t].offset \in Nat
           /\ th[t].reported \in Messages /\ th[t].cause \in Causes /\ th[t].sent \in Seq(Nat)
           /\ Len(th[t].sent) \in Nat /\ Len(th[t].pending) \in Nat /\ Len(th[t].results) \in Nat
  BY Typed DEF Locals

\* A step of thread t leaves the others where they are.
LEMMA Lift ==
    ASSUME HostInv, NEW t \in Threads, NEW x \in Locals(t), NEW m \in Messages,
           th' = [th EXCEPT ![t] = x], errmsg' = [errmsg EXCEPT ![t] = m], call' = call,
           ThreadOK(t, x, m)
    PROVE  HostInv'
<1>1. ASSUME NEW u \in Threads, NEW y, NEW n, th'[u] = y, errmsg'[u] = n, ThreadOK(u, y, n)
      PROVE  ThreadOK(u, th[u], errmsg[u])'
  <2>1. /\ Rows(u)' = Rows(u) /\ Host(u)' = Host(u) /\ (Rejects(u)' <=> Rejects(u))
        /\ (AsJson(u)' <=> AsJson(u))
    BY DEF Rejects, AsJson, Rows, Host
  <2>2. OpenOK(th[u])'
    BY <1>1 DEF ThreadOK, OpenOK
  <2>3. ErrorOK(u, th[u], errmsg[u])'
    BY <1>1 DEF ThreadOK, ErrorOK
  <2>4. SentOK(u, th[u])'
    BY <1>1, <2>1 DEF ThreadOK, SentOK, LastOf
  <2>5. BatchOK(u, th[u])'
    BY <1>1, <2>1 DEF ThreadOK, BatchOK, LastOf, Config
  <2>6. OutputOK(u, th[u])'
    BY <1>1, <2>1 DEF ThreadOK, OutputOK, HasResult, Config
  <2>7. MapsOK(u, th[u])'
    BY <1>1, <2>1, ZenonT(40) DEF ThreadOK, MapsOK, HasEntry
  <2> QED BY <2>2, <2>3, <2>4, <2>5, <2>6, <2>7 DEF ThreadOK
<1>2. /\ th = [u \in Threads |-> th[u]] /\ errmsg \in [Threads -> Messages]
      /\ \A u \in Threads : th[u] \in Locals(u) /\ ThreadOK(u, th[u], errmsg[u])
  BY DEF HostInv
<1>3. /\ th' = [u \in Threads |-> th'[u]] /\ errmsg' \in [Threads -> Messages]
      /\ th'[t] = x /\ errmsg'[t] = m
      /\ \A u \in Threads : u # t => th'[u] = th[u] /\ errmsg'[u] = errmsg[u]
  BY <1>2
<1>4. ASSUME NEW u \in Threads PROVE ThreadOK(u, th[u], errmsg[u])'
  BY <1>1, <1>2, <1>3
<1>5. ASSUME NEW u \in Threads PROVE (th[u] \in Locals(u))'
  BY <1>2, <1>3 DEF Locals, Rows
<1> QED BY <1>3, <1>4, <1>5 DEF HostInv

LEMMA HostInitInv == Init => HostInv
<1> SUFFICES ASSUME Init PROVE HostInv
  OBVIOUS
<1>1. None \in Messages
  BY DEF None, Messages, Causes
<1>2. NoResult \in ResultType
  BY DEF NoResult, ResultType, Configs, BodyType
<1>3. ASSUME NEW t \in Threads
      PROVE  th[t] \in Locals(t) /\ ThreadOK(t, th[t], errmsg[t])
  <2> DEFINE n == Len(Rows(t))
  <2>1. call \in Calls
    BY DEF Init
  <2>2. Rows(t) \in Seq(RowType) /\ n \in Nat
    BY <2>1, HostAssumption DEF Rows
  <2>3. /\ [k \in 1..n |-> NoResult] \in [1..n -> ResultType]
        /\ [k \in 1..n |-> <<>>] \in [1..n -> Pairs]
        /\ [k \in 1..n |-> [offset |-> 0, length |-> 0]] \in [1..n -> EntryType]
        /\ <<>> \in Seq(Nat) /\ <<>> \in Seq(ResultType) /\ <<>> \in Pairs
    BY <1>2 DEF Pairs, EntryType
  <2>4. PICK o \in [1..n -> ResultType], h \in [1..n -> Pairs], e \in [1..n -> EntryType] :
          th[t] = [pc |-> "call", row |-> 1, r |-> 1, open |-> FALSE, pending |-> <<>>,
                   results |-> <<>>, output |-> o, headers |-> h, entries |-> e, child |-> <<>>,
                   offset |-> 0, reported |-> None, cause |-> "", sent |-> <<>>]
    BY <2>3 DEF Init
  <2> HIDE DEF n
  <2>5. "call" \in PCs /\ "" \in Causes
    BY DEF PCs, Causes
  <2> DEFINE x == th[t]
  <2>6. x = [pc |-> "call", row |-> 1, r |-> 1, open |-> FALSE, pending |-> <<>>,
             results |-> <<>>, output |-> o, headers |-> h, entries |-> e, child |-> <<>>,
             offset |-> 0, reported |-> None, cause |-> "", sent |-> <<>>]
    BY <2>4
  <2> HIDE DEF x
  <2>7. /\ x.pc = "call" /\ x.row = 1 /\ ~x.open /\ x.offset = 0 /\ x.reported = None
        /\ x.cause = "" /\ x.sent = <<>> /\ Len(x.child) = 0
    BY <2>6
  <2>8. x \in Locals(t)
    BY <1>1, <2>3, <2>5, <2>6 DEF Locals, n
  <2>9. OpenOK(x) /\ ErrorOK(t, x, errmsg[t])
    BY <2>7 DEF OpenOK, ErrorOK
  <2>10. SentOK(t, x)
    <3>1. x.row = 1
      BY <2>7
    <3>2. 1 <= x.row /\ x.row - 1 = 0
      BY <3>1
    <3>3. x.row <= Len(Rows(t)) + 1
      BY <2>2, <3>1 DEF n
    <3>4. Len(x.sent) = 0
      BY <2>7
    <3>5. 1..Len(x.sent) = {}
      BY <3>4
    <3>6. x.pc = "call" /\ x.cause = ""
      BY <2>7
    <3> QED BY <3>1, <3>2, <3>3, <3>4, <3>5, <3>6 DEF SentOK
  <2>11. BatchOK(t, x) /\ OutputOK(t, x)
    BY <2>7 DEF BatchOK, OutputOK, HasResult
  <2>12. MapsOK(t, x)
    BY <2>7 DEF MapsOK, HasEntry
  <2> QED BY <2>8, <2>9, <2>10, <2>11, <2>12 DEF ThreadOK, x
<1> QED BY <1>1, <1>3 DEF Init, HostInv

-----------------------------------------------------------------------------
(* The steps *)

LEMMA Now ==
    ASSUME HostInv, NEW t \in Threads
    PROVE  /\ OpenOK(th[t]) /\ ErrorOK(t, th[t], errmsg[t]) /\ SentOK(t, th[t])
           /\ BatchOK(t, th[t]) /\ OutputOK(t, th[t]) /\ MapsOK(t, th[t])
  BY Typed DEF ThreadOK

\* Inside a group there is a first and a last row.
LEMMA GroupFact ==
    ASSUME HostInv, NEW t \in Threads, th[t].pc \in {"add", "perform", "write"}
    PROVE  /\ th[t].row \in Nat /\ 1 <= th[t].row
           /\ Len(Rows(t)) \in Nat /\ LastOf(t, th[t].row) \in Nat
           /\ th[t].row <= LastOf(t, th[t].row) /\ LastOf(t, th[t].row) <= Len(Rows(t))
           /\ \A k \in th[t].row..LastOf(t, th[t].row) : Config(t, k) = Config(t, th[t].row)
<1>1. th[t].row \in Nat /\ Len(Rows(t)) \in Nat
  BY Fields, Typed
<1>2. 1 <= th[t].row /\ th[t].row <= Len(Rows(t))
  BY Now DEF SentOK
<1>3. th[t].row \in 1..Len(Rows(t))
  BY <1>1, <1>2
<1>4. /\ LastOf(t, th[t].row) \in th[t].row..Len(Rows(t))
      /\ \A k \in th[t].row..LastOf(t, th[t].row) : Config(t, k) = Config(t, th[t].row)
  BY <1>1, <1>3, LastFact
<1> QED BY <1>1, <1>2, <1>4

\* A step that leaves g_errmsg alone.
LEMMA Silent ==
    ASSUME HostInv, NEW t \in Threads, NEW x \in Locals(t),
           th' = [th EXCEPT ![t] = x], UNCHANGED <<call, errmsg>>,
           ThreadOK(t, x, errmsg[t])
    PROVE  HostInv'
<1>1. errmsg' = [errmsg EXCEPT ![t] = errmsg[t]] /\ errmsg[t] \in Messages
  BY DEF HostInv
<1> QED BY <1>1, Lift

\* The batch is where it was, or there is none.
LEMMA CallStep ==
    ASSUME HostInv, NEW t \in Threads, Call(t)
    PROVE  HostInv'
<1> DEFINE required == Message(t, "required")
<1>1. /\ th[t].pc = "call" /\ UNCHANGED <<call, errmsg>> /\ th = [u \in Threads |-> th[u]]
      /\ th[t].row \in Nat
  BY Fields DEF Call, At, HostInv
<1>2. required \in Messages
  BY DEF Message, Messages, Causes
<1>3. CASE ~Rejects(t) \/ Host(t) = "verb"
  <2>1. PICK label \in {"group", "done"} :
          /\ th' = [th EXCEPT ![t] = [th[t] EXCEPT !.pc = label]]
          /\ label = "done" => Rejects(t) /\ Host(t) = "verb"
    BY <1>3 DEF Call
  <2> DEFINE x == [th[t] EXCEPT !.pc = label]
  <2>2. x \in Locals(t)
    BY Own, ZenonT(40) DEF Locals, PCs
  <2>3. /\ x.pc = label /\ x.row = th[t].row /\ x.open = th[t].open /\ x.reported = th[t].reported
        /\ x.cause = th[t].cause /\ x.sent = th[t].sent /\ x.child = th[t].child
        /\ x.offset = th[t].offset
    BY Typed DEF Locals
  <2> HIDE DEF x
  <2>4. th' = [th EXCEPT ![t] = x]
    BY <2>1 DEF x
  <2>5. OpenOK(x) /\ ErrorOK(t, x, errmsg[t])
    BY <1>1, <2>3, Now DEF OpenOK, ErrorOK
  <2>6. SentOK(t, x)
    BY <1>1, <2>1, <2>3, Now DEF SentOK
  <2>7. BatchOK(t, x) /\ OutputOK(t, x)
    <3>1. th[t].row = 1
      BY <1>1, Now DEF SentOK
    <3> QED BY <2>1, <2>3, <3>1 DEF BatchOK, OutputOK, HasResult
  <2>8. MapsOK(t, x)
    BY <2>1, <2>3, Now DEF MapsOK, HasEntry
  <2> QED BY <1>1, <2>2, <2>4, <2>5, <2>6, <2>7, <2>8, Silent DEF ThreadOK
<1>4. CASE Rejects(t) /\ Host(t) # "verb"
  <2> DEFINE x == [th[t] EXCEPT !.pc = "error", !.cause = "required", !.reported = required]
  <2>1. th' = [th EXCEPT ![t] = x]
    BY <1>4 DEF Call
  <2>2. x \in Locals(t)
    BY <1>2, Own, ZenonT(40) DEF Locals, PCs, Causes
  <2>3. /\ x.pc = "error" /\ x.row = th[t].row /\ x.open = th[t].open /\ x.reported = required
        /\ x.cause = "required" /\ x.sent = th[t].sent /\ x.child = th[t].child
        /\ x.offset = th[t].offset
    BY Typed DEF Locals
  <2> HIDE DEF x
  <2>4. OpenOK(x) /\ ErrorOK(t, x, errmsg[t])
    BY <1>1, <2>3, Now DEF OpenOK, ErrorOK
  <2>5. SentOK(t, x)
    BY <1>1, <2>3, Now DEF SentOK
  <2>6. BatchOK(t, x) /\ OutputOK(t, x)
    BY <2>3 DEF BatchOK, OutputOK, HasResult
  <2>7. MapsOK(t, x)
    BY <2>3, Now DEF MapsOK, HasEntry
  <2> QED BY <1>1, <2>1, <2>2, <2>4, <2>5, <2>6, <2>7, Silent DEF ThreadOK
<1> QED BY <1>3, <1>4

LEMMA BeginGroupStep ==
    ASSUME HostInv, NEW t \in Threads, BeginGroup(t)
    PROVE  HostInv'
<1> DEFINE x == [th[t] EXCEPT !.open = TRUE, !.pending = <<>>, !.results = <<>>,
                              !.r = th[t].row, !.pc = "add"]
<1>1. /\ th[t].pc = "group" /\ th[t].row <= Len(Rows(t)) /\ th[t].row \in Nat
      /\ call' = call /\ errmsg' = [errmsg EXCEPT ![t] = None] /\ None \in Messages
  BY Fields DEF BeginGroup, At, ClearError, SetError, None, Messages, Causes
<1>2. th' = [th EXCEPT ![t] = x]
  BY DEF BeginGroup, HostInv
<1>3. x \in Locals(t)
  <2>1. <<>> \in Seq(Nat) /\ <<>> \in Seq(ResultType)
    OBVIOUS
  <2> QED BY <2>1, Own, ZenonT(40) DEF Locals, PCs
<1>4. /\ x.pc = "add" /\ x.row = th[t].row /\ x.r = th[t].row /\ x.pending = <<>>
      /\ x.reported = th[t].reported /\ x.cause = th[t].cause /\ x.sent = th[t].sent
      /\ x.child = th[t].child /\ x.offset = th[t].offset
      /\ x.output = th[t].output /\ x.headers = th[t].headers
  BY Typed DEF Locals
<1> HIDE DEF x
<1>5. OpenOK(x) /\ ErrorOK(t, x, None)
  BY <1>1, <1>4, Now DEF OpenOK, ErrorOK
<1>6. SentOK(t, x)
  BY <1>1, <1>4, Now DEF SentOK
<1>7. BatchOK(t, x)
  <2>1. th[t].row <= LastOf(t, th[t].row) + 1 /\ th[t].row - th[t].row = 0
    <3>1. th[t].row \in 1..Len(Rows(t)) /\ Len(Rows(t)) \in Nat
      BY <1>1, Now, Typed DEF SentOK
    <3>2. LastOf(t, th[t].row) \in th[t].row..Len(Rows(t))
      BY <3>1, LastFact
    <3> QED BY <3>1, <3>2
  <2>2. Len(x.pending) = 0
    BY <1>4
  <2> QED BY <1>1, <1>4, <2>1, <2>2 DEF BatchOK
<1>8. OutputOK(t, x)
  BY <1>1, <1>4, Now DEF OutputOK, HasResult
<1>9. MapsOK(t, x)
  BY <1>1, <1>4, Now DEF MapsOK, HasEntry
<1> QED BY <1>1, <1>2, <1>3, <1>5, <1>6, <1>7, <1>8, <1>9, Lift DEF ThreadOK

LEMMA AddRowStep ==
    ASSUME HostInv, NEW t \in Threads, AddRow(t)
    PROVE  HostInv'
<1> DEFINE p == Append(th[t].pending, th[t].r)
<1>0. th[t].pending \in Seq(Nat) /\ th[t].r \in Nat /\ th[t].row \in Nat
  BY Fields
<1>1. /\ th[t].pc = "add" /\ th[t].r <= LastOf(t, th[t].row)
      /\ call' = call /\ errmsg' = [errmsg EXCEPT ![t] = None] /\ None \in Messages
  BY GroupEndFact DEF AddRow, At, InGroup, ClearError, SetError, None, Messages, Causes
<1>2. /\ p \in Seq(Nat) /\ Len(p) = Len(th[t].pending) + 1 /\ p[Len(p)] = th[t].r
      /\ \A k \in 1..Len(th[t].pending) : p[k] = th[t].pending[k]
  BY <1>0
<1>3. th' = [th EXCEPT ![t] = [th[t] EXCEPT !.pending = p, !.r = th[t].r + 1]]
  BY DEF AddRow, HostInv
<1> HIDE DEF p
<1> DEFINE x == [th[t] EXCEPT !.pending = p, !.r = th[t].r + 1]
<1>4. x \in Locals(t)
  <2>1. p \in Seq(Nat) /\ th[t].r + 1 \in Nat
    BY <1>0, <1>2
  <2> QED BY <2>1, Own, ZenonT(40) DEF Locals
<1>5. /\ x.pc = "add" /\ x.row = th[t].row /\ x.r = th[t].r + 1 /\ x.pending = p
      /\ x.reported = th[t].reported /\ x.cause = th[t].cause /\ x.sent = th[t].sent
      /\ x.child = th[t].child /\ x.offset = th[t].offset
      /\ x.output = th[t].output /\ x.headers = th[t].headers /\ x.open = th[t].open
  BY <1>1, Typed DEF Locals
<1> HIDE DEF x
<1>6. OpenOK(x) /\ ErrorOK(t, x, None)
  BY <1>1, <1>5, Now DEF OpenOK, ErrorOK
<1>7. SentOK(t, x)
  BY <1>1, <1>5, Now DEF SentOK
<1>8. BatchOK(t, x)
  <2>1. /\ th[t].row <= th[t].r /\ Len(th[t].pending) = th[t].r - th[t].row
        /\ \A k \in 1..Len(th[t].pending) : th[t].pending[k] = th[t].row + k - 1
    BY <1>1, Now DEF BatchOK
  <2>2. Len(p) = th[t].r + 1 - th[t].row
    BY <1>0, <1>2, <2>1
  <2>3. \A k \in 1..Len(p) : p[k] = th[t].row + k - 1
    <3>1. ASSUME NEW k \in 1..Len(p) PROVE k \in 1..Len(th[t].pending) \/ k = Len(p)
      BY <1>0, <1>2, <3>1
    <3>2. th[t].row + Len(p) - 1 = th[t].r
      BY <1>0, <2>2
    <3>3. p[Len(p)] = th[t].row + Len(p) - 1
      BY <1>2, <3>2
    <3> QED BY <1>2, <2>1, <3>1, <3>3
  <2>4. LastOf(t, th[t].row) \in Int
    BY <1>1, GroupFact
  <2>5. th[t].row <= th[t].r + 1 /\ th[t].r + 1 <= LastOf(t, th[t].row) + 1
    BY <1>0, <1>1, <2>1, <2>4
  <2>6. /\ x.pc = "add" /\ x.row <= x.r /\ x.r <= LastOf(t, x.row) + 1
        /\ Len(x.pending) = x.r - x.row
        /\ \A k \in 1..Len(x.pending) : x.pending[k] = x.row + k - 1
    <3>1. x.pc = "add" /\ x.row = th[t].row /\ x.r = th[t].r + 1 /\ x.pending = p
      BY <1>5
    <3>2. Len(x.pending) = x.r - x.row
      BY <1>0, <2>2, <3>1
    <3> QED BY <2>3, <2>5, <3>1, <3>2
  <2> QED BY <2>6 DEF BatchOK
<1>9. OutputOK(t, x)
  <2>1. OutputOK(t, th[t]) /\ th[t].pc = "add"
    BY <1>1, Now
  <2> QED BY <1>5, <2>1 DEF OutputOK, HasResult
<1>10. MapsOK(t, x)
  BY <1>1, <1>5, Now DEF MapsOK, HasEntry
<1>11. th' = [th EXCEPT ![t] = x]
  BY <1>3 DEF x
<1> QED BY <1>1, <1>4, <1>6, <1>7, <1>8, <1>9, <1>10, <1>11, Lift DEF ThreadOK

\* DuckDB's own check of a row's method and URL.
LEMMA MissingArgumentStep ==
    ASSUME HostInv, NEW t \in Threads, MissingArgument(t)
    PROVE  HostInv'
<1> DEFINE m == Message(t, "required")
<1> DEFINE x == [th[t] EXCEPT !.open = FALSE, !.pending = <<>>, !.results = <<>>,
                              !.pc = "error", !.cause = "required", !.reported = m]
<1>1. th[t].pc = "add" /\ UNCHANGED <<call, errmsg>>
  BY DEF MissingArgument, At
<1>2. th' = [th EXCEPT ![t] = x]
  BY DEF MissingArgument, Freed, HostInv
<1>3. x \in Locals(t)
  <2>1. <<>> \in Seq(Nat) /\ <<>> \in Seq(ResultType) /\ m \in Messages
    BY DEF Message, Messages, Causes
  <2> HIDE DEF m
  <2> QED BY <2>1, Own, ZenonT(40) DEF Locals, PCs, Causes
<1>4. /\ x.pc = "error" /\ x.row = th[t].row /\ ~x.open /\ x.reported = m
      /\ x.cause = "required" /\ x.sent = th[t].sent /\ x.child = th[t].child
      /\ x.offset = th[t].offset
  BY Typed DEF Locals
<1> HIDE DEF x
<1>5. OpenOK(x) /\ ErrorOK(t, x, errmsg[t])
  BY <1>4 DEF OpenOK, ErrorOK
<1>6. SentOK(t, x)
  BY <1>1, <1>4, Now DEF SentOK
<1>7. BatchOK(t, x) /\ OutputOK(t, x)
  BY <1>4 DEF BatchOK, OutputOK, HasResult
<1>8. MapsOK(t, x)
  BY <1>4, Now DEF MapsOK, HasEntry
<1> QED BY <1>1, <1>2, <1>3, <1>5, <1>6, <1>7, <1>8, Silent DEF ThreadOK

\* A call of the C ABI fails, with what was sent until then.
LEMMA FailStep ==
    ASSUME HostInv, NEW t \in Threads, NEW s \in Seq(Nat), NEW what \in {"add", "perform", "json"},
           th' = [th EXCEPT ![t] = [th[t] EXCEPT !.sent = s, !.pc = "fail", !.cause = what]],
           errmsg' = [errmsg EXCEPT ![t] = Message(t, what)], call' = call,
           th[t].pc \in {"add", "perform", "write"},
           \A k \in 1..Len(s) : s[k] = k,
           what = "add" => Len(s) = th[t].row - 1,
           what = "json" => Len(s) = th[t].row
    PROVE  HostInv'
<1> DEFINE m == Message(t, what)
<1> DEFINE x == [th[t] EXCEPT !.sent = s, !.pc = "fail", !.cause = what]
<1>1. what \in Causes /\ what # "" /\ m \in Messages
  BY DEF Message, Messages, Causes
<1>2. x \in Locals(t)
  BY <1>1, Own, ZenonT(40) DEF Locals, PCs
<1>3. /\ x.pc = "fail" /\ x.row = th[t].row /\ x.open = th[t].open /\ x.reported = th[t].reported
      /\ x.cause = what /\ x.sent = s /\ x.child = th[t].child /\ x.offset = th[t].offset
  BY Typed DEF Locals
<1>4. th' = [th EXCEPT ![t] = x] /\ errmsg' = [errmsg EXCEPT ![t] = m]
  OBVIOUS
<1> HIDE DEF x
<1>5. OpenOK(x) /\ ErrorOK(t, x, m)
  BY <1>1, <1>3, Now DEF OpenOK, ErrorOK
<1>6. SentOK(t, x)
  BY <1>3, Now DEF SentOK
<1>7. BatchOK(t, x) /\ OutputOK(t, x)
  BY <1>3 DEF BatchOK, OutputOK, HasResult
<1>8. MapsOK(t, x)
  BY <1>3, Now DEF MapsOK, HasEntry
<1> HIDE DEF m
<1> QED BY <1>1, <1>2, <1>4, <1>5, <1>6, <1>7, <1>8, Lift DEF ThreadOK

LEMMA AddFailsStep ==
    ASSUME HostInv, NEW t \in Threads, AddFails(t)
    PROVE  HostInv'
<1> DEFINE s == th[t].sent
<1>1. /\ th[t].pc = "add" /\ call' = call
      /\ errmsg' = [errmsg EXCEPT ![t] = Message(t, "add")]
  BY DEF AddFails, At, Fails, SetError
<1>2. th' = [th EXCEPT ![t] = [th[t] EXCEPT !.pc = "fail", !.cause = "add"]]
  BY DEF AddFails, Fails, HostInv
<1>3. th' = [th EXCEPT ![t] = [th[t] EXCEPT !.sent = s, !.pc = "fail", !.cause = "add"]]
  BY <1>2, Typed DEF Locals
<1>4. /\ s \in Seq(Nat) /\ Len(s) = th[t].row - 1
      /\ \A k \in 1..Len(s) : s[k] = k
  BY <1>1, Fields, Now DEF SentOK
<1> HIDE DEF s
<1> QED BY <1>1, <1>3, <1>4, FailStep

\* The group is a single row when the host asks for JSON.
LEMMA ResultJsonFailsStep ==
    ASSUME HostInv, NEW t \in Threads, ResultJsonFails(t)
    PROVE  HostInv'
<1> DEFINE s == th[t].sent
<1>1. /\ th[t].pc = "write" /\ call' = call /\ AsJson(t)
      /\ errmsg' = [errmsg EXCEPT ![t] = Message(t, "json")]
  BY DEF ResultJsonFails, At, Fails, SetError
<1>2. th' = [th EXCEPT ![t] = [th[t] EXCEPT !.pc = "fail", !.cause = "json"]]
  BY DEF ResultJsonFails, Fails, HostInv
<1>3. th' = [th EXCEPT ![t] = [th[t] EXCEPT !.sent = s, !.pc = "fail", !.cause = "json"]]
  BY <1>2, Typed DEF Locals
<1>4. s \in Seq(Nat) /\ \A k \in 1..Len(s) : s[k] = k
  BY <1>1, Fields, Now DEF SentOK
<1>5. Len(s) = th[t].row
  <2>1. Len(Rows(t)) = 1
    BY <1>1, Typed DEF AsJson
  <2>2. /\ th[t].row \in Nat /\ LastOf(t, th[t].row) \in Nat
        /\ 1 <= th[t].row /\ th[t].row <= LastOf(t, th[t].row) /\ LastOf(t, th[t].row) <= 1
    BY <1>1, <2>1, GroupFact
  <2>3. Len(s) = LastOf(t, th[t].row)
    BY <1>1, Now DEF SentOK
  <2> QED BY <2>1, <2>2, <2>3
<1> HIDE DEF s
<1> QED BY <1>1, <1>3, <1>4, <1>5, FailStep

LEMMA AllAddedStep ==
    ASSUME HostInv, NEW t \in Threads, AllAdded(t)
    PROVE  HostInv'
<1> DEFINE x == [th[t] EXCEPT !.pc = "perform"]
<1>1. /\ th[t].pc = "add" /\ ~(th[t].r <= LastOf(t, th[t].row)) /\ UNCHANGED <<call, errmsg>>
  BY GroupEndFact DEF AllAdded, At, InGroup
<1>2. th' = [th EXCEPT ![t] = x]
  BY DEF AllAdded, HostInv
<1>3. x \in Locals(t)
  BY Own, ZenonT(40) DEF Locals, PCs
<1>4. /\ x.pc = "perform" /\ x.row = th[t].row /\ x.r = th[t].r /\ x.pending = th[t].pending
      /\ x.reported = th[t].reported /\ x.cause = th[t].cause /\ x.sent = th[t].sent
      /\ x.child = th[t].child /\ x.offset = th[t].offset
      /\ x.output = th[t].output /\ x.headers = th[t].headers /\ x.open = th[t].open
  BY Typed DEF Locals
<1> HIDE DEF x
<1>5. OpenOK(x) /\ ErrorOK(t, x, errmsg[t])
  BY <1>1, <1>4, Now DEF OpenOK, ErrorOK
<1>6. SentOK(t, x)
  BY <1>1, <1>4, Now DEF SentOK
<1>7. BatchOK(t, x)
  <2>1. th[t].r \in Nat
    BY Fields
  <2>2. LastOf(t, th[t].row) \in Nat
    BY <1>1, GroupFact
  <2>3. th[t].r = LastOf(t, th[t].row) + 1
    <3>1. th[t].r <= LastOf(t, th[t].row) + 1
      BY <1>1, Now DEF BatchOK
    <3> QED BY <1>1, <2>1, <2>2, <3>1
  <2>4. /\ Len(th[t].pending) = th[t].r - th[t].row
        /\ \A k \in 1..Len(th[t].pending) : th[t].pending[k] = th[t].row + k - 1
    BY <1>1, Now DEF BatchOK
  <2>5. /\ x.pc = "perform" /\ Len(x.pending) = LastOf(t, x.row) + 1 - x.row
        /\ \A k \in 1..Len(x.pending) : x.pending[k] = x.row + k - 1
    <3>1. x.pc = "perform" /\ x.row = th[t].row /\ x.pending = th[t].pending
      BY <1>4
    <3>2. Len(th[t].pending) = LastOf(t, th[t].row) + 1 - th[t].row
      <4>1. Len(th[t].pending) = th[t].r - th[t].row
        BY <2>4
      <4>2. th[t].row \in Nat
        BY Fields
      <4> QED BY <2>2, <2>3, <4>1, <4>2
    <3> QED BY <2>4, <3>1, <3>2
  <2> QED BY <2>5 DEF BatchOK
<1>8. OutputOK(t, x)
  BY <1>1, <1>4, Now DEF OutputOK, HasResult
<1>9. MapsOK(t, x)
  BY <1>1, <1>4, Now DEF MapsOK, HasEntry
<1> QED BY <1>1, <1>2, <1>3, <1>5, <1>6, <1>7, <1>8, <1>9, Silent DEF ThreadOK

\* What is sent goes on from the row where the last group ended.
LEMMA SentOn ==
    ASSUME NEW s \in Seq(Nat), NEW p \in Seq(Nat),
           \A k \in 1..Len(s) : s[k] = k,
           \A k \in 1..Len(p) : p[k] = Len(s) + k
    PROVE  /\ s \o p \in Seq(Nat) /\ Len(s \o p) = Len(s) + Len(p)
           /\ \A k \in 1..Len(s \o p) : (s \o p)[k] = k
<1> DEFINE q == s \o p
<1> DEFINE m == Len(s)
<1> DEFINE n == Len(p)
<1>1. /\ q \in Seq(Nat) /\ Len(q) = m + n
      /\ \A k \in 1..m : q[k] = s[k]
      /\ \A k \in 1..n : q[m + k] = p[k]
  OBVIOUS
<1>2. m \in Nat /\ n \in Nat
  OBVIOUS
<1>3. /\ \A k \in 1..m : s[k] = k
      /\ \A k \in 1..n : p[k] = m + k
  OBVIOUS
<1> HIDE DEF q, m, n
<1>4. ASSUME NEW k \in 1..(m + n) PROVE q[k] = k
  <2>1. CASE k \in 1..m
    BY <1>1, <1>3, <2>1
  <2>2. CASE k \notin 1..m
    <3>1. k - m \in 1..n /\ m + (k - m) = k
      BY <1>2, <2>2
    <3> QED BY <1>1, <1>3, <3>1
  <2> QED BY <2>1, <2>2
<1> QED BY <1>1, <1>4 DEF q, m, n

\* What is pending in a group that is complete.
LEMMA PendingFact ==
    ASSUME HostInv, NEW t \in Threads, th[t].pc = "perform"
    PROVE  LET s == th[t].sent
               p == th[t].pending
           IN  /\ s \in Seq(Nat) /\ p \in Seq(Nat)
               /\ Len(s) = th[t].row - 1
               /\ Len(p) = LastOf(t, th[t].row) + 1 - th[t].row /\ Len(p) \in Nat
               /\ \A k \in 1..Len(s) : s[k] = k
               /\ \A k \in 1..Len(p) : p[k] = Len(s) + k
<1> DEFINE s == th[t].sent
<1> DEFINE p == th[t].pending
<1>1. s \in Seq(Nat) /\ p \in Seq(Nat) /\ Len(p) \in Nat /\ th[t].row \in Nat
  BY Fields
<1>2. Len(s) = th[t].row - 1 /\ \A k \in 1..Len(s) : s[k] = k
  BY Now DEF SentOK
<1>3. /\ Len(p) = LastOf(t, th[t].row) + 1 - th[t].row
      /\ \A k \in 1..Len(p) : p[k] = th[t].row + k - 1
  BY Now DEF BatchOK
<1> HIDE DEF s, p
<1>4. \A k \in Nat : th[t].row + k - 1 = Len(s) + k
  <2>1. Len(s) = th[t].row - 1 /\ th[t].row \in Nat
    BY <1>1, <1>2
  <2> QED BY <2>1
<1>5. \A k \in 1..Len(p) : p[k] = Len(s) + k
  BY <1>1, <1>3, <1>4
<1> QED BY <1>1, <1>2, <1>3, <1>5 DEF s, p

LEMMA PerformFailsStep ==
    ASSUME HostInv, NEW t \in Threads, PerformFails(t)
    PROVE  HostInv'
<1> DEFINE s == th[t].sent
<1> DEFINE p == th[t].pending
<1>1. /\ th[t].pc = "perform" /\ call' = call
      /\ errmsg' = [errmsg EXCEPT ![t] = Message(t, "perform")]
  BY DEF PerformFails, At, SetError
<1>2. PICK n \in 0..(Len(p) - 1) :
        th' = [th EXCEPT ![t] = [th[t] EXCEPT !.sent = s \o SubSeq(p, 1, n),
                                              !.pc = "fail", !.cause = "perform"]]
  BY DEF PerformFails, HostInv
<1>3. /\ s \in Seq(Nat) /\ p \in Seq(Nat) /\ Len(p) \in Nat
      /\ \A k \in 1..Len(s) : s[k] = k
      /\ \A k \in 1..Len(p) : p[k] = Len(s) + k
  BY <1>1, PendingFact
<1> HIDE DEF s, p
<1> DEFINE d == SubSeq(p, 1, n)
<1>4. d \in Seq(Nat) /\ \A k \in 1..Len(d) : d[k] = Len(s) + k
  <2>1. n \in Nat /\ n <= Len(p)
    BY <1>3
  <2>2. d \in Seq(Nat) /\ Len(d) = n /\ \A k \in 1..n : d[k] = p[k]
    BY <1>3, <2>1
  <2> HIDE DEF d
  <2>3. \A k \in 1..n : k \in 1..Len(p)
    BY <1>3, <2>1
  <2> QED BY <1>3, <2>2, <2>3
<1> HIDE DEF d
<1>5. s \o d \in Seq(Nat) /\ \A k \in 1..Len(s \o d) : (s \o d)[k] = k
  BY <1>3, <1>4, SentOn
<1> DEFINE q == s \o d
<1>6. th' = [th EXCEPT ![t] = [th[t] EXCEPT !.sent = q, !.pc = "fail", !.cause = "perform"]]
  BY <1>2 DEF d
<1>7. q \in Seq(Nat) /\ \A k \in 1..Len(q) : q[k] = k
  BY <1>5
<1> HIDE DEF q
<1> QED BY <1>1, <1>6, <1>7, FailStep

\* One result per request, in the order of the requests.
LEMMA PerformBatchStep ==
    ASSUME HostInv, NEW t \in Threads, PerformBatch(t)
    PROVE  HostInv'
<1> DEFINE s == th[t].sent
<1> DEFINE p == th[t].pending
<1> DEFINE row == th[t].row
<1> DEFINE n == Len(p)
<1> DEFINE res == [k \in 1..n |-> [row |-> p[k], config |-> Config(t, row),
                                   body |-> Rows(t)[p[k]].body]]
<1> DEFINE q == s \o p
<1>1. /\ th[t].pc = "perform" /\ call' = call
      /\ errmsg' = [errmsg EXCEPT ![t] = None] /\ None \in Messages
  BY DEF PerformBatch, At, ClearError, SetError, None, Messages, Causes
<1>2. th' = [th EXCEPT ![t] = [th[t] EXCEPT !.results = res, !.sent = q, !.r = row,
                                            !.pc = "write"]]
  BY DEF PerformBatch, HostInv
<1>3. /\ s \in Seq(Nat) /\ p \in Seq(Nat) /\ n \in Nat
      /\ Len(s) = row - 1 /\ n = LastOf(t, row) + 1 - row
      /\ \A k \in 1..Len(s) : s[k] = k
      /\ \A k \in 1..n : p[k] = Len(s) + k
  BY <1>1, PendingFact
<1>4. /\ row \in Nat /\ 1 <= row /\ row <= LastOf(t, row) /\ LastOf(t, row) <= Len(Rows(t))
      /\ LastOf(t, row) \in Nat /\ Len(Rows(t)) \in Nat /\ Rows(t) \in Seq(RowType)
  BY <1>1, GroupFact, Typed
<1> HIDE DEF s, p, row, n
<1>5. q \in Seq(Nat) /\ Len(q) = LastOf(t, row) /\ \A k \in 1..Len(q) : q[k] = k
  <2>1. /\ q \in Seq(Nat) /\ Len(q) = Len(s) + n /\ \A k \in 1..Len(q) : q[k] = k
    BY <1>3, SentOn DEF n
  <2> HIDE DEF q
  <2> QED BY <1>3, <1>4, <2>1
<1>6. \A k \in 1..n : p[k] = row + k - 1 /\ p[k] \in 1..Len(Rows(t))
  BY <1>3, <1>4
<1>7. /\ res \in Seq(ResultType) /\ Len(res) = n
      /\ \A k \in 1..n : res[k] = [row |-> row + k - 1, config |-> Config(t, row),
                                   body |-> Rows(t)[row + k - 1].body]
  <2>1. \A k \in 1..Len(Rows(t)) : Rows(t)[k] \in RowType
    BY <1>4
  <2>2. Config(t, row) \in Configs
    <3>1. row \in 1..Len(Rows(t))
      BY <1>4
    <3> QED BY <2>1, <3>1 DEF Config, RowType, Configs
  <2>3. ASSUME NEW k \in 1..n
        PROVE  [row |-> p[k], config |-> Config(t, row), body |-> Rows(t)[p[k]].body] \in ResultType
    <3>1. Rows(t)[p[k]].body \in BodyType
      BY <1>6, <2>1 DEF RowType, BodyType
    <3>2. p[k] \in Nat
      BY <1>6
    <3> QED BY <2>2, <3>1, <3>2 DEF ResultType
  <2>4. res \in [1..n -> ResultType]
    BY <2>3
  <2>5. res \in Seq(ResultType) /\ Len(res) = n
    <3>1. n \in Nat /\ DOMAIN res = 1..n
      BY <1>3
    <3> HIDE DEF res
    <3> QED BY <2>4, <3>1
  <2>6. ASSUME NEW k \in 1..n
        PROVE  res[k] = [row |-> row + k - 1, config |-> Config(t, row),
                         body |-> Rows(t)[row + k - 1].body]
    BY <1>6
  <2> QED BY <2>5, <2>6
<1> HIDE DEF res, q
<1> DEFINE x == [th[t] EXCEPT !.results = res, !.sent = q, !.r = row, !.pc = "write"]
<1>8. x \in Locals(t)
  <2>1. res \in Seq(ResultType) /\ q \in Seq(Nat) /\ row \in Nat
    BY <1>4, <1>5, <1>7
  <2> QED BY <2>1, Own, ZenonT(40) DEF Locals, PCs
<1>9. /\ x.pc = "write" /\ x.row = row /\ x.r = row /\ x.results = res
      /\ x.reported = th[t].reported /\ x.cause = th[t].cause /\ x.sent = q
      /\ x.child = th[t].child /\ x.offset = th[t].offset
      /\ x.output = th[t].output /\ x.headers = th[t].headers /\ x.open = th[t].open
  BY Typed DEF Locals, row
<1>10. th' = [th EXCEPT ![t] = x]
  BY <1>2
<1> HIDE DEF x
<1>11. OpenOK(x) /\ ErrorOK(t, x, None)
  BY <1>1, <1>9, Now DEF OpenOK, ErrorOK
<1>12. SentOK(t, x)
  <2>1. x.cause = ""
    BY <1>1, <1>9, Now DEF ErrorOK
  <2>2. 1 <= x.row /\ x.row <= Len(Rows(t)) /\ x.row <= Len(Rows(t)) + 1
    BY <1>4, <1>9
  <2>3. \A k \in 1..Len(x.sent) : x.sent[k] = k
    BY <1>5, <1>9
  <2> QED BY <1>5, <1>9, <2>1, <2>2, <2>3 DEF SentOK
<1>13. BatchOK(t, x)
  <2>1. x.row <= x.r /\ x.r <= LastOf(t, x.row) + 1
    BY <1>4, <1>9
  <2> QED BY <1>3, <1>7, <1>9, <2>1 DEF BatchOK
<1>14. OutputOK(t, x)
  BY <1>1, <1>9, Now DEF OutputOK, HasResult, row
<1>15. MapsOK(t, x)
  BY <1>1, <1>9, Now DEF MapsOK, HasEntry
<1> QED BY <1>1, <1>8, <1>10, <1>11, <1>12, <1>13, <1>14, <1>15, Lift DEF ThreadOK

\* The next group begins where this one ends.
LEMMA EndGroupStep ==
    ASSUME HostInv, NEW t \in Threads, EndGroup(t)
    PROVE  HostInv'
<1> DEFINE next == LastOf(t, th[t].row) + 1
<1>1. /\ th[t].pc = "write" /\ ~(th[t].r <= LastOf(t, th[t].row)) /\ UNCHANGED <<call, errmsg>>
  BY GroupEndFact DEF EndGroup, At, InGroup
<1>2. th' = [th EXCEPT ![t] = [th[t] EXCEPT !.open = FALSE, !.pending = <<>>, !.results = <<>>,
                                            !.row = next, !.pc = "group"]]
  BY GroupEndFact DEF EndGroup, Freed, Resume, HostInv
<1>3. /\ next \in Nat /\ 1 <= next /\ next <= Len(Rows(t)) + 1 /\ Len(th[t].sent) = next - 1
      /\ th[t].r = next
  <2>1. LastOf(t, th[t].row) \in Nat /\ LastOf(t, th[t].row) <= Len(Rows(t)) /\ Len(Rows(t)) \in Nat
    BY <1>1, GroupFact
  <2>2. Len(th[t].sent) = LastOf(t, th[t].row)
    BY <1>1, Now DEF SentOK
  <2>3. th[t].r <= next /\ th[t].r \in Nat
    BY <1>1, Fields, Now DEF BatchOK
  <2> QED BY <1>1, <2>1, <2>2, <2>3
<1> HIDE DEF next
<1> DEFINE x == [th[t] EXCEPT !.open = FALSE, !.pending = <<>>, !.results = <<>>,
                              !.row = next, !.pc = "group"]
<1>4. x \in Locals(t)
  <2>1. <<>> \in Seq(Nat) /\ <<>> \in Seq(ResultType) /\ next \in Nat
    BY <1>3
  <2> QED BY <2>1, Own, ZenonT(40) DEF Locals, PCs
<1>5. /\ x.pc = "group" /\ x.row = next /\ ~x.open
      /\ x.reported = th[t].reported /\ x.cause = th[t].cause /\ x.sent = th[t].sent
      /\ x.child = th[t].child /\ x.offset = th[t].offset
      /\ x.output = th[t].output /\ x.headers = th[t].headers
  BY Typed DEF Locals
<1>6. th' = [th EXCEPT ![t] = x]
  BY <1>2
<1> HIDE DEF x
<1>7. OpenOK(x) /\ ErrorOK(t, x, errmsg[t])
  BY <1>1, <1>5, Now DEF OpenOK, ErrorOK
<1>8. SentOK(t, x)
  <2>1. x.cause = ""
    BY <1>1, <1>5, Now DEF ErrorOK
  <2>2. \A k \in 1..Len(x.sent) : x.sent[k] = k
    BY <1>5, Now DEF SentOK
  <2>3. 1 <= x.row /\ x.row <= Len(Rows(t)) + 1 /\ Len(x.sent) = x.row - 1
    BY <1>3, <1>5
  <2> QED BY <1>5, <2>1, <2>2, <2>3 DEF SentOK
<1>9. BatchOK(t, x)
  BY <1>5 DEF BatchOK
<1>10. OutputOK(t, x)
  <2>1. \A k : HasResult(t, x, k) => HasResult(t, th[t], k)
    BY <1>1, <1>3, <1>5 DEF HasResult
  <2>2. OutputOK(t, th[t])
    BY Now
  <2> QED BY <1>5, <2>1, <2>2 DEF OutputOK
<1>11. MapsOK(t, x)
  BY <1>1, <1>5, Now DEF MapsOK, HasEntry
<1> QED BY <1>1, <1>4, <1>6, <1>7, <1>8, <1>9, <1>10, <1>11, Silent DEF ThreadOK

\* The result at the place of row r in the batch is that of row r.
LEMMA ResultFact ==
    ASSUME HostInv, NEW t \in Threads, th[t].pc = "write", th[t].r <= LastOf(t, th[t].row)
    PROVE  /\ th[t].r \in 1..Len(Rows(t))
           /\ ResultOf(t) = [row |-> th[t].r, config |-> Config(t, th[t].r),
                             body |-> Rows(t)[th[t].r].body]
<1> DEFINE row == th[t].row
<1> DEFINE r == th[t].r
<1> DEFINE res == th[t].results
<1>1. /\ row \in Nat /\ 1 <= row /\ LastOf(t, row) \in Nat /\ row <= LastOf(t, row)
      /\ LastOf(t, row) <= Len(Rows(t)) /\ Len(Rows(t)) \in Nat
      /\ \A k \in row..LastOf(t, row) : Config(t, k) = Config(t, row)
  BY GroupFact
<1>2. r \in Nat /\ r <= LastOf(t, row)
  BY Fields
<1>3. row <= r
  BY Now DEF BatchOK
<1>4. /\ Len(res) = LastOf(t, row) + 1 - row
      /\ \A k \in 1..Len(res) :
            res[k] = [row |-> row + k - 1, config |-> Config(t, row),
                      body |-> Rows(t)[row + k - 1].body]
  BY Now DEF BatchOK
<1>5. ResultOf(t) = IF (r - row + 1) \in 1..Len(res) THEN res[r - row + 1] ELSE NoResult
  BY DEF ResultOf, ResultAt
<1> HIDE DEF row, r, res
<1>6. (r - row + 1) \in 1..Len(res) /\ row + (r - row + 1) - 1 = r
  BY <1>1, <1>2, <1>3, <1>4
<1>7. r \in 1..Len(Rows(t)) /\ r \in row..LastOf(t, row)
  BY <1>1, <1>2, <1>3
<1>8. ResultOf(t) = [row |-> r, config |-> Config(t, row), body |-> Rows(t)[r].body]
  BY <1>4, <1>5, <1>6
<1>9. Config(t, r) = Config(t, row)
  BY <1>1, <1>7
<1> QED BY <1>7, <1>8, <1>9 DEF r

\* A row's result and headers are copied out of the batch.
LEMMA WriteRowStep ==
    ASSUME HostInv, NEW t \in Threads, WriteRow(t)
    PROVE  HostInv'
<1> DEFINE r == th[t].r
<1> DEFINE value == Written(t, ResultOf(t))
<1> DEFINE pairs == ResultHeaders(t, ResultOf(t))
<1>1. /\ th[t].pc = "write" /\ r <= LastOf(t, th[t].row) /\ call' = call
      /\ errmsg' = [errmsg EXCEPT ![t] = None] \/ UNCHANGED errmsg
  BY GroupEndFact DEF WriteRow, At, InGroup, ClearError, SetError
<1>2. PICK m \in Messages : errmsg' = [errmsg EXCEPT ![t] = m]
  <2>1. None \in Messages /\ errmsg[t] \in Messages /\ errmsg \in [Threads -> Messages]
    BY DEF None, Messages, Causes, HostInv
  <2> QED BY <1>1, <2>1
<1>3. /\ r \in 1..Len(Rows(t)) /\ Len(Rows(t)) \in Nat /\ r \in Nat
      /\ ResultOf(t) = [row |-> r, config |-> Config(t, r), body |-> Rows(t)[r].body]
  BY <1>1, ResultFact, Typed, Fields
<1>4. Rows(t)[r] \in RowType
  BY <1>3, Typed
<1>5. /\ value \in ResultType
      /\ value.row = r /\ value.config = Config(t, r)
      /\ value.body = IF AsJson(t) THEN Envelope(Rows(t)[r].body) ELSE Rows(t)[r].body
  <2> DEFINE body == IF AsJson(t) THEN Envelope(Rows(t)[r].body) ELSE Rows(t)[r].body
  <2>1. value = [row |-> r, config |-> Config(t, r), body |-> body]
    BY <1>3 DEF Written
  <2>2. body \in BodyType
    BY <1>4 DEF BodyType, RowType
  <2>3. Config(t, r) \in Configs
    BY <1>4 DEF Config, RowType, Configs
  <2> HIDE DEF value, body, r
  <2>4. value \in ResultType
    BY <1>3, <2>1, <2>2, <2>3 DEF ResultType
  <2>5. value.row = r /\ value.config = Config(t, r) /\ value.body = body
    BY <2>1
  <2> QED BY <2>4, <2>5 DEF body
<1>6. pairs = [j \in 1..Rows(t)[r].headers |-> <<r, j>>] /\ pairs \in Pairs
  <2>1. ResultOf(t).row = r /\ NoResult.row = 0 /\ r # 0
    BY <1>3 DEF NoResult
  <2>2. pairs = [j \in 1..Rows(t)[r].headers |-> <<r, j>>]
    BY <2>1 DEF ResultHeaders
  <2>3. Rows(t)[r].headers \in Nat
    BY <1>4 DEF RowType
  <2> DEFINE h == Rows(t)[r].headers
  <2> HIDE DEF h, r
  <2>4. [j \in 1..h |-> <<r, j>>] \in Seq(Nat \X Nat)
    BY <1>3, <2>3 DEF h
  <2> QED BY <2>2, <2>4 DEF Pairs, h
<1>7. th' = [th EXCEPT ![t] = [th[t] EXCEPT !.output = [th[t].output EXCEPT ![r] = value],
                                            !.headers = [th[t].headers EXCEPT ![r] = pairs],
                                            !.r = r + 1]]
  BY DEF WriteRow, HostInv
<1> HIDE DEF r, value, pairs
<1> DEFINE n == Len(Rows(t))
<1> DEFINE output == [th[t].output EXCEPT ![r] = value]
<1> DEFINE headers == [th[t].headers EXCEPT ![r] = pairs]
<1>8. /\ output \in [1..n -> ResultType] /\ headers \in [1..n -> Pairs]
      /\ output[r] = value /\ headers[r] = pairs
      /\ \A k \in 1..n : k # r => output[k] = th[t].output[k] /\ headers[k] = th[t].headers[k]
  <2>1. th[t].output \in [1..n -> ResultType] /\ th[t].headers \in [1..n -> Pairs]
    BY Typed DEF Locals
  <2> QED BY <1>3, <1>5, <1>6, <2>1
<1> HIDE DEF output, headers
<1> DEFINE x == [th[t] EXCEPT !.output = output, !.headers = headers, !.r = r + 1]
<1>9. th' = [th EXCEPT ![t] = x]
  BY <1>7 DEF output, headers
<1>10. x \in Locals(t)
  <2>1. r + 1 \in Nat
    BY <1>3
  <2> QED BY <1>8, <2>1, Own, ZenonT(40) DEF Locals
<1>11. /\ x.pc = "write" /\ x.row = th[t].row /\ x.r = r + 1 /\ x.results = th[t].results
       /\ x.reported = th[t].reported /\ x.cause = th[t].cause /\ x.sent = th[t].sent
       /\ x.child = th[t].child /\ x.offset = th[t].offset
       /\ x.output = output /\ x.headers = headers /\ x.open = th[t].open
  BY <1>1, Typed DEF Locals
<1> HIDE DEF x
<1>12. OpenOK(x) /\ ErrorOK(t, x, m)
  BY <1>1, <1>11, Now DEF OpenOK, ErrorOK
<1>13. SentOK(t, x)
  BY <1>1, <1>11, Now DEF SentOK
<1>14. BatchOK(t, x)
  <2>1. th[t].row <= r
    BY <1>1, Now DEF BatchOK, r
  <2>2. LastOf(t, th[t].row) \in Nat /\ th[t].row \in Nat
    BY <1>1, GroupFact
  <2>3. th[t].row <= r + 1 /\ r + 1 <= LastOf(t, th[t].row) + 1
    BY <1>1, <1>3, <2>1, <2>2
  <2>4. BatchOK(t, th[t])
    BY Now
  <2> QED BY <1>1, <1>11, <2>3, <2>4 DEF BatchOK
<1>15. OutputOK(t, x)
  <2>1. OutputOK(t, th[t])
    BY Now
  <2>2. ASSUME NEW k \in 1..n, HasResult(t, x, k)
        PROVE  /\ output[k].row = k
               /\ output[k].config = Config(t, k)
               /\ output[k].body = IF AsJson(t) THEN Envelope(Rows(t)[k].body) ELSE Rows(t)[k].body
               /\ headers[k] = [j \in 1..Rows(t)[k].headers |-> <<k, j>>]
    <3>1. CASE k = r
      BY <1>5, <1>6, <1>8, <3>1
    <3>2. CASE k # r
      <4>1. k < r + 1
        BY <1>11, <2>2 DEF HasResult
      <4>2. k < r
        BY <1>3, <3>2, <4>1
      <4>3. HasResult(t, th[t], k)
        BY <1>1, <4>2 DEF HasResult, r
      <4> QED BY <1>8, <2>1, <3>2, <4>3 DEF OutputOK
    <3> QED BY <3>1, <3>2
  <2> QED BY <1>11, <2>2 DEF OutputOK
<1>16. MapsOK(t, x)
  BY <1>1, <1>11, Now DEF MapsOK, HasEntry
<1> QED BY <1>1, <1>2, <1>9, <1>10, <1>12, <1>13, <1>14, <1>15, <1>16, Lift DEF ThreadOK

\* The last group is over: DuckDB writes the MAP columns, the others return.
LEMMA EndRowsStep ==
    ASSUME HostInv, NEW t \in Threads, EndRows(t)
    PROVE  HostInv'
<1>1. /\ th[t].pc = "group" /\ UNCHANGED <<call, errmsg>>
      /\ ~(th[t].row <= Len(Rows(t))) \/ th[t].row > Len(Rows(t))
  BY DEF EndRows, At
<1>2. PICK label \in {"maps", "done"} :
        /\ th' = [th EXCEPT ![t] = [th[t] EXCEPT !.r = 1, !.pc = label]]
        /\ label = "done" => Host(t) # "duckdb"
  BY DEF EndRows, HostInv
<1>3. /\ th[t].row = Len(Rows(t)) + 1 /\ Len(th[t].sent) = Len(Rows(t))
      /\ Len(Rows(t)) \in Nat
  <2>1. th[t].row \in Nat /\ Len(Rows(t)) \in Nat
    BY Fields, Typed
  <2>2. th[t].row <= Len(Rows(t)) + 1 /\ Len(th[t].sent) = th[t].row - 1
    BY <1>1, Now DEF SentOK
  <2>3. th[t].row > Len(Rows(t))
    BY DEF EndRows
  <2> QED BY <2>1, <2>2, <2>3
<1> DEFINE x == [th[t] EXCEPT !.r = 1, !.pc = label]
<1>4. x \in Locals(t)
  <2>1. 1 \in Nat
    OBVIOUS
  <2> QED BY <2>1, Own, ZenonT(40) DEF Locals, PCs
<1>5. /\ x.pc = label /\ x.row = th[t].row /\ x.r = 1 /\ x.open = th[t].open
      /\ x.reported = th[t].reported /\ x.cause = th[t].cause /\ x.sent = th[t].sent
      /\ x.child = th[t].child /\ x.offset = th[t].offset
      /\ x.output = th[t].output /\ x.headers = th[t].headers
  BY Typed DEF Locals
<1>6. th' = [th EXCEPT ![t] = x]
  BY <1>2
<1> HIDE DEF x
<1>7. OpenOK(x) /\ ErrorOK(t, x, errmsg[t])
  BY <1>1, <1>5, Now DEF OpenOK, ErrorOK
<1>8. SentOK(t, x)
  <2>1. x.cause = ""
    BY <1>1, <1>5, Now DEF ErrorOK
  <2>2. \A k \in 1..Len(x.sent) : x.sent[k] = k
    BY <1>5, Now DEF SentOK
  <2>3. 1 <= Len(Rows(t)) + 1 /\ Len(Rows(t)) + 1 <= Len(Rows(t)) + 1
    BY <1>3
  <2> QED BY <1>3, <1>5, <2>1, <2>2, <2>3 DEF SentOK
<1>9. BatchOK(t, x)
  BY <1>5 DEF BatchOK
<1>10. OutputOK(t, x)
  <2>1. \A k \in 1..Len(Rows(t)) : HasResult(t, th[t], k)
    <3>1. \A k \in 1..Len(Rows(t)) : k < th[t].row
      BY <1>3
    <3> QED BY <1>1, <3>1 DEF HasResult
  <2>2. OutputOK(t, th[t])
    BY Now
  <2> QED BY <1>5, <2>1, <2>2 DEF OutputOK
<1>11. MapsOK(t, x)
  <2>1. ~\E k \in 1..Len(Rows(t)) : HasEntry(t, x, k)
    BY <1>2, <1>3, <1>5 DEF HasEntry
  <2>2. 1 <= x.r /\ x.r <= Len(Rows(t)) + 1
    BY <1>3, <1>5
  <2>3. Len(x.child) = x.offset
    BY <1>5, Now DEF MapsOK
  <2> QED BY <2>1, <2>2, <2>3 DEF MapsOK
<1> QED BY <1>1, <1>4, <1>6, <1>7, <1>8, <1>9, <1>10, <1>11, Silent DEF ThreadOK

LEMMA PairsJoin ==
    ASSUME NEW s \in Pairs, NEW d \in Pairs
    PROVE  /\ s \o d \in Pairs /\ Len(s \o d) = Len(s) + Len(d)
           /\ \A k \in 1..Len(s) : (s \o d)[k] = s[k]
           /\ \A k \in 1..Len(d) : (s \o d)[Len(s) + k] = d[k]
  BY DEF Pairs

\* A row's entry takes the pairs from the end of the list child on.
LEMMA WriteMapEntryStep ==
    ASSUME HostInv, NEW t \in Threads, WriteMapEntry(t)
    PROVE  HostInv'
<1> DEFINE n == Len(Rows(t))
<1> DEFINE r == th[t].r
<1> DEFINE kvs == th[t].headers[r]
<1> DEFINE offset == th[t].offset
<1> DEFINE old == th[t].child
<1> DEFINE entry == [offset |-> offset, length |-> Len(kvs)]
<1> DEFINE entries == [th[t].entries EXCEPT ![r] = entry]
<1> DEFINE child == SubSeq(old, 1, offset) \o kvs
<1> DEFINE next == offset + Len(kvs)
<1>1. th[t].pc = "maps" /\ r <= n /\ UNCHANGED <<call, errmsg>>
  BY DEF WriteMapEntry, At
<1>2. th' = [th EXCEPT ![t] = [th[t] EXCEPT !.entries = entries, !.child = child,
                                            !.offset = next, !.r = r + 1]]
  BY DEF WriteMapEntry, Advanced, HostInv
<1>3. /\ n \in Nat /\ r \in Nat /\ offset \in Nat /\ old \in Pairs /\ Rows(t) \in Seq(RowType)
      /\ th[t].headers \in [1..n -> Pairs] /\ th[t].entries \in [1..n -> EntryType]
  BY Fields, Typed DEF Locals
<1>4. Len(old) = offset /\ 1 <= r
  BY <1>1, Now DEF MapsOK
<1>5. r \in 1..n
  BY <1>1, <1>3, <1>4
<1>6. kvs = [j \in 1..Rows(t)[r].headers |-> <<r, j>>]
  <2>1. OutputOK(t, th[t]) /\ HasResult(t, th[t], r)
    BY <1>1, Now DEF HasResult
  <2> QED BY <1>5, <2>1 DEF OutputOK
<1>7. /\ kvs \in Pairs /\ Len(kvs) \in Nat /\ Len(kvs) = Rows(t)[r].headers
      /\ \A j \in 1..Len(kvs) : kvs[j] = <<r, j>>
  <2>1. kvs \in Pairs
    BY <1>3, <1>5
  <2>2. Rows(t)[r].headers \in Nat
    <3>1. Rows(t)[r] \in RowType
      BY <1>3, <1>5
    <3> QED BY <3>1 DEF RowType
  <2>3. Len(kvs) = Rows(t)[r].headers
    BY <1>6, <2>2
  <2> QED BY <1>6, <2>1, <2>2, <2>3
<1> HIDE DEF r, n, kvs, offset, old
<1>8. /\ child \in Pairs /\ Len(child) = next
      /\ \A k \in 1..offset : child[k] = old[k]
      /\ \A k \in 1..Len(kvs) : child[offset + k] = kvs[k]
  <2>1. old \in Seq(Nat \X Nat) /\ kvs \in Seq(Nat \X Nat)
    BY <1>3, <1>7 DEF Pairs
  <2>2. SubSeq(old, 1, offset) = old
    BY <1>3, <1>4, <2>1
  <2>3. child = old \o kvs
    BY <2>2
  <2>4. /\ old \o kvs \in Pairs /\ Len(old \o kvs) = Len(old) + Len(kvs)
        /\ \A k \in 1..Len(old) : (old \o kvs)[k] = old[k]
        /\ \A k \in 1..Len(kvs) : (old \o kvs)[Len(old) + k] = kvs[k]
    BY <1>3, <1>7, PairsJoin
  <2> QED BY <1>4, <2>3, <2>4
<1>9. /\ entries \in [1..n -> EntryType] /\ entries[r] = entry
      /\ \A k \in 1..n : k # r => entries[k] = th[t].entries[k]
  <2>1. entry \in EntryType
    BY <1>3, <1>7 DEF EntryType
  <2> HIDE DEF entry
  <2> QED BY <1>3, <1>5, <2>1
<1>10. next \in Nat /\ r + 1 \in Nat /\ offset <= next /\ 1 <= r + 1 /\ r + 1 <= n + 1
  BY <1>1, <1>3, <1>4, <1>7
<1>11. entry.offset = offset /\ entry.length = Len(kvs)
  OBVIOUS
<1> HIDE DEF child, entries, next, entry
<1> DEFINE x == [th[t] EXCEPT !.entries = entries, !.child = child, !.offset = next, !.r = r + 1]
<1>12. x \in Locals(t)
  <2>1. child \in Pairs /\ entries \in [1..n -> EntryType] /\ next \in Nat /\ r + 1 \in Nat
    BY <1>8, <1>9, <1>10
  <2> QED BY <2>1, Own, ZenonT(40) DEF Locals, n
<1>13. /\ x.pc = "maps" /\ x.row = th[t].row /\ x.r = r + 1 /\ x.open = th[t].open
       /\ x.reported = th[t].reported /\ x.cause = th[t].cause /\ x.sent = th[t].sent
       /\ x.child = child /\ x.offset = next /\ x.entries = entries
       /\ x.output = th[t].output /\ x.headers = th[t].headers
  BY <1>1, Typed DEF Locals
<1>14. th' = [th EXCEPT ![t] = x]
  BY <1>2
<1> HIDE DEF x
<1>15. OpenOK(x) /\ ErrorOK(t, x, errmsg[t])
  BY <1>1, <1>13, Now DEF OpenOK, ErrorOK
<1>16. SentOK(t, x)
  BY <1>1, <1>13, Now DEF SentOK
<1>17. BatchOK(t, x)
  BY <1>13 DEF BatchOK
<1>18. OutputOK(t, x)
  BY <1>1, <1>13, Now DEF OutputOK, HasResult
<1>19. MapsOK(t, x)
  <2>1. MapsOK(t, th[t])
    BY Now
  <2>2. ASSUME NEW k \in 1..n, HasEntry(t, x, k)
        PROVE  LET e == entries[k] IN
               /\ e.length = Rows(t)[k].headers
               /\ e.offset + e.length <= next
               /\ \A j \in 1..e.length : child[e.offset + j] = <<k, j>>
    <3>1. CASE k = r
      <4>1. entries[k].length = Len(kvs) /\ entries[k].offset = offset
        BY <1>9, <1>11, <3>1
      <4>2. offset + Len(kvs) <= next
        BY <1>10 DEF next
      <4>3. \A j \in 1..Len(kvs) : child[offset + j] = <<k, j>>
        BY <1>7, <1>8, <3>1
      <4> QED BY <1>7, <3>1, <4>1, <4>2, <4>3
    <3>2. CASE k # r
      <4> DEFINE e == th[t].entries[k]
      <4>1. k < r + 1
        BY <1>13, <2>2 DEF HasEntry
      <4>2. k < r
        BY <1>3, <3>2, <4>1
      <4>3. HasEntry(t, th[t], k)
        BY <1>1, <4>2 DEF HasEntry, r
      <4>4. /\ e.length = Rows(t)[k].headers /\ e.offset + e.length <= offset
            /\ \A j \in 1..e.length : old[e.offset + j] = <<k, j>>
        BY <2>1, <4>3 DEF MapsOK, offset, old, n
      <4>5. entries[k] = e /\ e.offset \in Nat /\ e.length \in Nat
        BY <1>3, <1>9, <3>2 DEF EntryType
      <4> HIDE DEF e
      <4>6. e.offset + e.length <= next
        BY <1>3, <1>10, <4>4, <4>5
      <4>7. \A j \in 1..e.length : e.offset + j \in 1..offset
        BY <1>3, <4>4, <4>5
      <4>8. \A j \in 1..e.length : child[e.offset + j] = <<k, j>>
        BY <1>8, <4>4, <4>7
      <4> QED BY <4>4, <4>5, <4>6, <4>8
    <3> QED BY <3>1, <3>2
  <2>3. Len(x.child) = x.offset
    BY <1>8, <1>13
  <2>4. 1 <= x.r /\ x.r <= Len(Rows(t)) + 1
    BY <1>10, <1>13 DEF n
  <2> QED BY <1>13, <2>2, <2>3, <2>4 DEF MapsOK, n
<1> QED BY <1>1, <1>12, <1>14, <1>15, <1>16, <1>17, <1>18, <1>19, Silent DEF ThreadOK

LEMMA EndMapsStep ==
    ASSUME HostInv, NEW t \in Threads, EndMaps(t)
    PROVE  HostInv'
<1> DEFINE x == [th[t] EXCEPT !.pc = "done"]
<1>1. th[t].pc = "maps" /\ th[t].r > Len(Rows(t)) /\ UNCHANGED <<call, errmsg>>
  BY DEF EndMaps, At
<1>2. th' = [th EXCEPT ![t] = x]
  BY DEF EndMaps, HostInv
<1>3. x \in Locals(t)
  BY Own, ZenonT(40) DEF Locals, PCs
<1>4. /\ x.pc = "done" /\ x.row = th[t].row /\ x.open = th[t].open
      /\ x.reported = th[t].reported /\ x.cause = th[t].cause /\ x.sent = th[t].sent
      /\ x.child = th[t].child /\ x.offset = th[t].offset /\ x.entries = th[t].entries
      /\ x.output = th[t].output /\ x.headers = th[t].headers
  BY Typed DEF Locals
<1> HIDE DEF x
<1>5. OpenOK(x) /\ ErrorOK(t, x, errmsg[t])
  BY <1>1, <1>4, Now DEF OpenOK, ErrorOK
<1>6. SentOK(t, x)
  BY <1>1, <1>4, Now DEF SentOK
<1>7. BatchOK(t, x)
  BY <1>4 DEF BatchOK
<1>8. OutputOK(t, x)
  BY <1>1, <1>4, Now DEF OutputOK, HasResult
<1>9. MapsOK(t, x)
  <2>1. \A k \in 1..Len(Rows(t)) : HasEntry(t, th[t], k)
    <3>1. \A k \in 1..Len(Rows(t)) : k < th[t].r
      BY <1>1, Fields, Typed
    <3> QED BY <1>1, <3>1 DEF HasEntry
  <2>2. MapsOK(t, th[t])
    BY Now
  <2> QED BY <1>4, <2>1, <2>2 DEF MapsOK
<1> QED BY <1>1, <1>2, <1>3, <1>5, <1>6, <1>7, <1>8, <1>9, Silent DEF ThreadOK

\* The batch of a failed call is freed, before or after its message is read.
LEMMA FreeOnErrorStep ==
    ASSUME HostInv, NEW t \in Threads, FreeOnError(t)
    PROVE  HostInv'
<1>1. th[t].pc = "fail" /\ UNCHANGED <<call, errmsg>>
  BY DEF FreeOnError, At
<1>2. PICK label \in {"fail", "error"} :
        /\ th' = [th EXCEPT ![t] = [th[t] EXCEPT !.open = FALSE, !.pending = <<>>,
                                                 !.results = <<>>, !.pc = label]]
        /\ label = "error" => th[t].reported # None
  BY DEF FreeOnError, Freed, HostInv
<1> DEFINE x == [th[t] EXCEPT !.open = FALSE, !.pending = <<>>, !.results = <<>>, !.pc = label]
<1>3. x \in Locals(t)
  <2>1. <<>> \in Seq(Nat) /\ <<>> \in Seq(ResultType)
    OBVIOUS
  <2> QED BY <2>1, Own, ZenonT(40) DEF Locals, PCs
<1>4. /\ x.pc = label /\ x.row = th[t].row /\ ~x.open /\ x.reported = th[t].reported
      /\ x.cause = th[t].cause /\ x.sent = th[t].sent /\ x.child = th[t].child
      /\ x.offset = th[t].offset
  BY Typed DEF Locals
<1>5. th' = [th EXCEPT ![t] = x]
  BY <1>2
<1> HIDE DEF x
<1>6. OpenOK(x) /\ ErrorOK(t, x, errmsg[t])
  BY <1>1, <1>2, <1>4, Now DEF OpenOK, ErrorOK
<1>7. SentOK(t, x)
  BY <1>1, <1>2, <1>4, Now DEF SentOK
<1>8. BatchOK(t, x) /\ OutputOK(t, x)
  BY <1>2, <1>4 DEF BatchOK, OutputOK, HasResult
<1>9. MapsOK(t, x)
  BY <1>2, <1>4, Now DEF MapsOK, HasEntry
<1> QED BY <1>1, <1>3, <1>5, <1>6, <1>7, <1>8, <1>9, Silent DEF ThreadOK

LEMMA ReportStep ==
    ASSUME HostInv, NEW t \in Threads, Report(t)
    PROVE  HostInv'
<1> DEFINE m == errmsg[t]
<1>1. th[t].pc = "fail" /\ UNCHANGED <<call, errmsg>> /\ m \in Messages
  BY Typed DEF Report, At
<1>2. PICK label \in {"fail", "error"} :
        /\ th' = [th EXCEPT ![t] = [th[t] EXCEPT !.reported = m, !.pc = label]]
        /\ label = "error" => ~th[t].open
  BY DEF Report, HostInv
<1>3. m = Message(t, th[t].cause)
  BY <1>1, Now DEF ErrorOK
<1>4. th[t].cause # ""
  BY <1>1, Now DEF ErrorOK
<1> DEFINE x == [th[t] EXCEPT !.reported = m, !.pc = label]
<1> HIDE DEF m
<1>5. x \in Locals(t)
  BY <1>1, Own, ZenonT(40) DEF Locals, PCs
<1>6. /\ x.pc = label /\ x.row = th[t].row /\ x.open = th[t].open /\ x.reported = m
      /\ x.cause = th[t].cause /\ x.sent = th[t].sent /\ x.child = th[t].child
      /\ x.offset = th[t].offset
  BY Typed DEF Locals
<1>7. th' = [th EXCEPT ![t] = x]
  BY <1>2
<1> HIDE DEF x
<1>8. OpenOK(x) /\ ErrorOK(t, x, errmsg[t])
  BY <1>1, <1>2, <1>3, <1>4, <1>6, Now DEF OpenOK, ErrorOK, m
<1>9. SentOK(t, x)
  BY <1>1, <1>2, <1>6, Now DEF SentOK
<1>10. BatchOK(t, x) /\ OutputOK(t, x)
  BY <1>2, <1>6 DEF BatchOK, OutputOK, HasResult
<1>11. MapsOK(t, x)
  BY <1>2, <1>6, Now DEF MapsOK, HasEntry
<1> QED BY <1>1, <1>5, <1>7, <1>8, <1>9, <1>10, <1>11, Silent DEF ThreadOK

LEMMA HostNext == HostInv /\ [Next]_vars => HostInv'
<1> SUFFICES ASSUME HostInv, [Next]_vars PROVE HostInv'
  OBVIOUS
<1>1. ASSUME NEW t \in Threads,
             \/ Call(t) \/ BeginGroup(t) \/ MissingArgument(t) \/ AddRow(t) \/ AddFails(t)
             \/ AllAdded(t) \/ PerformBatch(t) \/ PerformFails(t) \/ WriteRow(t)
             \/ ResultJsonFails(t) \/ EndGroup(t) \/ EndRows(t) \/ WriteMapEntry(t) \/ EndMaps(t)
             \/ FreeOnError(t) \/ Report(t)
      PROVE  HostInv'
  BY <1>1, CallStep, BeginGroupStep, MissingArgumentStep, AddRowStep, AddFailsStep,
     AllAddedStep, PerformBatchStep, PerformFailsStep, WriteRowStep, ResultJsonFailsStep,
     EndGroupStep, EndRowsStep, WriteMapEntryStep, EndMapsStep, FreeOnErrorStep, ReportStep
<1>2. CASE UNCHANGED vars
  <2>1. th' = th /\ call' = call /\ errmsg' = errmsg
    BY <1>2 DEF vars
  <2>2. CASE Threads = {}
    BY <2>1, <2>2 DEF HostInv
  <2>3. ASSUME NEW t \in Threads PROVE HostInv'
    <3>1. th' = [th EXCEPT ![t] = th[t]]
      BY <2>1 DEF HostInv
    <3> QED BY <2>1, <3>1, Typed, Silent
  <2> QED BY <2>2, <2>3
<1> QED BY <1>1, <1>2 DEF Next

LEMMA HostAlways == Spec => []HostInv
<1> QED BY HostInitInv, HostNext, PTL DEF Spec

-----------------------------------------------------------------------------
(* The properties *)

LEMMA IdentityFact ==
    ASSUME NEW s \in Seq(Nat), \A k \in 1..Len(s) : s[k] = k
    PROVE  s = [k \in 1..Len(s) |-> k]
<1>1. DOMAIN s = 1..Len(s) /\ s = [k \in DOMAIN s |-> s[k]]
  OBVIOUS
<1> QED BY <1>1

LEMMA SliceFact ==
    ASSUME NEW s \in Pairs, NEW a \in Nat, NEW n \in Nat, a + n <= Len(s)
    PROVE  SubSeq(s, a + 1, a + n) = [j \in 1..n |-> s[a + j]]
<1> DEFINE d == SubSeq(s, a + 1, a + n)
<1>1. \A j \in (a + 1)..(a + n) : s[j] \in Nat \X Nat
  <2>1. (a + 1)..(a + n) \subseteq 1..Len(s)
    BY DEF Pairs
  <2> QED BY <2>1 DEF Pairs
<1>2. a + 1 \in Int /\ a + n \in Int
  OBVIOUS
<1>3. /\ d \in Seq(Nat \X Nat)
      /\ Len(d) = IF a + 1 <= a + n THEN (a + n) - (a + 1) + 1 ELSE 0
      /\ \A j \in 1..((a + n) - (a + 1) + 1) : d[j] = s[(a + 1) + j - 1]
  BY <1>1, <1>2, SubSeqProperties, SMTT(30)
<1> HIDE DEF d
<1>4. Len(d) = n /\ (a + n) - (a + 1) + 1 = n
  BY <1>3
<1>5. \A j \in 1..n : d[j] = s[a + j]
  <2>1. \A j \in 1..n : (a + 1) + j - 1 = a + j
    OBVIOUS
  <2> QED BY <1>3, <1>4, <2>1
<1>6. DOMAIN d = 1..n /\ d = [j \in DOMAIN d |-> d[j]]
  BY <1>3, <1>4
<1> QED BY <1>5, <1>6 DEF d

\* No path out of a call, and no new group, leaves a batch behind.
THEOREM HostFreesHandles == Spec => []HandlesFreed
<1>1. HostInv => HandlesFreed
  BY Now DEF OpenOK, HandlesFreed
<1> QED BY <1>1, HostAlways, PTL

\* The error a host reports is that of the call that failed on its own thread,
\* whatever the other threads do to their messages meanwhile.
THEOREM HostReportsOwnError == Spec => []OwnErrorReported
<1>1. HostInv => OwnErrorReported
  BY Now DEF ErrorOK, OwnErrorReported, At
<1> QED BY <1>1, HostAlways, PTL

\* However a call ends, the rows whose requests went out are a prefix of its
\* rows, each sent once.
THEOREM HostSendsPrefix == Spec => []PrefixSent
<1>1. ASSUME HostInv, NEW t \in Threads
      PROVE  LET n == Len(th[t].sent) IN
             /\ th[t].sent = [k \in 1..n |-> k]
             /\ th[t].cause \in {"required", "add"} => n = th[t].row - 1
             /\ th[t].cause = "json" => n = th[t].row
             /\ Done(t) => n = Len(Rows(t))
  <2>1. SentOK(t, th[t]) /\ th[t].sent \in Seq(Nat)
    BY <1>1, Now, Fields
  <2>2. th[t].sent = [k \in 1..Len(th[t].sent) |-> k]
    BY <2>1, IdentityFact DEF SentOK
  <2> QED BY <2>1, <2>2 DEF SentOK, Done, At
<1>2. HostInv => PrefixSent
  BY <1>1 DEF PrefixSent
<1> QED BY <1>2, HostAlways, PTL

\* Every row gets the result of its own request, made with its own
\* configuration, however the configurations alternate down the chunk.
THEOREM HostMatchesRows == Spec => []RowsMatched
<1>1. ASSUME HostInv, NEW t \in Threads, Done(t), NEW k \in 1..Len(Rows(t))
      PROVE  th[t].output[k].row = k /\ th[t].output[k].config = Config(t, k)
  <2>1. OutputOK(t, th[t]) /\ HasResult(t, th[t], k)
    BY <1>1, Now DEF HasResult, Done, At
  <2> QED BY <2>1 DEF OutputOK
<1>2. HostInv => RowsMatched
  BY <1>1 DEF RowsMatched
<1> QED BY <1>2, HostAlways, PTL

\* The slices of the list child that the MAP entries designate hold each row's own
\* headers and fill the child.
THEOREM HostMatchesMaps == Spec => []MapsMatched
<1>1. ASSUME HostInv, NEW t \in Threads, At(t, "done"), Host(t) = "duckdb",
             NEW k \in 1..Len(Rows(t))
      PROVE  LET e == th[t].entries[k] IN
                 SubSeq(th[t].child, e.offset + 1, e.offset + e.length)
                     = [j \in 1..Rows(t)[k].headers |-> <<k, j>>]
  <2> DEFINE e == th[t].entries[k]
  <2> DEFINE child == th[t].child
  <2>1. MapsOK(t, th[t]) /\ HasEntry(t, th[t], k)
    BY <1>1, Now DEF HasEntry, At
  <2>2. /\ e.length = Rows(t)[k].headers /\ e.offset + e.length <= Len(child)
        /\ \A j \in 1..e.length : child[e.offset + j] = <<k, j>>
    BY <2>1 DEF MapsOK
  <2>3. /\ e.offset \in Nat /\ e.length \in Nat
        /\ child \in Seq(Nat \X Nat) /\ Len(child) \in Nat
    <3>1. th[t].entries \in [1..Len(Rows(t)) -> EntryType] /\ child \in Pairs
      BY <1>1, Typed DEF Locals
    <3>2. e \in EntryType
      BY <3>1
    <3> QED BY <3>1, <3>2 DEF EntryType, Pairs
  <2> HIDE DEF e, child
  <2>4. SubSeq(child, e.offset + 1, e.offset + e.length) = [j \in 1..e.length |-> <<k, j>>]
    <3>1. SubSeq(child, e.offset + 1, e.offset + e.length)
             = [j \in 1..e.length |-> child[e.offset + j]]
      BY <2>2, <2>3, SliceFact DEF Pairs
    <3> QED BY <2>2, <3>1
  <2> QED BY <2>2, <2>4 DEF e, child
<1>2. ASSUME HostInv, NEW t \in Threads PROVE Len(th[t].child) = th[t].offset
  BY <1>2, Now DEF MapsOK
<1>3. HostInv => MapsMatched
  BY <1>1, <1>2 DEF MapsMatched
<1> QED BY <1>3, HostAlways, PTL

\* Every row's body is its response's: an envelope from which the bytes can be
\* recovered, in well-formed UTF-8, or for the other functions the bytes themselves.
THEOREM HostKeepsBodies == Spec => []BodiesSurvive
<1>1. ASSUME HostInv, NEW t \in Threads, Done(t), NEW k \in 1..Len(Rows(t))
      PROVE  LET body == th[t].output[k].body IN
             IF AsJson(t) THEN /\ Recovered(body) = Rows(t)[k].body
                               /\ body.encoding = "utf8" => WellFormed(body.text)
             ELSE body = Rows(t)[k].body
  <2> DEFINE body == th[t].output[k].body
  <2> DEFINE bytes == Rows(t)[k].body
  <2>1. OutputOK(t, th[t]) /\ HasResult(t, th[t], k)
    BY <1>1, Now DEF HasResult, Done, At
  <2>2. body = IF AsJson(t) THEN Envelope(bytes) ELSE bytes
    BY <2>1 DEF OutputOK
  <2>3. bytes \in Seq(Byte)
    <3>1. Rows(t) \in Seq(RowType)
      BY <1>1, Typed
    <3>2. Rows(t)[k] \in RowType
      BY <3>1
    <3> QED BY <3>2 DEF RowType, Byte
  <2> HIDE DEF body, bytes
  <2>4. /\ Recovered(Envelope(bytes)) = bytes
        /\ Envelope(bytes).encoding = "utf8" => WellFormed(Envelope(bytes).text)
    BY <2>3, EnvelopeKeepsBody
  <2>5. IF AsJson(t) THEN /\ Recovered(body) = bytes
                          /\ body.encoding = "utf8" => WellFormed(body.text)
        ELSE body = bytes
    BY <2>2, <2>4
  <2> QED BY <2>5 DEF body, bytes
<1>2. HostInv => BodiesSurvive
  BY <1>1 DEF BodiesSurvive
<1> QED BY <1>2, HostAlways, PTL
=============================================================================
