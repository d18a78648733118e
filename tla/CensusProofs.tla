----------------------------- MODULE CensusProofs -----------------------------
(***************************************************************************)
(* A swap finds the nearest marked tick, for words of any width.           *)
(*                                                                         *)
(* CensusInv says that each layer of bitmaps is exact: a terminus bit for  *)
(* each marked tick, a mezzanine bit for each terminus word that is not    *)
(* empty.  The seeks are then followed from the inside out.  What a step   *)
(* of a seek has shown to be empty is a stretch of ticks without marks, so *)
(* each lemma moves the question to a smaller set of marks: those from a   *)
(* bit of a word on, from a word on, from a row of words on.               *)
(***************************************************************************)
EXTENDS TickCensus, SumLemmas

-----------------------------------------------------------------------------
(***************************************************************************)
(* Digits.                                                                 *)
(***************************************************************************)
HalfWord == Width \div 2

LEMMA WordFacts ==
    /\ Width \in Nat /\ Width >= 2 /\ HalfWord \in Nat /\ Width = 2 * HalfWord
    /\ Bits \subseteq Nat
<1>1. Width \in Nat /\ Width > 0 /\ Width % 2 = 0
  BY WidthAssumption
<1> QED BY <1>1 DEF HalfWord, Bits

LEMMA DivFacts ==
    ASSUME NEW n \in Nat, n > 0, NEW a \in Int
    PROVE  a \div n \in Int /\ a % n \in 0 .. n - 1 /\ a = (a \div n) * n + (a % n)
OBVIOUS

LEMMA TimesMono ==
    ASSUME NEW n \in Nat, NEW x \in Int, NEW y \in Int, x <= y
    PROVE  x * n <= y * n /\ x * n \in Int /\ y * n \in Int
OBVIOUS

LEMMA NextTimes ==
    ASSUME NEW n \in Nat, NEW x \in Int
    PROVE  (x + 1) * n = (x * n) + n
OBVIOUS

\* Numbers of two digits are ordered by the first digit, then by the second.
LEMMA DigitOrder ==
    ASSUME NEW q \in Int, NEW p \in Int, NEW r \in Bits, NEW s \in Bits
    PROVE  (q * Width + r < p * Width + s) <=> (q < p \/ (q = p /\ r < s))
<1>1. ASSUME NEW x \in Int, NEW y \in Int, NEW a \in Bits, NEW b \in Bits, x < y
      PROVE  x * Width + a < y * Width + b
  <2>1. Width \in Nat /\ a \in Nat /\ b \in Nat /\ a < Width /\ x + 1 \in Int /\ x + 1 <= y
    BY <1>1, WordFacts DEF Bits
  <2>2. (x + 1) * Width <= y * Width /\ x * Width \in Int /\ y * Width \in Int
    BY <2>1, TimesMono
  <2>3. (x + 1) * Width = (x * Width) + Width
    BY <2>1, NextTimes
  <2> QED BY <2>1, <2>2, <2>3
<1>2. q * Width \in Int /\ p * Width \in Int /\ r \in Nat /\ s \in Nat
  BY WordFacts DEF Bits
<1>3. CASE q < p
  BY <1>1, <1>3
<1>4. CASE p < q
  <2>1. p * Width + s < q * Width + r
    BY <1>1, <1>4
  <2>2. ~ (q * Width + r < p * Width + s)
    BY <1>2, <2>1
  <2> QED BY <1>4, <2>2
<1>5. CASE q = p
  BY <1>2, <1>5
<1> QED BY <1>3, <1>4, <1>5

LEMMA DigitsUnique ==
    ASSUME NEW q \in Int, NEW r \in Bits
    PROVE  /\ (q * Width + r) \div Width = q
           /\ (q * Width + r) % Width = r
<1> DEFINE a == q * Width + r
           d == a \div Width
           m == a % Width
<1>1. a \in Int /\ Width \in Nat /\ Width > 0
  BY WordFacts DEF Bits
<1>2. d \in Int /\ m \in 0 .. Width - 1 /\ a = d * Width + m
  <2> HIDE DEF a
  <2> QED BY <1>1, DivFacts
<1>3. m \in Bits
  BY <1>2 DEF Bits
<1> HIDE DEF d, m
<1>4. ~ (d * Width + m < q * Width + r) /\ ~ (q * Width + r < d * Width + m)
  BY <1>1, <1>2
<1>5. /\ ~ (d < q \/ (d = q /\ m < r))
      /\ ~ (q < d \/ (q = d /\ r < m))
  BY <1>2, <1>3, <1>4, DigitOrder
<1>6. d = q /\ m = r
  BY <1>2, <1>3, <1>5, WordFacts DEF Bits
<1> QED BY <1>6 DEF d, m

\* A digit more: a key, and a bit in the word it names.
LEMMA OneMoreDigit ==
    ASSUME NEW n \in Nat
    PROVE  /\ n * Width \in Nat
           /\ \A a \in -(n * Width) .. n * Width - 1 :
                 /\ a \div Width \in -n .. n - 1 /\ a % Width \in Bits
                 /\ a = (a \div Width) * Width + (a % Width)
           /\ \A q \in -n .. n - 1, r \in Bits :
                 q * Width + r \in -(n * Width) .. n * Width - 1
<1> DEFINE span == n * Width
<1>1. /\ Width \in Nat /\ Width > 0 /\ span \in Nat /\ 0 \in Bits /\ -n \in Int
      /\ \A b \in Bits : b \in Nat
  BY WordFacts DEF Bits
<1>2. (-n) * Width = -span /\ n * Width = span
  BY <1>1
<1> HIDE DEF span
<1>3. ASSUME NEW d \in Int, NEW m \in Bits
      PROVE  d * Width + m \in -span .. span - 1 <=> d \in -n .. n - 1
  <2>1. d * Width + m \in Int /\ d * Width \in Int /\ m \in Nat
    BY <1>1
  <2>2. PICK z \in Bits, low \in Int : z = 0 /\ low = -n
    BY <1>1
  <2>3. /\ (d * Width + m < n * Width + z) <=> (d < n \/ (d = n /\ m < z))
        /\ (d * Width + m < low * Width + z) <=> (d < low \/ (d = low /\ m < z))
    BY DigitOrder
  <2> DEFINE a == d * Width + m
  <2>4. (a < span) <=> d < n
    BY <1>1, <1>2, <2>1, <2>2, <2>3
  <2>5. (a < -span) <=> d < -n
    BY <1>1, <1>2, <2>1, <2>2, <2>3
  <2>6. a \in Int
    BY <2>1
  <2> HIDE DEF a
  <2>7. a \in -span .. span - 1 <=> d \in -n .. n - 1
    BY <1>1, <2>4, <2>5, <2>6
  <2> QED BY <2>7 DEF a
<1>4. ASSUME NEW a \in -span .. span - 1
      PROVE  /\ a \div Width \in -n .. n - 1 /\ a % Width \in Bits
             /\ a = (a \div Width) * Width + (a % Width)
  <2>1. a \div Width \in Int /\ a % Width \in Bits /\ a = (a \div Width) * Width + (a % Width)
    BY <1>1, DivFacts DEF Bits
  <2>2. PICK d \in Int, m \in Bits : d = a \div Width /\ m = a % Width /\ a = d * Width + m
    BY <2>1
  <2>3. d \in -n .. n - 1
    BY <1>3, <2>2
  <2> QED BY <2>1, <2>2, <2>3
<1>5. ASSUME NEW q \in -n .. n - 1, NEW r \in Bits
      PROVE  q * Width + r \in -span .. span - 1
  BY <1>3
<1> QED BY <1>1, <1>4, <1>5, Zenon DEF span

LEMMA DivUnique ==
    ASSUME NEW n \in Nat, n > 0, NEW a \in Int, NEW q \in Int, NEW r \in 0 .. n - 1,
           a = q * n + r
    PROVE  a \div n = q /\ a % n = r
OBVIOUS

\* The keys of one, two and three digits.
LEMMA KeyRanges ==
    /\ Keys(1) = -HalfWord .. HalfWord - 1
    /\ Keys(2) = -(HalfWord * Width) .. HalfWord * Width - 1
    /\ CensusTicks = -((HalfWord * Width) * Width) .. (HalfWord * Width) * Width - 1
<1> DEFINE two == HalfWord * Width
           three == two * Width
<1>1. Width \in Nat /\ HalfWord \in Nat /\ Width = 2 * HalfWord
  BY WordFacts
<1>2. \A x \in Int : (2 * HalfWord) * x = 2 * (HalfWord * x)
  BY <1>1
<1>3. two \in Nat /\ Width * Width = 2 * two
  BY <1>1, <1>2
<1> HIDE DEF two
<1>4. three \in Nat /\ Width * Width * Width = 2 * three
  <2>1. Width * Width * Width = (2 * two) * Width
    BY <1>3
  <2>2. (2 * two) * Width = 2 * (two * Width)
    BY <1>1, <1>3
  <2>3. two * Width \in Nat
    BY <1>1, <1>3
  <2> QED BY <2>1, <2>2, <2>3
<1> HIDE DEF three
<1>5. \A n \in Nat : (2 * n) \div 2 = n
  OBVIOUS
<1>6. Span[1] \div 2 = HalfWord /\ Span[2] \div 2 = two /\ Span[3] \div 2 = three
  <2>1. Span[1] = Width /\ Span[2] = Width * Width /\ Span[3] = Width * Width * Width
    BY DEF Span
  <2> QED BY <1>1, <1>3, <1>4, <1>5, <2>1
<1>7. /\ Keys(1) = -HalfWord .. HalfWord - 1
      /\ Keys(2) = -two .. two - 1
      /\ CensusTicks = -three .. three - 1
  BY <1>6 DEF Keys, MinKey, MaxKey, CensusTicks
<1> QED BY <1>7 DEF two, three

\* The word of a tick and its bit there name the tick.
LEMMA TickDigits ==
    /\ CensusTicks \subseteq Int
    /\ \A t \in CensusTicks : MezzKey(t) \in Keys(2) /\ TermBit(t) \in Bits
    /\ \A t \in CensusTicks : WeldMezzTerm(MezzKey(t), TermBit(t)) = t
    /\ \A k \in Keys(2), b \in Bits :
          /\ WeldMezzTerm(k, b) \in CensusTicks
          /\ MezzKey(WeldMezzTerm(k, b)) = k
          /\ TermBit(WeldMezzTerm(k, b)) = b
<1> DEFINE n == HalfWord * Width
<1>1. n \in Nat
  BY WordFacts
<1>2. Keys(2) = -n .. n - 1 /\ CensusTicks = -(n * Width) .. n * Width - 1
  BY KeyRanges
<1> HIDE DEF n
<1>3. /\ n * Width \in Nat
      /\ \A a \in CensusTicks :
            /\ a \div Width \in Keys(2) /\ a % Width \in Bits
            /\ a = (a \div Width) * Width + (a % Width)
      /\ \A q \in Keys(2), r \in Bits : q * Width + r \in CensusTicks
  BY <1>1, <1>2, OneMoreDigit, Zenon
<1>4. Keys(2) \subseteq Int /\ CensusTicks \subseteq Int
  BY <1>1, <1>2, <1>3
<1>5. ASSUME NEW k \in Keys(2), NEW b \in Bits
      PROVE  MezzKey(WeldMezzTerm(k, b)) = k /\ TermBit(WeldMezzTerm(k, b)) = b
  <2>1. k \in Int
    BY <1>4
  <2> QED BY <2>1, DigitsUnique, Zenon DEF MezzKey, TermBit, WeldMezzTerm
<1> QED BY <1>3, <1>4, <1>5, Zenon DEF MezzKey, TermBit, WeldMezzTerm

\* The row of a word and its bit there.
Row(k) == k \div Width
Col(k) == k % Width
KeyAt(r, m) == r * Width + m

LEMMA KeyDigits ==
    /\ Keys(1) \subseteq Int /\ Keys(2) \subseteq Int
    /\ \A k \in Keys(2) : Row(k) \in Keys(1) /\ Col(k) \in Bits
    /\ \A k \in Keys(2) : KeyAt(Row(k), Col(k)) = k
    /\ \A r \in Keys(1), m \in Bits :
          /\ KeyAt(r, m) \in Keys(2)
          /\ Row(KeyAt(r, m)) = r
          /\ Col(KeyAt(r, m)) = m
<1>1. HalfWord \in Nat
  BY WordFacts
<1>2. /\ Keys(1) = -HalfWord .. HalfWord - 1
      /\ Keys(2) = -(HalfWord * Width) .. HalfWord * Width - 1
  BY KeyRanges
<1>3. /\ HalfWord * Width \in Nat
      /\ \A a \in Keys(2) :
            /\ a \div Width \in Keys(1) /\ a % Width \in Bits
            /\ a = (a \div Width) * Width + (a % Width)
      /\ \A q \in Keys(1), r \in Bits : q * Width + r \in Keys(2)
  BY <1>1, <1>2, OneMoreDigit, Zenon
<1>4. Keys(1) \subseteq Int /\ Keys(2) \subseteq Int
  BY <1>1, <1>2, <1>3
<1>5. ASSUME NEW r \in Keys(1), NEW m \in Bits
      PROVE  Row(KeyAt(r, m)) = r /\ Col(KeyAt(r, m)) = m
  <2>1. r \in Int
    BY <1>4
  <2> QED BY <2>1, DigitsUnique, Zenon DEF Row, Col, KeyAt
<1> QED BY <1>3, <1>4, <1>5, Zenon DEF Row, Col, KeyAt

\* Ticks are ordered by their words, words by their rows.
LEMMA TickOrder ==
    ASSUME NEW t \in CensusTicks, NEW u \in CensusTicks
    PROVE  t < u <=> \/ MezzKey(t) < MezzKey(u)
                     \/ MezzKey(t) = MezzKey(u) /\ TermBit(t) < TermBit(u)
<1>1. PICK q \in Int, r \in Bits : q = MezzKey(t) /\ r = TermBit(t) /\ t = q * Width + r
  BY TickDigits, KeyDigits DEF WeldMezzTerm
<1>2. PICK p \in Int, s \in Bits : p = MezzKey(u) /\ s = TermBit(u) /\ u = p * Width + s
  BY TickDigits, KeyDigits DEF WeldMezzTerm
<1>3. (q * Width + r < p * Width + s) <=> (q < p \/ (q = p /\ r < s))
  BY DigitOrder
<1> QED BY <1>1, <1>2, <1>3

LEMMA KeyOrder ==
    ASSUME NEW k \in Keys(2), NEW j \in Keys(2)
    PROVE  k < j <=> Row(k) < Row(j) \/ (Row(k) = Row(j) /\ Col(k) < Col(j))
<1>1. PICK q \in Int, r \in Bits : q = Row(k) /\ r = Col(k) /\ k = q * Width + r
  BY KeyDigits DEF KeyAt
<1>2. PICK p \in Int, s \in Bits : p = Row(j) /\ s = Col(j) /\ j = p * Width + s
  BY KeyDigits DEF KeyAt
<1>3. (q * Width + r < p * Width + s) <=> (q < p \/ (q = p /\ r < s))
  BY DigitOrder
<1> QED BY <1>1, <1>2, <1>3

\* The lobby key, taken from the tick at once, is the row of its word.
LEMMA LobbyOfTick ==
    ASSUME NEW t \in CensusTicks
    PROVE  /\ LobbyKey(t) = Row(MezzKey(t))
           /\ LobbyBit(t) = Row(MezzKey(t)) + HalfWord
           /\ MezzBit(t) = Col(MezzKey(t))
<1>1. PICK k \in Keys(2), b \in Bits : k = MezzKey(t) /\ t = k * Width + b
  BY TickDigits DEF WeldMezzTerm
<1>2. PICK l \in Int, c \in Bits : l = Row(k) /\ k = l * Width + c
  BY KeyDigits DEF KeyAt
<1> DEFINE low == c * Width + b
           sq == Width * Width
<1>3. Width \in Nat /\ Width > 0 /\ sq \in Nat /\ sq > 0 /\ b \in Nat /\ c \in Nat /\ c < Width
  BY WordFacts DEF Bits
<1>4. low \in 0 .. sq - 1
  <2>1. PICK z \in Bits, w \in Int : z = 0 /\ w = Width
    BY <1>3 DEF Bits
  <2>2. c \in Int
    BY <1>3
  <2>3. (c * Width + b < w * Width + z) <=> (c < w \/ (c = w /\ b < z))
    BY <2>2, DigitOrder
  <2>4. low \in Nat /\ low < w * Width + z
    <3>1. c * Width \in Nat
      BY <1>3
    <3> QED BY <1>3, <2>1, <2>3, <3>1
  <2>5. w * Width + z = sq
    <3>1. w * Width = sq
      BY <2>1
    <3> HIDE DEF sq
    <3> QED BY <1>3, <2>1, <3>1
  <2> HIDE DEF low, sq
  <2> QED BY <1>3, <2>4, <2>5
<1>5. t = l * sq + low
  <2>1. (l * Width + c) * Width = (l * Width) * Width + c * Width
    BY <1>3
  <2>2. (l * Width) * Width = l * (Width * Width)
    BY <1>3
  <2>3. l * sq \in Int /\ c * Width \in Nat
    BY <1>3
  <2> QED BY <1>1, <1>2, <1>3, <2>1, <2>2, <2>3
<1>6. t \in Int
  BY TickDigits
<1>7. t \div sq = l
  <2> HIDE DEF low, sq
  <2> QED BY <1>3, <1>4, <1>5, <1>6, DivUnique
<1> QED BY <1>1, <1>2, <1>7 DEF LobbyKey, LobbyBit, MezzBit, Row, Col, HalfWord

-----------------------------------------------------------------------------
(***************************************************************************)
(* The bitmaps are exact.                                                  *)
(***************************************************************************)
BitmapsTyped ==
    /\ mezzanine \in [Keys(1) -> SUBSET Bits]
    /\ terminus \in [Keys(2) -> SUBSET Bits]
    /\ marked \in SUBSET CensusTicks

\* A terminus bit for each marked tick, and no other.
TerminusExact ==
    \A t \in CensusTicks : TermBit(t) \in terminus[MezzKey(t)] <=> t \in marked
\* A mezzanine bit for each terminus word that has bits, and no other.
MezzanineExact ==
    \A k \in Keys(2) : Col(k) \in mezzanine[Row(k)] <=> terminus[k] # {}

CensusInv == BitmapsTyped /\ TerminusExact /\ MezzanineExact

LEMMA CensusInit == Init => CensusInv
<1> SUFFICES ASSUME Init PROVE CensusInv
  OBVIOUS
<1>1. BitmapsTyped
  BY DEF Init, BitmapsTyped
<1>2. TerminusExact
  BY TickDigits DEF Init, TerminusExact
<1>3. MezzanineExact
  BY KeyDigits DEF Init, MezzanineExact
<1> QED BY <1>1, <1>2, <1>3 DEF CensusInv

\* What holds of the digits of two ticks, or of two words, that are not one.
LEMMA DigitsApart ==
    /\ \A t, u \in CensusTicks : MezzKey(t) = MezzKey(u) /\ TermBit(t) = TermBit(u) => t = u
    /\ \A k, j \in Keys(2) : Row(k) = Row(j) /\ Col(k) = Col(j) => k = j
<1>1. ASSUME NEW t \in CensusTicks, NEW u \in CensusTicks,
             MezzKey(t) = MezzKey(u), TermBit(t) = TermBit(u)
      PROVE  t = u
  BY <1>1, TickDigits, Zenon
<1>2. ASSUME NEW k \in Keys(2), NEW j \in Keys(2), Row(k) = Row(j), Col(k) = Col(j)
      PROVE  k = j
  BY <1>2, KeyDigits, Zenon
<1> QED BY <1>1, <1>2

LEMMA BookmarkKeepsExact ==
    ASSUME CensusInv, NEW tick \in CensusTicks, BookmarkTick(tick)
    PROVE  CensusInv'
<1> DEFINE key == MezzKey(tick)
           bit == TermBit(tick)
<1>1. /\ key \in Keys(2) /\ bit \in Bits /\ Row(key) \in Keys(1) /\ Col(key) \in Bits
      /\ LobbyKey(tick) = Row(key) /\ MezzBit(tick) = Col(key)
  BY TickDigits, KeyDigits, LobbyOfTick
<1> HIDE DEF key, bit
<1>2. /\ mezzanine' = [mezzanine EXCEPT ![Row(key)] = @ \cup {Col(key)}]
      /\ terminus' = [terminus EXCEPT ![key] = @ \cup {bit}]
      /\ marked' = marked \cup {tick}
  BY <1>1 DEF BookmarkTick, key, bit
<1>3. BitmapsTyped'
  BY <1>1, <1>2 DEF CensusInv, BitmapsTyped
<1>4. /\ \A k \in Keys(2) : terminus'[k] = IF k = key THEN terminus[k] \cup {bit} ELSE terminus[k]
      /\ \A r \in Keys(1) :
            mezzanine'[r] = IF r = Row(key) THEN mezzanine[r] \cup {Col(key)} ELSE mezzanine[r]
  BY <1>1, <1>2 DEF CensusInv, BitmapsTyped
<1>5. TerminusExact'
  <2> SUFFICES ASSUME NEW t \in CensusTicks
               PROVE  TermBit(t) \in terminus'[MezzKey(t)] <=> t \in marked'
    BY DEF TerminusExact
  <2>1. MezzKey(t) \in Keys(2)
    BY TickDigits
  <2>2. TermBit(t) \in terminus[MezzKey(t)] <=> t \in marked
    BY DEF CensusInv, TerminusExact
  <2>3. (MezzKey(t) = key /\ TermBit(t) = bit) <=> t = tick
    BY DigitsApart DEF key, bit
  <2> QED BY <1>2, <1>4, <2>1, <2>2, <2>3
<1>6. MezzanineExact'
  <2> SUFFICES ASSUME NEW k \in Keys(2)
               PROVE  Col(k) \in mezzanine'[Row(k)] <=> terminus'[k] # {}
    BY DEF MezzanineExact
  <2>1. Row(k) \in Keys(1)
    BY KeyDigits
  <2>2. Col(k) \in mezzanine[Row(k)] <=> terminus[k] # {}
    BY DEF CensusInv, MezzanineExact
  <2>3. (Row(k) = Row(key) /\ Col(k) = Col(key)) <=> k = key
    BY <1>1, DigitsApart
  <2>4. CASE k = key
    BY <1>4, <2>1, <2>4
  <2>5. CASE k # key
    BY <1>4, <2>1, <2>2, <2>3, <2>5
  <2> QED BY <2>4, <2>5
<1> QED BY <1>3, <1>5, <1>6 DEF CensusInv

LEMMA ForgetKeepsExact ==
    ASSUME CensusInv, NEW tick \in CensusTicks, ForgetTick(tick)
    PROVE  CensusInv'
<1> DEFINE key == MezzKey(tick)
           bit == TermBit(tick)
<1>1. /\ key \in Keys(2) /\ bit \in Bits /\ Row(key) \in Keys(1) /\ Col(key) \in Bits
      /\ LobbyKey(tick) = Row(key) /\ MezzBit(tick) = Col(key)
  BY TickDigits, KeyDigits, LobbyOfTick
<1> HIDE DEF key, bit
<1>2. /\ mezzanine' = IF terminus'[key] # {} THEN mezzanine
                      ELSE [mezzanine EXCEPT ![Row(key)] = @ \ {Col(key)}]
      /\ terminus' = [terminus EXCEPT ![key] = @ \ {bit}]
      /\ marked' = marked \ {tick}
  BY <1>1 DEF ForgetTick, key, bit
<1>3. BitmapsTyped'
  BY <1>1, <1>2 DEF CensusInv, BitmapsTyped
<1>4. /\ \A k \in Keys(2) : terminus'[k] = IF k = key THEN terminus[k] \ {bit} ELSE terminus[k]
      /\ \A r \in Keys(1) :
            mezzanine'[r] = IF r = Row(key) /\ terminus'[key] = {}
                            THEN mezzanine[r] \ {Col(key)} ELSE mezzanine[r]
  BY <1>1, <1>2 DEF CensusInv, BitmapsTyped
<1>5. TerminusExact'
  <2> SUFFICES ASSUME NEW t \in CensusTicks
               PROVE  TermBit(t) \in terminus'[MezzKey(t)] <=> t \in marked'
    BY DEF TerminusExact
  <2>1. MezzKey(t) \in Keys(2)
    BY TickDigits
  <2>2. TermBit(t) \in terminus[MezzKey(t)] <=> t \in marked
    BY DEF CensusInv, TerminusExact
  <2>3. (MezzKey(t) = key /\ TermBit(t) = bit) <=> t = tick
    BY DigitsApart DEF key, bit
  <2> QED BY <1>2, <1>4, <2>1, <2>2, <2>3
<1>6. MezzanineExact'
  <2> SUFFICES ASSUME NEW k \in Keys(2)
               PROVE  Col(k) \in mezzanine'[Row(k)] <=> terminus'[k] # {}
    BY DEF MezzanineExact
  <2>1. Row(k) \in Keys(1)
    BY KeyDigits
  <2>2. Col(k) \in mezzanine[Row(k)] <=> terminus[k] # {}
    BY DEF CensusInv, MezzanineExact
  <2>3. (Row(k) = Row(key) /\ Col(k) = Col(key)) <=> k = key
    BY <1>1, DigitsApart
  <2>4. CASE k = key
    <3>1. terminus'[k] # {} => terminus[k] # {}
      BY <1>4, <2>4
    <3> QED BY <1>4, <2>1, <2>2, <2>4, <3>1
  <2>5. CASE k # key
    BY <1>4, <2>1, <2>2, <2>3, <2>5
  <2> QED BY <2>4, <2>5
<1> QED BY <1>3, <1>5, <1>6 DEF CensusInv

LEMMA CensusStep == CensusInv /\ [Next]_vars => CensusInv'
<1> SUFFICES ASSUME CensusInv, [Next]_vars PROVE CensusInv'
  OBVIOUS
<1>1. CASE Next
  BY <1>1, BookmarkKeepsExact, ForgetKeepsExact DEF Next
<1>2. CASE UNCHANGED vars
  BY <1>2 DEF vars, CensusInv, BitmapsTyped, TerminusExact, MezzanineExact
<1> QED BY <1>1, <1>2

\* Every state has exact bitmaps (bookmarkTick, forgetTick).
THEOREM CensusExact == Spec => []CensusInv
BY CensusInit, CensusStep, PTL DEF Spec

-----------------------------------------------------------------------------
(***************************************************************************)
(* The first and the last of a set of bits.                                *)
(***************************************************************************)
LEMMA BitsHaveFirst ==
    ASSUME NEW S \in SUBSET Bits, S # {}
    PROVE  Min(S) \in S /\ \A b \in S : Min(S) <= b
<1> DEFINE upTo(b) == 0 .. b
           B == {upTo(b) : b \in S}
<1>1. Bits \subseteq Nat /\ IsFiniteSet(Bits) /\ B \in SUBSET (SUBSET Bits) /\ B # {}
  <2>1. Width \in Nat /\ Bits \subseteq Nat
    BY WordFacts
  <2>2. IsFiniteSet(Bits)
    BY <2>1, FS_Interval DEF Bits
  <2>3. \A b \in S : upTo(b) \in SUBSET Bits
    BY <2>1 DEF Bits
  <2> QED BY <2>1, <2>2, <2>3
<1>2. PICK s \in B : \A t \in SUBSET s : t # s => t \notin B
  <2> HIDE DEF B
  <2> QED BY <1>1, SmallestSet
<1>3. PICK m \in S : s = upTo(m)
  BY <1>2
<1>4. \A b \in S : m <= b
  <2> SUFFICES ASSUME NEW b \in S, ~ (m <= b) PROVE FALSE
    OBVIOUS
  <2>1. b \in Nat /\ m \in Nat
    BY <1>1
  <2>2. upTo(b) \in SUBSET s /\ upTo(b) # s
    BY <1>3, <2>1
  <2> QED BY <1>2, <2>2
<1> QED BY <1>4 DEF Min

LEMMA BitsHaveLast ==
    ASSUME NEW S \in SUBSET Bits, S # {}
    PROVE  Max(S) \in S /\ \A b \in S : Max(S) >= b
<1> DEFINE top == Width - 1
           flip(b) == top - b
           T == {flip(b) : b \in S}
<1>1. /\ top \in Int /\ \A b \in Bits : b \in Int /\ flip(b) \in Bits
  BY WordFacts DEF Bits
<1>2. T \in SUBSET Bits /\ T # {}
  BY <1>1
<1>3. Min(T) \in T /\ \A c \in T : Min(T) <= c
  <2> HIDE DEF T
  <2> QED BY <1>2, BitsHaveFirst
<1>4. PICK m \in S : Min(T) = flip(m)
  BY <1>3
<1>5. \A b \in S : m >= b
  <2> SUFFICES ASSUME NEW b \in S PROVE m >= b
    OBVIOUS
  <2>1. flip(m) <= flip(b)
    BY <1>3, <1>4
  <2>2. b \in Int /\ m \in Int
    BY <1>1
  <2> QED BY <1>1, <2>1, <2>2
<1> QED BY <1>5 DEF Max

-----------------------------------------------------------------------------
(***************************************************************************)
(* Sets of marks.  A tick lies by its word k and bit b, a word by its row  *)
(* r and bit m there.                                                      *)
(***************************************************************************)
Infinity == ZeroTick(TRUE)
MinusInfinity == ZeroTick(FALSE)

\* v is the first mark of S, or infinity if there is none.
FirstOf(v, S) == v \in S \cup {Infinity} /\ \A u \in S : v <= u
LastOf(v, S) == v \in S \cup {MinusInfinity} /\ \A u \in S : u <= v

BitsFrom(k, b) ==
    {t \in marked : MezzKey(t) > k \/ (MezzKey(t) = k /\ TermBit(t) >= b)}
KeysFrom(k) == {t \in marked : MezzKey(t) >= k}
ColsFrom(r, m) ==
    {t \in marked : \/ Row(MezzKey(t)) > r
                    \/ Row(MezzKey(t)) = r /\ Col(MezzKey(t)) >= m}
RowsFrom(r) == {t \in marked : Row(MezzKey(t)) >= r}

BitsUpTo(k, b) ==
    {t \in marked : MezzKey(t) < k \/ (MezzKey(t) = k /\ TermBit(t) <= b)}
KeysUpTo(k) == {t \in marked : MezzKey(t) <= k}
ColsUpTo(r, m) ==
    {t \in marked : \/ Row(MezzKey(t)) < r
                    \/ Row(MezzKey(t)) = r /\ Col(MezzKey(t)) <= m}
RowsUpTo(r) == {t \in marked : Row(MezzKey(t)) <= r}

LEMMA InfinitiesBound ==
    /\ Infinity \in CensusTicks /\ MinusInfinity \in CensusTicks
    /\ \A t \in CensusTicks : MinusInfinity <= t /\ t <= Infinity
<1>1. /\ 0 \in Keys(1) /\ 0 \in Bits
  BY WordFacts, KeyRanges DEF Bits
<1>2. PICK t : t \in CensusTicks
  BY <1>1, KeyDigits, TickDigits
<1>3. Infinity \in Int /\ MinusInfinity \in Int /\ CensusTicks = MinusInfinity .. Infinity
  <2>1. Span[3] = Width * Width * Width /\ Width * Width * Width \in Int
    BY WordFacts DEF Span
  <2>2. Span[3] \div 2 \in Int
    BY <2>1
  <2> QED BY <2>2 DEF Infinity, MinusInfinity, ZeroTick, CensusTicks, Keys, MinKey, MaxKey
<1> QED BY <1>2, <1>3

LEMMA MarkDigits ==
    ASSUME CensusInv, NEW t \in marked
    PROVE  /\ t \in CensusTicks /\ t \in Int
           /\ MezzKey(t) \in Keys(2) /\ MezzKey(t) \in Int
           /\ TermBit(t) \in Bits /\ TermBit(t) \in terminus[MezzKey(t)]
           /\ Row(MezzKey(t)) \in Keys(1) /\ Row(MezzKey(t)) \in Int
           /\ Col(MezzKey(t)) \in Bits /\ Col(MezzKey(t)) \in mezzanine[Row(MezzKey(t))]
<1>1. t \in CensusTicks
  BY DEF CensusInv, BitmapsTyped
<1>2. TermBit(t) \in terminus[MezzKey(t)] /\ MezzKey(t) \in Keys(2)
  BY <1>1, TickDigits DEF CensusInv, TerminusExact
<1>3. Col(MezzKey(t)) \in mezzanine[Row(MezzKey(t))]
  BY <1>2 DEF CensusInv, MezzanineExact
<1> QED BY <1>1, <1>2, <1>3, TickDigits, KeyDigits

LEMMA BitmapBits ==
    ASSUME CensusInv
    PROVE  /\ \A k \in Keys(2) : terminus[k] \in SUBSET Bits
           /\ \A r \in Keys(1) : mezzanine[r] \in SUBSET Bits
           /\ \A b \in Bits : b \in Nat
BY WordFacts DEF CensusInv, BitmapsTyped

\* A set of marks above a word, seen by words or by rows.
LEMMA SameMarksAbove ==
    ASSUME CensusInv
    PROVE  /\ \A k \in Keys(2) : KeysFrom(k) = BitsFrom(k, 0)
           /\ \A k \in Keys(2) : KeysFrom(k) = ColsFrom(Row(k), Col(k))
           /\ \A r \in Keys(1) : RowsFrom(r) = ColsFrom(r, 0)
<1>1. ASSUME NEW k \in Keys(2), NEW t \in marked
      PROVE  (MezzKey(t) >= k) <=> (MezzKey(t) > k \/ (MezzKey(t) = k /\ TermBit(t) >= 0))
  BY MarkDigits, BitmapBits, KeyDigits
<1>2. ASSUME NEW k \in Keys(2), NEW t \in marked
      PROVE  (MezzKey(t) >= k) <=> \/ Row(MezzKey(t)) > Row(k)
                                   \/ Row(MezzKey(t)) = Row(k) /\ Col(MezzKey(t)) >= Col(k)
  <2>1. /\ MezzKey(t) \in Keys(2) /\ MezzKey(t) \in Int /\ k \in Int
        /\ Row(MezzKey(t)) \in Int /\ Row(k) \in Int
        /\ Col(MezzKey(t)) \in Nat /\ Col(k) \in Nat
    BY MarkDigits, BitmapBits, KeyDigits
  <2>2. MezzKey(t) < k <=> \/ Row(MezzKey(t)) < Row(k)
                           \/ (Row(MezzKey(t)) = Row(k) /\ Col(MezzKey(t)) < Col(k))
    BY <2>1, KeyOrder
  <2> QED BY <2>1, <2>2
<1>3. ASSUME NEW r \in Keys(1), NEW t \in marked
      PROVE  (Row(MezzKey(t)) >= r) <=> \/ Row(MezzKey(t)) > r
                                        \/ Row(MezzKey(t)) = r /\ Col(MezzKey(t)) >= 0
  BY MarkDigits, BitmapBits, KeyDigits
<1> QED BY <1>1, <1>2, <1>3 DEF KeysFrom, BitsFrom, ColsFrom, RowsFrom

-----------------------------------------------------------------------------
(***************************************************************************)
(* Seeking upwards.                                                        *)
(***************************************************************************)
LEMMA TermFirst ==
    ASSUME CensusInv, NEW k \in Keys(2), NEW shift \in Nat,
           Truncate(terminus[k], shift, TRUE) # {}
    PROVE  FirstOf(WeldMezzTerm(k, BitAfterTrunc(terminus[k], shift, TRUE)), BitsFrom(k, shift))
<1> DEFINE rest == Truncate(terminus[k], shift, TRUE)
           b == BitAfterTrunc(terminus[k], shift, TRUE)
           v == WeldMezzTerm(k, b)
<1>1. /\ rest = {c \in terminus[k] : c >= shift} /\ rest \in SUBSET Bits /\ rest # {}
      /\ b = Min(rest)
  BY BitmapBits DEF Truncate, BitAfterTrunc
<1>2. b \in rest /\ \A c \in rest : b <= c
  <2> HIDE DEF rest, b
  <2> QED BY <1>1, BitsHaveFirst
<1> HIDE DEF rest, b
<1>3. /\ b \in Bits /\ b \in terminus[k] /\ b >= shift
      /\ v \in CensusTicks /\ MezzKey(v) = k /\ TermBit(v) = b
  BY <1>1, <1>2, TickDigits
<1> HIDE DEF v
<1>4. v \in marked
  BY <1>3 DEF CensusInv, TerminusExact
<1>5. v \in BitsFrom(k, shift)
  BY <1>3, <1>4 DEF BitsFrom
<1>6. ASSUME NEW u \in BitsFrom(k, shift) PROVE v <= u
  <2>1. /\ u \in CensusTicks /\ u \in Int /\ v \in Int /\ k \in Int /\ b \in Nat
        /\ MezzKey(u) \in Int /\ TermBit(u) \in Nat /\ TermBit(u) \in terminus[MezzKey(u)]
        /\ MezzKey(u) > k \/ (MezzKey(u) = k /\ TermBit(u) >= shift)
    BY <1>3, <1>4, MarkDigits, BitmapBits, KeyDigits DEF BitsFrom
  <2>2. MezzKey(u) = k => b <= TermBit(u)
    BY <1>1, <1>2, <2>1
  <2>3. ~ (u < v)
    <3>1. u < v <=> \/ MezzKey(u) < MezzKey(v)
                    \/ MezzKey(u) = MezzKey(v) /\ TermBit(u) < TermBit(v)
      BY <1>3, <2>1, TickOrder
    <3> QED BY <1>3, <2>1, <2>2, <3>1
  <2> QED BY <2>1, <2>3
<1>7. FirstOf(v, BitsFrom(k, shift))
  BY <1>5, <1>6 DEF FirstOf
<1> QED BY <1>7 DEF v, b

LEMMA TermNoneUp ==
    ASSUME CensusInv, NEW k \in Keys(2), NEW shift \in Nat,
           Truncate(terminus[k], shift, TRUE) = {}
    PROVE  BitsFrom(k, shift) = KeysFrom(k + 1)
<1> SUFFICES ASSUME NEW t \in marked
             PROVE  (MezzKey(t) > k \/ (MezzKey(t) = k /\ TermBit(t) >= shift))
                    <=> MezzKey(t) >= k + 1
  BY DEF BitsFrom, KeysFrom
<1>1. /\ k \in Int /\ MezzKey(t) \in Int /\ TermBit(t) \in terminus[MezzKey(t)]
  BY MarkDigits, KeyDigits
<1>2. \A c \in terminus[k] : ~ (c >= shift)
  BY DEF Truncate
<1> QED BY <1>1, <1>2

\* seekAtTerm: the first mark from the word on, unless the word is empty.
LEMMA SeekTermUp ==
    ASSUME CensusInv, NEW k \in Keys(2)
    PROVE  /\ terminus[k] = {} => SeekAtTerm(Row(k) + HalfWord, Col(k), TRUE) = {}
           /\ terminus[k] # {} =>
                 \E v : /\ SeekAtTerm(Row(k) + HalfWord, Col(k), TRUE) = {v}
                       /\ FirstOf(v, KeysFrom(k))
<1>1. WeldLobbyMezz(Row(k) + HalfWord, Col(k)) = k
  <2>1. Row(k) \in Int /\ HalfWord \in Int /\ KeyAt(Row(k), Col(k)) = k
    BY KeyDigits, WordFacts
  <2>2. Row(k) + HalfWord - HalfWord = Row(k)
    BY <2>1
  <2> QED BY <2>1, <2>2 DEF WeldLobbyMezz, KeyAt, HalfWord
<1>2. Truncate(terminus[k], 0, TRUE) = terminus[k]
  BY BitmapBits DEF Truncate
<1>3. CASE terminus[k] = {}
  BY <1>1, <1>3 DEF SeekAtTerm
<1>4. CASE terminus[k] # {}
  <2> DEFINE v == WeldMezzTerm(k, BitAfterTrunc(terminus[k], 0, TRUE))
  <2>1. SeekAtTerm(Row(k) + HalfWord, Col(k), TRUE) = {v}
    BY <1>1, <1>4 DEF SeekAtTerm
  <2>2. FirstOf(v, BitsFrom(k, 0))
    BY <1>2, <1>4, TermFirst
  <2>3. FirstOf(v, KeysFrom(k))
    BY <2>2, SameMarksAbove
  <2> QED BY <1>4, <2>1, <2>3
<1> QED BY <1>3, <1>4

\* seekAtMezz: the first mark from a word of the row on, unless the rest of
\* the row is empty.
LEMMA SeekMezzUp ==
    ASSUME CensusInv, NEW i \in Bits, NEW r \in Keys(1), i = r + HalfWord, NEW m \in Nat
    PROVE  /\ SeekAtMezz(i, m, TRUE) = {} => ColsFrom(r, m) = RowsFrom(r + 1)
           /\ SeekAtMezz(i, m, TRUE) # {} =>
                 \E v : SeekAtMezz(i, m, TRUE) = {v} /\ FirstOf(v, ColsFrom(r, m))
<1> DEFINE rest == Truncate(mezzanine[r], m, TRUE)
           c == BitAfterTrunc(mezzanine[r], m, TRUE)
           key == KeyAt(r, c)
<1>1. /\ rest = {d \in mezzanine[r] : d >= m} /\ rest \in SUBSET Bits /\ c = Min(rest)
      /\ r \in Int
  BY BitmapBits, KeyDigits DEF Truncate, BitAfterTrunc
<1>2. SeekAtMezz(i, m, TRUE) = IF rest = {} THEN {} ELSE SeekAtTerm(i, c, TRUE)
  <2>1. i - HalfWord = r
    BY <1>1, WordFacts
  <2> QED BY <2>1 DEF SeekAtMezz, BitRelate, HalfWord
<1>3. CASE rest = {}
  <2>1. ASSUME NEW t \in marked
        PROVE  (Row(MezzKey(t)) > r \/ (Row(MezzKey(t)) = r /\ Col(MezzKey(t)) >= m))
               <=> Row(MezzKey(t)) >= r + 1
    <3>1. /\ Row(MezzKey(t)) \in Int
          /\ Col(MezzKey(t)) \in mezzanine[Row(MezzKey(t))]
      BY MarkDigits
    <3>2. \A d \in mezzanine[r] : ~ (d >= m)
      BY <1>1, <1>3
    <3> QED BY <1>1, <3>1, <3>2
  <2>2. ColsFrom(r, m) = RowsFrom(r + 1)
    BY <2>1 DEF ColsFrom, RowsFrom
  <2> QED BY <1>2, <1>3, <2>2
<1>4. CASE rest # {}
  <2>1. c \in rest /\ \A d \in rest : c <= d
    <3> HIDE DEF rest, c
    <3> QED BY <1>1, <1>4, BitsHaveFirst
  <2> HIDE DEF rest, c
  <2>2. c \in Bits /\ c \in mezzanine[r] /\ c >= m
    BY <1>1, <2>1
  <2>3. key \in Keys(2) /\ Row(key) = r /\ Col(key) = c
    BY <2>2, KeyDigits
  <2> HIDE DEF key
  <2>4. terminus[key] # {}
    BY <2>2, <2>3 DEF CensusInv, MezzanineExact
  <2>5. PICK v : SeekAtTerm(i, c, TRUE) = {v} /\ FirstOf(v, KeysFrom(key))
    BY <2>3, <2>4, SeekTermUp
  <2>6. KeysFrom(key) = ColsFrom(r, m)
    <3>1. KeysFrom(key) = ColsFrom(r, c)
      BY <2>3, SameMarksAbove
    <3>2. ASSUME NEW t \in marked, Row(MezzKey(t)) = r
          PROVE  Col(MezzKey(t)) >= m <=> Col(MezzKey(t)) >= c
      <4>1. Col(MezzKey(t)) \in mezzanine[r] /\ Col(MezzKey(t)) \in Nat /\ c \in Nat
        BY <2>2, <3>2, MarkDigits, BitmapBits
      <4> QED BY <1>1, <2>1, <2>2, <4>1
    <3> QED BY <3>1, <3>2 DEF ColsFrom
  <2>7. SeekAtMezz(i, m, TRUE) = {v}
    BY <1>2, <1>4, <2>5
  <2> QED BY <2>5, <2>6, <2>7
<1> QED BY <1>3, <1>4

\* The bit after and before another, as the unsigned word of the walks has it.
LEMMA BitsWrap ==
    ASSUME NEW i \in Bits
    PROVE  /\ (i + 1) % Width = IF i = Width - 1 THEN 0 ELSE i + 1
           /\ (i - 1) % Width = IF i = 0 THEN Width - 1 ELSE i - 1
           /\ 0 \in Bits /\ Width - 1 \in Bits
           /\ i # Width - 1 => i + 1 \in Bits
           /\ i # 0 => i - 1 \in Bits
<1>1. /\ Width \in Nat /\ Width >= 2 /\ i \in Nat /\ i < Width
      /\ \A j : j \in Bits <=> j \in 0 .. Width - 1
  BY WordFacts DEF Bits
<1>2. \A q \in Int, r \in Bits : (q * Width + r) % Width = r
  BY DigitsUnique
<1>3. ASSUME NEW j \in Bits PROVE j % Width = j
  <2>1. 0 * Width + j = j
    BY <1>1
  <2> QED BY <1>2, <2>1
<1>4. Width % Width = 0
  <2>1. 0 \in Bits /\ 1 * Width + 0 = Width
    BY <1>1
  <2> QED BY <1>2, <2>1
<1>5. (-1) % Width = Width - 1
  <2>1. Width - 1 \in Bits /\ (-1) * Width + (Width - 1) = -1
    BY <1>1
  <2> QED BY <1>2, <2>1
<1>6. CASE i = Width - 1
  BY <1>1, <1>3, <1>4, <1>5, <1>6
<1>7. CASE i # Width - 1
  BY <1>1, <1>3, <1>4, <1>5, <1>7
<1> QED BY <1>1, <1>6, <1>7

\* The lobby walk of seekLobbyUp.
IsWalkUp(w) ==
    w = [i \in Bits |->
            LET found == SeekAtMezz(i, 0, TRUE)
            IN  CASE i = 0                -> {ZeroTick(TRUE)}
                  [] i # 0 /\ found # {} -> found
                  [] OTHER                -> w[(i + 1) % Width]]

\* There is such a walk: that of the first row at i or after it with marks.
LEMMA WalkUpExists == \E w : IsWalkUp(w)
<1> DEFINE Found(i) == SeekAtMezz(i, 0, TRUE)
           ahead(i) == {j \in Bits : i <= j /\ Found(j) # {}}
           End(i) == IF i = 0 \/ ahead(i) = {} THEN {Infinity} ELSE Found(Min(ahead(i)))
           w == [i \in Bits |-> End(i)]
<1> SUFFICES ASSUME NEW i \in Bits
             PROVE  End(i) = CASE i = 0                   -> {Infinity}
                               [] i # 0 /\ Found(i) # {} -> Found(i)
                               [] OTHER                   -> w[(i + 1) % Width]
  <2>1. \A i \in Bits :
           w[i] = LET found == SeekAtMezz(i, 0, TRUE)
                  IN  CASE i = 0                -> {ZeroTick(TRUE)}
                        [] i # 0 /\ found # {} -> found
                        [] OTHER                -> w[(i + 1) % Width]
    BY DEF Infinity
  <2> HIDE DEF w
  <2>2. w = [i \in Bits |-> w[i]]
    BY DEF w
  <2>3. IsWalkUp(w)
    BY <2>1, <2>2 DEF IsWalkUp
  <2> QED BY <2>3
<1> HIDE DEF Found
<1>1. Width \in Nat /\ \A j \in Bits : j \in Nat /\ j < Width
  BY WordFacts DEF Bits
<1>2. CASE i = 0
  BY <1>2
<1>3. CASE i # 0 /\ Found(i) # {}
  <2>1. ahead(i) \in SUBSET Bits /\ i \in ahead(i) /\ \A j \in ahead(i) : i <= j
    BY <1>1, <1>3
  <2>2. Min(ahead(i)) = i
    <3> HIDE DEF ahead
    <3>1. Min(ahead(i)) \in ahead(i) /\ Min(ahead(i)) <= i
      BY <2>1, BitsHaveFirst
    <3> QED BY <1>1, <2>1, <3>1
  <2> QED BY <1>3, <2>1, <2>2
<1>4. CASE i # 0 /\ Found(i) = {}
  <2>1. CASE i = Width - 1
    <3>1. ahead(i) = {}
      <4> SUFFICES ASSUME NEW j \in Bits, i <= j PROVE Found(j) = {}
        OBVIOUS
      <4>1. j = i
        BY <1>1, <2>1
      <4> QED BY <1>4, <4>1
    <3>2. (i + 1) % Width = 0 /\ 0 \in Bits
      BY <2>1, BitsWrap
    <3> QED BY <1>4, <3>1, <3>2
  <2>2. CASE i # Width - 1
    <3>1. (i + 1) % Width = i + 1 /\ i + 1 \in Bits /\ i + 1 # 0
      BY <1>1, <2>2, BitsWrap
    <3>2. ahead(i) = ahead(i + 1)
      <4> SUFFICES ASSUME NEW j \in Bits, Found(j) # {} PROVE i <= j <=> i + 1 <= j
        OBVIOUS
      <4>1. j # i
        BY <1>4
      <4> QED BY <1>1, <4>1
    <3>3. End(i) = End(i + 1)
      BY <1>4, <3>1, <3>2
    <3>4. w[(i + 1) % Width] = End(i + 1)
      BY <3>1
    <3> HIDE DEF End, w
    <3> QED BY <1>4, <3>3, <3>4
  <2> QED BY <2>1, <2>2
<1> QED BY <1>2, <1>3, <1>4

\* Every walk ends at the first mark from its row on.  If one did not, look at
\* the highest row where it does not.
LEMMA WalkUpFirst ==
    ASSUME CensusInv, NEW w, IsWalkUp(w)
    PROVE  /\ w[0] = {Infinity}
           /\ \A i \in Bits : i # 0 =>
                 \E v : w[i] = {v} /\ FirstOf(v, RowsFrom(i - HalfWord))
<1> DEFINE Found(i) == SeekAtMezz(i, 0, TRUE)
           Good(i) == \E v : w[i] = {v} /\ FirstOf(v, RowsFrom(i - HalfWord))
           bad == {i \in Bits : i # 0 /\ ~ Good(i)}
<1>1. /\ Width \in Nat /\ HalfWord \in Nat /\ Width = 2 * HalfWord /\ 0 \in Bits
      /\ \A i \in Bits : i \in Nat /\ i < Width
      /\ Keys(1) = -HalfWord .. HalfWord - 1
  BY WordFacts, KeyRanges, BitsWrap DEF Bits
<1>2. \A i \in Bits :
         w[i] = CASE i = 0                   -> {Infinity}
                  [] i # 0 /\ Found(i) # {} -> Found(i)
                  [] OTHER                   -> w[(i + 1) % Width]
  <2> DEFINE Step(i) == CASE i = 0                   -> {ZeroTick(TRUE)}
                          [] i # 0 /\ Found(i) # {} -> Found(i)
                          [] OTHER                   -> w[(i + 1) % Width]
  <2>1. w = [i \in Bits |-> Step(i)]
    BY DEF IsWalkUp
  <2> HIDE DEF Step
  <2>2. \A i \in Bits : w[i] = Step(i)
    BY <2>1
  <2> QED BY <2>2 DEF Step, Infinity
<1>3. w[0] = {Infinity}
  BY <1>1, <1>2
<1>4. bad = {}
  <2> SUFFICES ASSUME bad # {} PROVE FALSE
    OBVIOUS
  <2> DEFINE m == Max(bad)
             r == m - HalfWord
  <2>1. m \in bad /\ \A i \in bad : m >= i
    <3>1. bad \in SUBSET Bits
      OBVIOUS
    <3> HIDE DEF bad
    <3> QED BY <3>1, BitsHaveLast
  <2> HIDE DEF m
  <2>2. m \in Bits /\ m # 0 /\ ~ Good(m) /\ m \in Nat /\ m < Width
    BY <1>1, <2>1
  <2>3. r \in Keys(1) /\ m = r + HalfWord /\ r \in Int
    BY <1>1, <2>2
  <2> HIDE DEF r
  <2>4. ColsFrom(r, 0) = RowsFrom(r)
    BY <2>3, SameMarksAbove
  <2>5. /\ Found(m) = {} => RowsFrom(r) = RowsFrom(r + 1)
        /\ Found(m) # {} => \E v : Found(m) = {v} /\ FirstOf(v, RowsFrom(r))
    <3>1. PICK low \in Bits : low = 0
      BY <1>1
    <3>2. low \in Nat
      BY <1>1
    <3>3. /\ SeekAtMezz(m, low, TRUE) = {} => ColsFrom(r, low) = RowsFrom(r + 1)
          /\ SeekAtMezz(m, low, TRUE) # {} =>
                \E v : SeekAtMezz(m, low, TRUE) = {v} /\ FirstOf(v, ColsFrom(r, low))
      BY <2>2, <2>3, <3>2, SeekMezzUp
    <3>4. Found(m) = SeekAtMezz(m, low, TRUE) /\ ColsFrom(r, low) = RowsFrom(r)
      BY <2>4, <3>1
    <3> HIDE DEF Found
    <3> QED BY <3>3, <3>4
  <2> HIDE DEF Found
  <2>6. Found(m) = {}
    <3> SUFFICES ASSUME Found(m) # {} PROVE FALSE
      OBVIOUS
    <3>1. w[m] = Found(m)
      BY <1>2, <2>2
    <3> QED BY <2>2, <2>5, <3>1 DEF r
  <2>7. w[m] = w[(m + 1) % Width]
    BY <1>2, <2>2, <2>6
  <2>8. CASE m = Width - 1
    <3>1. w[m] = {Infinity}
      BY <1>3, <2>2, <2>7, <2>8, BitsWrap
    <3>2. RowsFrom(r) = {}
      <4>1. r + 1 = HalfWord
        BY <1>1, <2>3, <2>8
      <4>2. \A t \in marked : Row(MezzKey(t)) \in Int /\ Row(MezzKey(t)) < HalfWord
        BY <1>1, MarkDigits
      <4> QED BY <1>1, <2>5, <2>6, <4>1, <4>2 DEF RowsFrom
    <3>3. FirstOf(Infinity, RowsFrom(r))
      BY <3>2 DEF FirstOf
    <3> QED BY <2>2, <3>1, <3>3 DEF r
  <2>9. CASE m # Width - 1
    <3>1. (m + 1) % Width = m + 1 /\ m + 1 \in Bits /\ m + 1 # 0
      BY <2>2, <2>9, BitsWrap
    <3>2. Good(m + 1)
      <4>1. ~ (m >= m + 1)
        BY <2>2
      <4> QED BY <2>1, <3>1, <4>1
    <3>3. (m + 1) - HalfWord = r + 1
      BY <1>1, <2>2, <2>3
    <3> QED BY <2>2, <2>5, <2>6, <2>7, <3>1, <3>2, <3>3 DEF r
  <2> QED BY <2>8, <2>9
<1> QED BY <1>3, <1>4

\* seekLobbyUp: the first mark beyond the row.
LEMMA SeekLobbyUpFirst ==
    ASSUME CensusInv, NEW r \in Keys(1)
    PROVE  \E v : SeekLobbyUp(r + HalfWord) = {v} /\ FirstOf(v, RowsFrom(r + 1))
<1> DEFINE i == r + HalfWord
           walk == CHOOSE w : IsWalkUp(w)
<1>1. IsWalkUp(walk)
  BY WalkUpExists
<1>2. SeekLobbyUp(i) = walk[(i + 1) % Width]
  BY DEF SeekLobbyUp, IsWalkUp
<1> HIDE DEF walk
<1>3. /\ HalfWord \in Nat /\ Width = 2 * HalfWord /\ r \in Int /\ Keys(1) = -HalfWord .. HalfWord - 1
  BY WordFacts, KeyRanges, KeyDigits
<1>4. i \in Bits /\ (i + 1) - HalfWord = r + 1 /\ i \in Nat
  BY <1>3 DEF Bits
<1>5. CASE i = Width - 1
  <2>1. SeekLobbyUp(i) = {Infinity}
    BY <1>1, <1>2, <1>4, <1>5, BitsWrap, WalkUpFirst
  <2>2. RowsFrom(r + 1) = {}
    <3>1. \A t \in marked : Row(MezzKey(t)) \in Int /\ Row(MezzKey(t)) < r + 1
      BY <1>3, <1>5, MarkDigits
    <3> QED BY <1>3, <3>1 DEF RowsFrom
  <2>3. FirstOf(Infinity, RowsFrom(r + 1))
    BY <2>2 DEF FirstOf
  <2> QED BY <2>1, <2>3
<1>6. CASE i # Width - 1
  <2>1. (i + 1) % Width = i + 1 /\ i + 1 \in Bits /\ i + 1 # 0
    BY <1>4, <1>6, BitsWrap
  <2> HIDE DEF i
  <2>2. PICK v : walk[i + 1] = {v} /\ FirstOf(v, RowsFrom((i + 1) - HalfWord))
    BY <1>1, <2>1, WalkUpFirst
  <2>3. SeekLobbyUp(i) = {v} /\ FirstOf(v, RowsFrom(r + 1))
    BY <1>2, <1>4, <2>1, <2>2
  <2> QED BY <2>3 DEF i
<1> QED BY <1>5, <1>6

\* seekMezzSpill upwards: the first mark from a word on.
LEMMA SeekSpillUp ==
    ASSUME CensusInv, NEW k \in Keys(2)
    PROVE  FirstOf(SeekMezzSpill(WeldMezzTerm(k, 0), TRUE), KeysFrom(k))
<1> DEFINE border == WeldMezzTerm(k, 0)
           result == SeekMezzSpill(border, TRUE)
           atTerm == SeekAtTerm(Row(k) + HalfWord, Col(k), TRUE)
           atMezz == SeekAtMezz(Row(k) + HalfWord, Col(k), TRUE)
           beyond == SeekLobbyUp(Row(k) + HalfWord)
           reached == CASE atTerm # {}                 -> atTerm
                        [] atTerm = {} /\ atMezz # {} -> atMezz
                        [] OTHER                       -> beyond
<1>1. 0 \in Bits /\ \A b \in Bits : b \in Nat
  BY WordFacts DEF Bits
<1>2. border \in CensusTicks /\ MezzKey(border) = k /\ TermBit(border) = 0
  BY <1>1, TickDigits
<1> HIDE DEF border
<1>3. LobbyBit(border) = Row(k) + HalfWord /\ MezzBit(border) = Col(k)
  BY <1>2, LobbyOfTick
<1>4. CASE border = Infinity
  <2>1. ASSUME NEW u \in KeysFrom(k) PROVE Infinity <= u
    <3>1. /\ u \in CensusTicks /\ MezzKey(u) >= k /\ MezzKey(u) \in Int /\ k \in Int
          /\ TermBit(u) \in Nat /\ u \in Int /\ border \in Int
      BY <1>1, <1>2, MarkDigits, KeyDigits, TickDigits DEF KeysFrom
    <3>2. u < border <=> \/ MezzKey(u) < MezzKey(border)
                         \/ MezzKey(u) = MezzKey(border) /\ TermBit(u) < TermBit(border)
      BY <1>2, <3>1, TickOrder
    <3> QED BY <1>2, <1>4, <3>1, <3>2
  <2>2. FirstOf(Infinity, KeysFrom(k))
    BY <2>1 DEF FirstOf
  <2>3. result = Infinity
    BY <1>4 DEF SeekMezzSpill, Infinity
  <2> QED BY <2>2, <2>3 DEF border
<1>5. CASE border # Infinity
  <2>0. result = CHOOSE t \in reached : TRUE
    <3>1. ~ (border = ZeroTick(TRUE))
      BY <1>5 DEF Infinity
    <3> QED BY <1>3, <3>1, Zenon DEF SeekMezzSpill
  <2> HIDE DEF atTerm, atMezz, beyond
  <2>1. /\ Row(k) \in Keys(1) /\ Col(k) \in Nat /\ Row(k) + HalfWord \in Bits
        /\ KeysFrom(k) = ColsFrom(Row(k), Col(k))
    <3>1. Row(k) \in Keys(1) /\ Col(k) \in Nat /\ Row(k) \in Int
      BY <1>1, KeyDigits
    <3>2. Row(k) + HalfWord \in Bits
      BY <3>1, WordFacts, KeyRanges DEF Bits
    <3> QED BY <3>1, <3>2, SameMarksAbove
  <2>2. PICK v : reached = {v} /\ FirstOf(v, KeysFrom(k))
    <3>1. CASE atTerm # {}
      <4>1. terminus[k] # {}
        BY <3>1, SeekTermUp DEF atTerm
      <4>2. PICK v : atTerm = {v} /\ FirstOf(v, KeysFrom(k))
        BY <4>1, SeekTermUp DEF atTerm
      <4> QED BY <3>1, <4>2
    <3>2. CASE atTerm = {} /\ atMezz # {}
      <4>1. PICK v : atMezz = {v} /\ FirstOf(v, ColsFrom(Row(k), Col(k)))
        BY <2>1, <3>2, SeekMezzUp DEF atMezz
      <4> QED BY <2>1, <3>2, <4>1
    <3>3. CASE atTerm = {} /\ atMezz = {}
      <4>1. ColsFrom(Row(k), Col(k)) = RowsFrom(Row(k) + 1)
        BY <2>1, <3>3, SeekMezzUp DEF atMezz
      <4>2. PICK v : beyond = {v} /\ FirstOf(v, RowsFrom(Row(k) + 1))
        BY <2>1, SeekLobbyUpFirst DEF beyond
      <4> QED BY <2>1, <3>3, <4>1, <4>2
    <3> QED BY <3>1, <3>2, <3>3
  <2> HIDE DEF reached
  <2>3. result = v
    BY <2>0, <2>2
  <2> QED BY <2>2, <2>3 DEF border
<1> QED BY <1>4, <1>5

\* The first mark of a set is what the specification calls the nearest.
LEMMA FirstIsMin ==
    ASSUME CensusInv, NEW S \in SUBSET marked, NEW v, FirstOf(v, S)
    PROVE  Min(S \cup {Infinity}) = v
<1> DEFINE T == S \cup {Infinity}
<1>1. /\ \A u \in T : u \in Int
      /\ \A u \in S : u <= Infinity
      /\ v \in T
  BY MarkDigits, InfinitiesBound, TickDigits DEF FirstOf
<1>2. \A u \in T : v <= u
  BY <1>1 DEF FirstOf
<1> HIDE DEF T
<1>3. \A w \in T : (\A u \in T : w <= u) => w = v
  BY <1>1, <1>2
<1>4. Min(T) = v
  BY <1>1, <1>2, <1>3 DEF Min
<1> QED BY <1>4 DEF T

\* A swap upwards finds the nearest mark, and its pin never shows more.
LEMMA NextBumpUp ==
    ASSUME CensusInv, NEW tick \in CensusTicks
    PROVE  LET above == {t \in marked : t > tick}
           IN  /\ FirstOf(NextBump(TRUE, tick), above)
               /\ \A u \in above \cup {Infinity} : PinBitmap(TRUE, tick).tick <= u
<1> DEFINE above == {t \in marked : t > tick}
           k == MezzKey(tick)
           shift == TermBit(tick) + 1
           pin == PinBitmap(TRUE, tick)
           rest == Truncate(terminus[k], shift, TRUE)
<1>1. /\ k \in Keys(2) /\ k \in Int /\ TermBit(tick) \in Nat /\ shift \in Nat /\ tick \in Int
      /\ 0 \in Bits
  BY TickDigits, KeyDigits, WordFacts DEF Bits
<1>2. above = BitsFrom(k, shift)
  <2> SUFFICES ASSUME NEW t \in marked
               PROVE  t > tick <=> MezzKey(t) > k \/ (MezzKey(t) = k /\ TermBit(t) >= shift)
    BY DEF BitsFrom
  <2>1. t \in CensusTicks /\ t \in Int /\ MezzKey(t) \in Int /\ TermBit(t) \in Int
    <3>1. t \in CensusTicks /\ t \in Int /\ MezzKey(t) \in Int /\ TermBit(t) \in Bits
      BY MarkDigits
    <3> QED BY <3>1, BitmapBits
  <2>2. tick < t <=> \/ MezzKey(tick) < MezzKey(t)
                     \/ MezzKey(tick) = MezzKey(t) /\ TermBit(tick) < TermBit(t)
    BY <2>1, TickOrder
  <2> QED BY <1>1, <2>1, <2>2
<1>3. pin = [spill |-> rest = {},
             tick |-> IF rest = {} THEN SpillOverPin(TRUE, k)
                      ELSE WeldMezzTerm(k, BitAfterTrunc(terminus[k], shift, TRUE))]
  BY Zenon DEF PinBitmap, TermBump, BitRelate
<1>4. NextBump(TRUE, tick) = IF pin.spill THEN SeekMezzSpill(pin.tick, TRUE) ELSE pin.tick
  BY Zenon DEF NextBump
<1> HIDE DEF above, k, shift, pin, rest
<1>5. \A v : FirstOf(v, above) => \A u \in above \cup {Infinity} : v <= u
  <2>1. \A u \in above \cup {Infinity} : u \in Int /\ u <= Infinity
    BY MarkDigits, InfinitiesBound, TickDigits DEF above
  <2> QED BY <2>1 DEF FirstOf
<1>6. CASE rest # {}
  <2>1. FirstOf(pin.tick, above)
    BY <1>1, <1>2, <1>3, <1>6, TermFirst DEF rest
  <2>2. NextBump(TRUE, tick) = pin.tick
    BY <1>3, <1>4, <1>6
  <2> QED BY <1>5, <2>1, <2>2 DEF above, pin
<1>7. CASE rest = {} /\ k # MaxKey(2)
  <2>1. k + 1 \in Keys(2)
    <3>1. /\ Keys(2) = MinKey(2) .. MaxKey(2) /\ MinKey(2) \in Int /\ MaxKey(2) \in Int
      <4>1. Span[2] \div 2 \in Int
        BY WordFacts DEF Span
      <4> QED BY <4>1 DEF Keys, MinKey, MaxKey
    <3> QED BY <1>1, <1>7, <3>1
  <2> DEFINE border == WeldMezzTerm(k + 1, 0)
  <2>2. pin.tick = border /\ pin.spill
    BY <1>3, <1>7 DEF SpillOverPin
  <2>3. above = KeysFrom(k + 1)
    BY <1>1, <1>2, <1>7, TermNoneUp DEF rest
  <2>4. FirstOf(NextBump(TRUE, tick), above)
    BY <1>4, <2>1, <2>2, <2>3, SeekSpillUp
  <2>5. ASSUME NEW u \in above \cup {Infinity} PROVE border <= u
    <3>1. border \in CensusTicks /\ MezzKey(border) = k + 1 /\ TermBit(border) = 0
      BY <1>1, <2>1, TickDigits
    <3> HIDE DEF border
    <3>2. CASE u = Infinity
      BY <3>1, <3>2, InfinitiesBound
    <3>3. CASE u \in above
      <4>1. /\ u \in CensusTicks /\ MezzKey(u) >= k + 1 /\ MezzKey(u) \in Int
            /\ TermBit(u) \in Nat /\ u \in Int /\ border \in Int
        BY <2>3, <3>1, <3>3, MarkDigits, TickDigits, BitmapBits DEF KeysFrom
      <4>2. u < border <=> \/ MezzKey(u) < MezzKey(border)
                           \/ MezzKey(u) = MezzKey(border) /\ TermBit(u) < TermBit(border)
        BY <3>1, <4>1, TickOrder
      <4> QED BY <1>1, <3>1, <4>1, <4>2
    <3> QED BY <3>2, <3>3
  <2> QED BY <2>2, <2>4, <2>5 DEF above, pin
<1>8. CASE rest = {} /\ k = MaxKey(2)
  <2>1. pin.tick = Infinity /\ pin.spill
    BY <1>3, <1>8 DEF SpillOverPin, Infinity
  <2>2. NextBump(TRUE, tick) = Infinity
    BY <1>4, <2>1 DEF SeekMezzSpill, Infinity
  <2>3. above = {}
    <3>1. above = KeysFrom(k + 1)
      BY <1>1, <1>2, <1>8, TermNoneUp DEF rest
    <3>2. \A j \in Keys(2) : j <= k
      <4>1. Span[2] \div 2 \in Int
        BY WordFacts DEF Span
      <4> QED BY <1>8, <4>1 DEF Keys, MinKey, MaxKey
    <3>3. \A t \in marked : MezzKey(t) \in Int /\ MezzKey(t) <= k
      BY <3>2, MarkDigits
    <3> QED BY <1>1, <3>1, <3>3 DEF KeysFrom
  <2>4. FirstOf(Infinity, above)
    BY <2>3 DEF FirstOf
  <2> QED BY <1>5, <2>1, <2>2, <2>4 DEF above, pin
<1> QED BY <1>6, <1>7, <1>8

-----------------------------------------------------------------------------
(***************************************************************************)
(* Seeking downwards: the last mark up to a bit, a word or a row.  The     *)
(* tick of the price itself counts, and the walk ends below the last row.  *)
(***************************************************************************)
LEMMA SameMarksBelow ==
    ASSUME CensusInv
    PROVE  /\ \A k \in Keys(2) : KeysUpTo(k) = BitsUpTo(k, Width - 1)
           /\ \A k \in Keys(2) : KeysUpTo(k) = ColsUpTo(Row(k), Col(k))
           /\ \A r \in Keys(1) : RowsUpTo(r) = ColsUpTo(r, Width - 1)
<1>0. Width \in Nat /\ \A b \in Bits : b <= Width - 1 /\ b \in Nat
  BY WordFacts DEF Bits
<1>1. ASSUME NEW k \in Keys(2), NEW t \in marked
      PROVE  (MezzKey(t) <= k)
             <=> (MezzKey(t) < k \/ (MezzKey(t) = k /\ TermBit(t) <= Width - 1))
  BY <1>0, MarkDigits, KeyDigits
<1>2. ASSUME NEW k \in Keys(2), NEW t \in marked
      PROVE  (MezzKey(t) <= k) <=> \/ Row(MezzKey(t)) < Row(k)
                                   \/ Row(MezzKey(t)) = Row(k) /\ Col(MezzKey(t)) <= Col(k)
  <2>1. /\ MezzKey(t) \in Keys(2) /\ MezzKey(t) \in Int /\ k \in Int
        /\ Row(MezzKey(t)) \in Int /\ Row(k) \in Int
        /\ Col(MezzKey(t)) \in Nat /\ Col(k) \in Nat
    BY MarkDigits, BitmapBits, KeyDigits
  <2>2. k < MezzKey(t) <=> \/ Row(k) < Row(MezzKey(t))
                           \/ (Row(k) = Row(MezzKey(t)) /\ Col(k) < Col(MezzKey(t)))
    BY <2>1, KeyOrder
  <2> QED BY <2>1, <2>2
<1>3. ASSUME NEW r \in Keys(1), NEW t \in marked
      PROVE  (Row(MezzKey(t)) <= r) <=> \/ Row(MezzKey(t)) < r
                                        \/ Row(MezzKey(t)) = r /\ Col(MezzKey(t)) <= Width - 1
  BY <1>0, MarkDigits, KeyDigits
<1> QED BY <1>1, <1>2, <1>3 DEF KeysUpTo, BitsUpTo, ColsUpTo, RowsUpTo

LEMMA TermLast ==
    ASSUME CensusInv, NEW k \in Keys(2), NEW shift \in Nat,
           Truncate(terminus[k], shift, FALSE) # {}
    PROVE  LastOf(WeldMezzTerm(k, BitAfterTrunc(terminus[k], shift, FALSE)),
                  BitsUpTo(k, Width - 1 - shift))
<1> DEFINE rest == Truncate(terminus[k], shift, FALSE)
           b == BitAfterTrunc(terminus[k], shift, FALSE)
           v == WeldMezzTerm(k, b)
           last == Width - 1 - shift
<1>0. last \in Int /\ Width \in Nat /\ \A c \in Nat : c < Width - shift <=> c <= last
  BY WordFacts
<1>1. /\ rest = {c \in terminus[k] : c < Width - shift} /\ rest \in SUBSET Bits /\ rest # {}
      /\ b = Max(rest)
  BY BitmapBits DEF Truncate, BitAfterTrunc
<1>2. b \in rest /\ \A c \in rest : b >= c
  <2> HIDE DEF rest, b
  <2> QED BY <1>1, BitsHaveLast
<1> HIDE DEF rest, b, last
<1>3. /\ b \in Bits /\ b \in Nat /\ b \in terminus[k] /\ b <= last
      /\ v \in CensusTicks /\ MezzKey(v) = k /\ TermBit(v) = b
  BY <1>0, <1>1, <1>2, TickDigits, BitmapBits
<1> HIDE DEF v
<1>4. v \in marked
  BY <1>3 DEF CensusInv, TerminusExact
<1>5. v \in BitsUpTo(k, last)
  BY <1>3, <1>4 DEF BitsUpTo
<1>6. ASSUME NEW u \in BitsUpTo(k, last) PROVE u <= v
  <2>1. /\ u \in CensusTicks /\ u \in Int /\ v \in Int /\ k \in Int
        /\ MezzKey(u) \in Int /\ TermBit(u) \in Nat /\ TermBit(u) \in terminus[MezzKey(u)]
        /\ MezzKey(u) < k \/ (MezzKey(u) = k /\ TermBit(u) <= last)
    BY <1>3, <1>4, MarkDigits, BitmapBits, KeyDigits DEF BitsUpTo
  <2>2. MezzKey(u) = k => TermBit(u) <= b
    <3>1. MezzKey(u) = k => TermBit(u) \in rest
      BY <1>0, <1>1, <2>1
    <3> QED BY <1>2, <1>3, <2>1, <3>1
  <2>3. ~ (v < u)
    <3>1. v < u <=> \/ MezzKey(v) < MezzKey(u)
                    \/ MezzKey(v) = MezzKey(u) /\ TermBit(v) < TermBit(u)
      BY <1>3, <2>1, TickOrder
    <3> QED BY <1>3, <2>1, <2>2, <3>1
  <2> QED BY <2>1, <2>3
<1>7. LastOf(v, BitsUpTo(k, last))
  BY <1>5, <1>6 DEF LastOf
<1> QED BY <1>7 DEF v, b, last

LEMMA TermNoneDown ==
    ASSUME CensusInv, NEW k \in Keys(2), NEW shift \in Nat,
           Truncate(terminus[k], shift, FALSE) = {}
    PROVE  BitsUpTo(k, Width - 1 - shift) = KeysUpTo(k - 1)
<1> SUFFICES ASSUME NEW t \in marked
             PROVE  (MezzKey(t) < k \/ (MezzKey(t) = k /\ TermBit(t) <= Width - 1 - shift))
                    <=> MezzKey(t) <= k - 1
  BY DEF BitsUpTo, KeysUpTo
<1>1. /\ k \in Int /\ MezzKey(t) \in Int /\ TermBit(t) \in terminus[MezzKey(t)]
      /\ TermBit(t) \in Nat /\ Width \in Nat
  BY MarkDigits, KeyDigits, BitmapBits, WordFacts
<1>2. \A c \in terminus[k] : ~ (c < Width - shift)
  BY DEF Truncate
<1> QED BY <1>1, <1>2

\* seekAtTerm: the last mark up to the word, unless the word is empty.
LEMMA SeekTermDown ==
    ASSUME CensusInv, NEW k \in Keys(2)
    PROVE  /\ terminus[k] = {} => SeekAtTerm(Row(k) + HalfWord, Col(k), FALSE) = {}
           /\ terminus[k] # {} =>
                 \E v : /\ SeekAtTerm(Row(k) + HalfWord, Col(k), FALSE) = {v}
                       /\ LastOf(v, KeysUpTo(k))
<1>1. WeldLobbyMezz(Row(k) + HalfWord, Col(k)) = k
  <2>1. Row(k) \in Int /\ HalfWord \in Int /\ KeyAt(Row(k), Col(k)) = k
    BY KeyDigits, WordFacts
  <2>2. Row(k) + HalfWord - HalfWord = Row(k)
    BY <2>1
  <2> QED BY <2>1, <2>2 DEF WeldLobbyMezz, KeyAt, HalfWord
<1>2. Truncate(terminus[k], 0, FALSE) = terminus[k] /\ Width - 1 - 0 = Width - 1
  BY BitmapBits, WordFacts DEF Truncate, Bits
<1>3. CASE terminus[k] = {}
  BY <1>1, <1>3 DEF SeekAtTerm
<1>4. CASE terminus[k] # {}
  <2> DEFINE v == WeldMezzTerm(k, BitAfterTrunc(terminus[k], 0, FALSE))
  <2>1. SeekAtTerm(Row(k) + HalfWord, Col(k), FALSE) = {v}
    BY <1>1, <1>4 DEF SeekAtTerm
  <2>2. LastOf(v, BitsUpTo(k, Width - 1))
    <3>1. LastOf(v, BitsUpTo(k, Width - 1 - 0))
      BY <1>2, <1>4, TermLast
    <3> QED BY <1>2, <3>1
  <2>3. LastOf(v, KeysUpTo(k))
    BY <2>2, SameMarksBelow
  <2> QED BY <1>4, <2>1, <2>3
<1> QED BY <1>3, <1>4

\* seekAtMezz: the last mark up to a word of the row, unless the row is empty
\* as far as it.
LEMMA SeekMezzDown ==
    ASSUME CensusInv, NEW i \in Bits, NEW r \in Keys(1), i = r + HalfWord, NEW m \in Bits
    PROVE  /\ SeekAtMezz(i, m, FALSE) = {} => ColsUpTo(r, m) = RowsUpTo(r - 1)
           /\ SeekAtMezz(i, m, FALSE) # {} =>
                 \E v : SeekAtMezz(i, m, FALSE) = {v} /\ LastOf(v, ColsUpTo(r, m))
<1> DEFINE shift == Width - 1 - m
           rest == Truncate(mezzanine[r], shift, FALSE)
           c == BitAfterTrunc(mezzanine[r], shift, FALSE)
           key == KeyAt(r, c)
<1>0. /\ m \in Nat /\ Width \in Nat /\ shift \in Int /\ r \in Int
      /\ \A d \in Nat : d < Width - shift <=> d <= m
  BY WordFacts, KeyDigits DEF Bits
<1>1. rest = {d \in mezzanine[r] : d <= m} /\ rest \in SUBSET Bits /\ c = Max(rest)
  <2>1. rest = {d \in mezzanine[r] : d < Width - shift} /\ c = Max(rest)
    BY DEF Truncate, BitAfterTrunc
  <2>2. \A d \in mezzanine[r] : d \in Bits /\ d \in Nat
    BY BitmapBits
  <2> HIDE DEF rest, shift, c
  <2> QED BY <1>0, <2>1, <2>2
<1>2. SeekAtMezz(i, m, FALSE) = IF rest = {} THEN {} ELSE SeekAtTerm(i, c, FALSE)
  <2>1. i - HalfWord = r
    BY <1>0, WordFacts
  <2> QED BY <2>1 DEF SeekAtMezz, BitRelate, HalfWord
<1> HIDE DEF shift
<1>3. CASE rest = {}
  <2>1. ASSUME NEW t \in marked
        PROVE  (Row(MezzKey(t)) < r \/ (Row(MezzKey(t)) = r /\ Col(MezzKey(t)) <= m))
               <=> Row(MezzKey(t)) <= r - 1
    <3>1. /\ Row(MezzKey(t)) \in Int
          /\ Col(MezzKey(t)) \in mezzanine[Row(MezzKey(t))]
      BY MarkDigits
    <3>2. \A d \in mezzanine[r] : ~ (d <= m)
      BY <1>1, <1>3
    <3> QED BY <1>0, <3>1, <3>2
  <2>2. ColsUpTo(r, m) = RowsUpTo(r - 1)
    BY <2>1 DEF ColsUpTo, RowsUpTo
  <2> QED BY <1>2, <1>3, <2>2
<1>4. CASE rest # {}
  <2>1. c \in rest /\ \A d \in rest : c >= d
    <3> HIDE DEF rest, c
    <3> QED BY <1>1, <1>4, BitsHaveLast
  <2> HIDE DEF rest, c
  <2>2. c \in Bits /\ c \in mezzanine[r] /\ c <= m
    BY <1>1, <2>1
  <2>3. key \in Keys(2) /\ Row(key) = r /\ Col(key) = c
    BY <2>2, KeyDigits
  <2> HIDE DEF key
  <2>4. terminus[key] # {}
    BY <2>2, <2>3 DEF CensusInv, MezzanineExact
  <2>5. PICK v : SeekAtTerm(i, c, FALSE) = {v} /\ LastOf(v, KeysUpTo(key))
    BY <2>3, <2>4, SeekTermDown
  <2>6. KeysUpTo(key) = ColsUpTo(r, m)
    <3>1. KeysUpTo(key) = ColsUpTo(r, c)
      BY <2>3, SameMarksBelow
    <3>2. ASSUME NEW t \in marked, Row(MezzKey(t)) = r
          PROVE  Col(MezzKey(t)) <= m <=> Col(MezzKey(t)) <= c
      <4>1. Col(MezzKey(t)) \in mezzanine[r] /\ Col(MezzKey(t)) \in Nat /\ c \in Nat
        BY <2>2, <3>2, MarkDigits, BitmapBits
      <4> QED BY <1>0, <1>1, <2>1, <2>2, <4>1
    <3> QED BY <3>1, <3>2 DEF ColsUpTo
  <2>7. SeekAtMezz(i, m, FALSE) = {v}
    BY <1>2, <1>4, <2>5
  <2> QED BY <2>5, <2>6, <2>7
<1> QED BY <1>3, <1>4

\* The lobby walk of seekLobbyDown.
IsWalkDown(w) ==
    w = [i \in Bits |->
            LET found == SeekAtMezz(i, Width - 1, FALSE)
            IN  CASE i = Width - 1                -> {ZeroTick(FALSE)}
                  [] i # Width - 1 /\ found # {} -> found
                  [] OTHER                        -> w[(i - 1) % Width]]

LEMMA WalkDownExists == \E w : IsWalkDown(w)
<1> DEFINE Found(i) == SeekAtMezz(i, Width - 1, FALSE)
           behind(i) == {j \in Bits : j <= i /\ Found(j) # {}}
           End(i) == IF i = Width - 1 \/ behind(i) = {} THEN {MinusInfinity}
                     ELSE Found(Max(behind(i)))
           w == [i \in Bits |-> End(i)]
<1> SUFFICES ASSUME NEW i \in Bits
             PROVE  End(i) = CASE i = Width - 1                   -> {MinusInfinity}
                               [] i # Width - 1 /\ Found(i) # {} -> Found(i)
                               [] OTHER                           -> w[(i - 1) % Width]
  <2>1. \A i \in Bits :
           w[i] = LET found == SeekAtMezz(i, Width - 1, FALSE)
                  IN  CASE i = Width - 1                -> {ZeroTick(FALSE)}
                        [] i # Width - 1 /\ found # {} -> found
                        [] OTHER                        -> w[(i - 1) % Width]
    BY DEF MinusInfinity
  <2> HIDE DEF w
  <2>2. w = [i \in Bits |-> w[i]]
    BY DEF w
  <2>3. IsWalkDown(w)
    BY <2>1, <2>2 DEF IsWalkDown
  <2> QED BY <2>3
<1> HIDE DEF Found
<1>1. Width \in Nat /\ \A j \in Bits : j \in Nat /\ j < Width
  BY WordFacts DEF Bits
<1>2. CASE i = Width - 1
  BY <1>2
<1>3. CASE i # Width - 1 /\ Found(i) # {}
  <2>1. behind(i) \in SUBSET Bits /\ i \in behind(i) /\ \A j \in behind(i) : j <= i
    BY <1>1, <1>3
  <2>2. Max(behind(i)) = i
    <3> HIDE DEF behind
    <3>1. Max(behind(i)) \in behind(i) /\ Max(behind(i)) >= i
      BY <2>1, BitsHaveLast
    <3> QED BY <1>1, <2>1, <3>1
  <2> QED BY <1>3, <2>1, <2>2
<1>4. CASE i # Width - 1 /\ Found(i) = {}
  <2>1. CASE i = 0
    <3>1. behind(i) = {}
      <4> SUFFICES ASSUME NEW j \in Bits, j <= i PROVE Found(j) = {}
        OBVIOUS
      <4>1. j = i
        BY <1>1, <2>1
      <4> QED BY <1>4, <4>1
    <3>2. (i - 1) % Width = Width - 1 /\ Width - 1 \in Bits
      BY <2>1, BitsWrap
    <3> QED BY <1>4, <3>1, <3>2
  <2>2. CASE i # 0
    <3>1. (i - 1) % Width = i - 1 /\ i - 1 \in Bits /\ i - 1 # Width - 1
      BY <1>1, <2>2, BitsWrap
    <3>2. behind(i) = behind(i - 1)
      <4> SUFFICES ASSUME NEW j \in Bits, Found(j) # {} PROVE j <= i <=> j <= i - 1
        OBVIOUS
      <4>1. j # i
        BY <1>4
      <4> QED BY <1>1, <4>1
    <3>3. End(i) = End(i - 1)
      BY <1>4, <3>1, <3>2
    <3>4. w[(i - 1) % Width] = End(i - 1)
      BY <3>1
    <3> HIDE DEF End, w
    <3> QED BY <1>4, <3>3, <3>4
  <2> QED BY <2>1, <2>2
<1> QED BY <1>2, <1>3, <1>4

\* As for the walk upwards, by the lowest row where it ends elsewhere.
LEMMA WalkDownLast ==
    ASSUME CensusInv, NEW w, IsWalkDown(w)
    PROVE  /\ w[Width - 1] = {MinusInfinity}
           /\ \A i \in Bits : i # Width - 1 =>
                 \E v : w[i] = {v} /\ LastOf(v, RowsUpTo(i - HalfWord))
<1> DEFINE Found(i) == SeekAtMezz(i, Width - 1, FALSE)
           Good(i) == \E v : w[i] = {v} /\ LastOf(v, RowsUpTo(i - HalfWord))
           bad == {i \in Bits : i # Width - 1 /\ ~ Good(i)}
<1>1. /\ Width \in Nat /\ HalfWord \in Nat /\ Width = 2 * HalfWord /\ Width - 1 \in Bits
      /\ \A i \in Bits : i \in Nat /\ i < Width
      /\ Keys(1) = -HalfWord .. HalfWord - 1
  BY WordFacts, KeyRanges DEF Bits
<1>2. \A i \in Bits :
         w[i] = CASE i = Width - 1                   -> {MinusInfinity}
                  [] i # Width - 1 /\ Found(i) # {} -> Found(i)
                  [] OTHER                           -> w[(i - 1) % Width]
  <2> DEFINE Step(i) == CASE i = Width - 1                   -> {ZeroTick(FALSE)}
                          [] i # Width - 1 /\ Found(i) # {} -> Found(i)
                          [] OTHER                           -> w[(i - 1) % Width]
  <2>1. w = [i \in Bits |-> Step(i)]
    BY DEF IsWalkDown
  <2> HIDE DEF Step
  <2>2. \A i \in Bits : w[i] = Step(i)
    BY <2>1
  <2> QED BY <2>2 DEF Step, MinusInfinity
<1>3. w[Width - 1] = {MinusInfinity}
  BY <1>1, <1>2
<1>4. bad = {}
  <2> SUFFICES ASSUME bad # {} PROVE FALSE
    OBVIOUS
  <2> DEFINE m == Min(bad)
             r == m - HalfWord
  <2>1. m \in bad /\ \A i \in bad : m <= i
    <3>1. bad \in SUBSET Bits
      OBVIOUS
    <3> HIDE DEF bad
    <3> QED BY <3>1, BitsHaveFirst
  <2> HIDE DEF m
  <2>2. m \in Bits /\ m # Width - 1 /\ ~ Good(m) /\ m \in Nat /\ m < Width
    BY <1>1, <2>1
  <2>3. r \in Keys(1) /\ m = r + HalfWord /\ r \in Int
    BY <1>1, <2>2
  <2> HIDE DEF r
  <2>4. ColsUpTo(r, Width - 1) = RowsUpTo(r) /\ Width - 1 \in Bits
    BY <1>1, <2>3, SameMarksBelow DEF Bits
  <2>5. /\ Found(m) = {} => RowsUpTo(r) = RowsUpTo(r - 1)
        /\ Found(m) # {} => \E v : Found(m) = {v} /\ LastOf(v, RowsUpTo(r))
    <3>1. PICK top \in Bits : top = Width - 1
      BY <2>4
    <3>2. /\ SeekAtMezz(m, top, FALSE) = {} => ColsUpTo(r, top) = RowsUpTo(r - 1)
          /\ SeekAtMezz(m, top, FALSE) # {} =>
                \E v : SeekAtMezz(m, top, FALSE) = {v} /\ LastOf(v, ColsUpTo(r, top))
      BY <2>2, <2>3, SeekMezzDown
    <3>3. Found(m) = SeekAtMezz(m, top, FALSE) /\ ColsUpTo(r, top) = RowsUpTo(r)
      BY <2>4, <3>1
    <3> HIDE DEF Found
    <3> QED BY <3>2, <3>3
  <2> HIDE DEF Found
  <2>6. Found(m) = {}
    <3> SUFFICES ASSUME Found(m) # {} PROVE FALSE
      OBVIOUS
    <3>1. w[m] = Found(m)
      BY <1>2, <2>2
    <3> QED BY <2>2, <2>5, <3>1 DEF r
  <2>7. w[m] = w[(m - 1) % Width]
    BY <1>2, <2>2, <2>6
  <2>8. CASE m = 0
    <3>1. w[m] = {MinusInfinity}
      BY <1>3, <2>2, <2>7, <2>8, BitsWrap
    <3>2. RowsUpTo(r) = {}
      <4>1. r - 1 < -HalfWord /\ r - 1 \in Int
        BY <1>1, <2>3, <2>8
      <4>2. \A t \in marked : Row(MezzKey(t)) \in Int /\ ~ (Row(MezzKey(t)) < -HalfWord)
        BY <1>1, MarkDigits
      <4> QED BY <1>1, <2>5, <2>6, <4>1, <4>2 DEF RowsUpTo
    <3>3. LastOf(MinusInfinity, RowsUpTo(r))
      BY <3>2 DEF LastOf
    <3> QED BY <2>2, <3>1, <3>3 DEF r
  <2>9. CASE m # 0
    <3>1. (m - 1) % Width = m - 1 /\ m - 1 \in Bits /\ m - 1 # Width - 1
      BY <1>1, <2>2, <2>9, BitsWrap
    <3>2. Good(m - 1)
      <4>1. ~ (m <= m - 1)
        BY <2>2
      <4> QED BY <2>1, <3>1, <4>1
    <3>3. (m - 1) - HalfWord = r - 1
      BY <1>1, <2>2, <2>3
    <3> QED BY <2>2, <2>5, <2>6, <2>7, <3>1, <3>2, <3>3 DEF r
  <2> QED BY <2>8, <2>9
<1> QED BY <1>3, <1>4

\* seekLobbyDown: the last mark below the row.
LEMMA SeekLobbyDownLast ==
    ASSUME CensusInv, NEW r \in Keys(1)
    PROVE  \E v : SeekLobbyDown(r + HalfWord) = {v} /\ LastOf(v, RowsUpTo(r - 1))
<1> DEFINE i == r + HalfWord
           walk == CHOOSE w : IsWalkDown(w)
<1>1. IsWalkDown(walk)
  BY WalkDownExists
<1>2. SeekLobbyDown(i) = walk[(i - 1) % Width]
  BY DEF SeekLobbyDown, IsWalkDown
<1> HIDE DEF walk
<1>3. /\ HalfWord \in Nat /\ Width = 2 * HalfWord /\ r \in Int /\ Keys(1) = -HalfWord .. HalfWord - 1
  BY WordFacts, KeyRanges, KeyDigits
<1>4. i \in Bits /\ (i - 1) - HalfWord = r - 1 /\ i \in Nat /\ i < Width
  BY <1>3 DEF Bits
<1>5. CASE i = 0
  <2>1. SeekLobbyDown(i) = {MinusInfinity}
    BY <1>1, <1>2, <1>4, <1>5, BitsWrap, WalkDownLast
  <2>2. RowsUpTo(r - 1) = {}
    <3>1. \A t \in marked : Row(MezzKey(t)) \in Int /\ r - 1 < Row(MezzKey(t))
      BY <1>3, <1>5, MarkDigits
    <3> QED BY <1>3, <3>1 DEF RowsUpTo
  <2>3. LastOf(MinusInfinity, RowsUpTo(r - 1))
    BY <2>2 DEF LastOf
  <2> QED BY <2>1, <2>3
<1>6. CASE i # 0
  <2> HIDE DEF i
  <2>1. (i - 1) % Width = i - 1 /\ i - 1 \in Bits /\ i - 1 # Width - 1
    <3>1. Width \in Nat /\ i - 1 # Width - 1
      BY <1>4, WordFacts
    <3> QED BY <1>4, <1>6, <3>1, BitsWrap
  <2>2. PICK v : walk[i - 1] = {v} /\ LastOf(v, RowsUpTo((i - 1) - HalfWord))
    BY <1>1, <2>1, WalkDownLast
  <2>3. SeekLobbyDown(i) = {v} /\ LastOf(v, RowsUpTo(r - 1))
    BY <1>2, <1>4, <2>1, <2>2
  <2> QED BY <2>3 DEF i
<1> QED BY <1>5, <1>6

\* The tick before a word is the last of the word before.
LEMMA TickBefore ==
    ASSUME NEW k \in Keys(2), WeldMezzTerm(k, 0) # MinusInfinity
    PROVE  /\ WeldMezzTerm(k, 0) - 1 \in CensusTicks
           /\ MezzKey(WeldMezzTerm(k, 0) - 1) = k - 1
           /\ k - 1 \in Keys(2)
<1> DEFINE border == WeldMezzTerm(k, 0)
<1>1. /\ k \in Int /\ Width \in Nat /\ 0 \in Bits /\ Width - 1 \in Bits
      /\ border \in CensusTicks
  BY KeyDigits, TickDigits, WordFacts DEF Bits
<1>2. border - 1 \in CensusTicks
  <2>1. CensusTicks = MinusInfinity .. Infinity
    BY DEF CensusTicks, Keys, MinusInfinity, Infinity, ZeroTick
  <2>2. MinusInfinity \in Int /\ Infinity \in Int /\ border \in Int /\ border # MinusInfinity
    BY <1>1, InfinitiesBound, TickDigits
  <2> HIDE DEF border
  <2> QED BY <1>1, <2>1, <2>2
<1>3. border - 1 = (k - 1) * Width + (Width - 1)
  <2>1. border = k * Width + 0 /\ k * Width \in Int
    BY <1>1 DEF WeldMezzTerm
  <2>2. (k - 1) * Width = k * Width - Width
    BY <1>1
  <2> HIDE DEF border
  <2> QED BY <1>1, <2>1, <2>2
<1>4. MezzKey(border - 1) = k - 1
  <2>1. k - 1 \in Int
    BY <1>1
  <2>2. ((k - 1) * Width + (Width - 1)) \div Width = k - 1
    BY <1>1, <2>1, DigitsUnique
  <2> QED BY <1>3, <2>2 DEF MezzKey
<1>5. k - 1 \in Keys(2)
  <2>1. MezzKey(border - 1) \in Keys(2)
    BY <1>2, TickDigits
  <2> QED BY <1>4, <2>1
<1> QED BY <1>2, <1>4, <1>5

\* Marks of earlier words lie below the border of a word.
LEMMA BelowBorder ==
    ASSUME CensusInv, NEW k \in Keys(2), NEW u \in KeysUpTo(k - 1)
    PROVE  u < WeldMezzTerm(k, 0) /\ u \in Int /\ u \in CensusTicks
<1> DEFINE border == WeldMezzTerm(k, 0)
<1>1. /\ border \in CensusTicks /\ MezzKey(border) = k /\ k \in Int
  BY TickDigits, KeyDigits, WordFacts DEF Bits
<1> HIDE DEF border
<1>2. /\ u \in CensusTicks /\ MezzKey(u) \in Int /\ MezzKey(u) <= k - 1 /\ u \in Int
  BY MarkDigits DEF KeysUpTo
<1>3. u < border <=> \/ MezzKey(u) < MezzKey(border)
                     \/ MezzKey(u) = MezzKey(border) /\ TermBit(u) < TermBit(border)
  BY <1>1, <1>2, TickOrder
<1>4. u < border
  BY <1>1, <1>2, <1>3
<1> QED BY <1>2, <1>4 DEF border

\* seekMezzSpill downwards: the last mark below a word.
LEMMA SeekSpillDown ==
    ASSUME CensusInv, NEW k \in Keys(2)
    PROVE  LastOf(SeekMezzSpill(WeldMezzTerm(k, 0), FALSE), KeysUpTo(k - 1))
<1> DEFINE border == WeldMezzTerm(k, 0)
           result == SeekMezzSpill(border, FALSE)
           j == k - 1
           atTerm == SeekAtTerm(Row(j) + HalfWord, Col(j), FALSE)
           atMezz == SeekAtMezz(Row(j) + HalfWord, Col(j), FALSE)
           beyond == SeekLobbyDown(Row(j) + HalfWord)
           reached == CASE atTerm # {}                 -> atTerm
                        [] atTerm = {} /\ atMezz # {} -> atMezz
                        [] OTHER                       -> beyond
<1>1. CASE border = MinusInfinity
  <2>1. result = MinusInfinity
    <3> HIDE DEF border
    <3> QED BY <1>1 DEF SeekMezzSpill, MinusInfinity
  <2>2. KeysUpTo(j) = {}
    <3> SUFFICES ASSUME NEW u \in KeysUpTo(j) PROVE FALSE
      OBVIOUS
    <3>1. u < border /\ u \in Int /\ u \in CensusTicks
      BY BelowBorder
    <3> HIDE DEF border
    <3> QED BY <1>1, <3>1, InfinitiesBound, TickDigits
  <2>3. LastOf(MinusInfinity, KeysUpTo(j))
    BY <2>2 DEF LastOf
  <2> QED BY <2>1, <2>3
<1>2. CASE border # MinusInfinity
  <2>1. border - 1 \in CensusTicks /\ MezzKey(border - 1) = j /\ j \in Keys(2)
    BY <1>2, TickBefore
  <2> HIDE DEF border, j
  <2>2. LobbyBit(border - 1) = Row(j) + HalfWord /\ MezzBit(border - 1) = Col(j)
    BY <2>1, LobbyOfTick
  <2>3. result = CHOOSE t \in reached : TRUE
    <3>1. ~ (border = ZeroTick(FALSE))
      BY <1>2 DEF MinusInfinity
    <3> QED BY <2>2, <3>1, Zenon DEF SeekMezzSpill
  <2> HIDE DEF atTerm, atMezz, beyond
  <2>4. /\ Row(j) \in Keys(1) /\ Col(j) \in Bits /\ Row(j) + HalfWord \in Bits
        /\ KeysUpTo(j) = ColsUpTo(Row(j), Col(j))
    <3>1. Row(j) \in Keys(1) /\ Col(j) \in Bits /\ Row(j) \in Int
      BY <2>1, KeyDigits
    <3>2. Row(j) + HalfWord \in Bits
      BY <3>1, WordFacts, KeyRanges DEF Bits
    <3> QED BY <2>1, <3>1, <3>2, SameMarksBelow
  <2>5. PICK v : reached = {v} /\ LastOf(v, KeysUpTo(j))
    <3>1. CASE atTerm # {}
      <4>1. terminus[j] # {}
        BY <2>1, <3>1, SeekTermDown DEF atTerm
      <4>2. PICK v : atTerm = {v} /\ LastOf(v, KeysUpTo(j))
        BY <2>1, <4>1, SeekTermDown DEF atTerm
      <4> QED BY <3>1, <4>2
    <3>2. CASE atTerm = {} /\ atMezz # {}
      <4>1. PICK v : atMezz = {v} /\ LastOf(v, ColsUpTo(Row(j), Col(j)))
        BY <2>4, <3>2, SeekMezzDown DEF atMezz
      <4> QED BY <2>4, <3>2, <4>1
    <3>3. CASE atTerm = {} /\ atMezz = {}
      <4>1. ColsUpTo(Row(j), Col(j)) = RowsUpTo(Row(j) - 1)
        BY <2>4, <3>3, SeekMezzDown DEF atMezz
      <4>2. PICK v : beyond = {v} /\ LastOf(v, RowsUpTo(Row(j) - 1))
        BY <2>4, SeekLobbyDownLast DEF beyond
      <4> QED BY <2>4, <3>3, <4>1, <4>2
    <3> QED BY <3>1, <3>2, <3>3
  <2> HIDE DEF reached
  <2>6. result = v
    BY <2>3, <2>5
  <2> QED BY <2>5, <2>6 DEF border, j
<1> QED BY <1>1, <1>2

LEMMA LastIsMax ==
    ASSUME CensusInv, NEW S \in SUBSET marked, NEW v, LastOf(v, S)
    PROVE  Max(S \cup {MinusInfinity}) = v
<1> DEFINE T == S \cup {MinusInfinity}
<1>1. /\ \A u \in T : u \in Int
      /\ \A u \in S : MinusInfinity <= u
      /\ v \in T
  BY MarkDigits, InfinitiesBound, TickDigits DEF LastOf
<1>2. \A u \in T : v >= u
  BY <1>1 DEF LastOf
<1> HIDE DEF T
<1>3. \A w \in T : (\A u \in T : w >= u) => w = v
  BY <1>1, <1>2
<1>4. Max(T) = v
  BY <1>1, <1>2, <1>3 DEF Max
<1> QED BY <1>4 DEF T

\* A swap downwards finds the nearest mark, and its pin never shows more.
LEMMA NextBumpDown ==
    ASSUME CensusInv, NEW tick \in CensusTicks
    PROVE  LET below == {t \in marked : t <= tick}
           IN  /\ LastOf(NextBump(FALSE, tick), below)
               /\ \A u \in below \cup {MinusInfinity} : PinBitmap(FALSE, tick).tick >= u
<1> DEFINE below == {t \in marked : t <= tick}
           k == MezzKey(tick)
           shift == (Width - 1 - TermBit(tick)) + 0
           pin == PinBitmap(FALSE, tick)
           rest == Truncate(terminus[k], shift, FALSE)
<1>1. /\ k \in Keys(2) /\ k \in Int /\ TermBit(tick) \in Nat /\ shift \in Nat /\ tick \in Int
      /\ Width - 1 - shift = TermBit(tick)
  BY TickDigits, KeyDigits, WordFacts DEF Bits
<1>2. below = BitsUpTo(k, Width - 1 - shift)
  <2> SUFFICES ASSUME NEW t \in marked
               PROVE  t <= tick <=> MezzKey(t) < k \/ (MezzKey(t) = k /\ TermBit(t) <= TermBit(tick))
    BY <1>1 DEF BitsUpTo
  <2>1. t \in CensusTicks /\ t \in Int /\ MezzKey(t) \in Int /\ TermBit(t) \in Int
    <3>1. t \in CensusTicks /\ t \in Int /\ MezzKey(t) \in Int /\ TermBit(t) \in Bits
      BY MarkDigits
    <3> QED BY <3>1, BitmapBits
  <2>2. tick < t <=> \/ MezzKey(tick) < MezzKey(t)
                     \/ MezzKey(tick) = MezzKey(t) /\ TermBit(tick) < TermBit(t)
    BY <2>1, TickOrder
  <2> QED BY <1>1, <2>1, <2>2
<1>3. pin = [spill |-> rest = {},
             tick |-> IF rest = {} THEN SpillOverPin(FALSE, k)
                      ELSE WeldMezzTerm(k, BitAfterTrunc(terminus[k], shift, FALSE))]
  BY Zenon DEF PinBitmap, TermBump, BitRelate
<1>4. NextBump(FALSE, tick) = IF pin.spill THEN SeekMezzSpill(pin.tick, FALSE) ELSE pin.tick
  BY Zenon DEF NextBump
<1> HIDE DEF below, k, shift, pin, rest
<1>5. CASE rest # {}
  <2>1. LastOf(pin.tick, below)
    BY <1>1, <1>2, <1>3, <1>5, TermLast DEF rest
  <2>2. NextBump(FALSE, tick) = pin.tick
    BY <1>3, <1>4, <1>5
  <2>3. \A u \in below \cup {MinusInfinity} : pin.tick >= u
    <3>1. \A u \in below \cup {MinusInfinity} : u \in Int /\ MinusInfinity <= u
      BY MarkDigits, InfinitiesBound, TickDigits DEF below
    <3> QED BY <2>1, <3>1 DEF LastOf
  <2> QED BY <2>1, <2>2, <2>3 DEF below, pin
<1>6. CASE rest = {}
  <2> DEFINE border == WeldMezzTerm(k, 0)
  <2>1. pin.tick = border /\ pin.spill
    BY <1>3, <1>6 DEF SpillOverPin
  <2>2. below = KeysUpTo(k - 1)
    BY <1>1, <1>2, <1>6, TermNoneDown DEF rest
  <2>3. LastOf(NextBump(FALSE, tick), below)
    BY <1>1, <1>4, <2>1, <2>2, SeekSpillDown
  <2>4. ASSUME NEW u \in below \cup {MinusInfinity} PROVE border >= u
    <3>1. border \in CensusTicks /\ border \in Int
      <4>1. 0 \in Bits
        BY WordFacts DEF Bits
      <4> QED BY <1>1, <4>1, TickDigits
    <3>2. CASE u = MinusInfinity
      <4> HIDE DEF border
      <4> QED BY <3>1, <3>2, InfinitiesBound, TickDigits
    <3>3. CASE u \in below
      <4>1. u < border /\ u \in Int
        BY <1>1, <2>2, <3>3, BelowBorder
      <4> HIDE DEF border
      <4> QED BY <3>1, <4>1
    <3> QED BY <3>2, <3>3
  <2> QED BY <2>1, <2>3, <2>4 DEF below, pin
<1> QED BY <1>5, <1>6

-----------------------------------------------------------------------------
\* From every tick and in both directions a swap finds the nearest tick that is
\* marked, or infinity, and the pin alone never shows a tick beyond it
\* (pinBitmap, seekMezzSpill, sweepSwapLiq), for words of any width.
THEOREM SeeksFindNearest == Spec => []SeekFindsNearest
<1>1. CensusInv => SeekFindsNearest
  <2> SUFFICES ASSUME CensusInv, NEW tick \in CensusTicks
               PROVE  LET above == {t \in marked : t > tick} \cup {ZeroTick(TRUE)}
                          below == {t \in marked : t <= tick} \cup {ZeroTick(FALSE)}
                      IN  /\ NextBump(TRUE, tick) = Min(above)
                          /\ NextBump(FALSE, tick) = Max(below)
                          /\ PinBitmap(TRUE, tick).tick <= Min(above)
                          /\ PinBitmap(FALSE, tick).tick >= Max(below)
    BY DEF SeekFindsNearest
  <2> DEFINE up == {t \in marked : t > tick}
             down == {t \in marked : t <= tick}
  <2>1. /\ FirstOf(NextBump(TRUE, tick), up)
        /\ \A u \in up \cup {Infinity} : PinBitmap(TRUE, tick).tick <= u
    BY NextBumpUp
  <2>2. /\ LastOf(NextBump(FALSE, tick), down)
        /\ \A u \in down \cup {MinusInfinity} : PinBitmap(FALSE, tick).tick >= u
    BY NextBumpDown
  <2>3. up \in SUBSET marked /\ down \in SUBSET marked
    OBVIOUS
  <2> HIDE DEF up, down
  <2>4. Min(up \cup {Infinity}) = NextBump(TRUE, tick)
    BY <2>1, <2>3, FirstIsMin
  <2>5. Max(down \cup {MinusInfinity}) = NextBump(FALSE, tick)
    BY <2>2, <2>3, LastIsMax
  <2>6. /\ PinBitmap(TRUE, tick).tick <= Min(up \cup {Infinity})
        /\ PinBitmap(FALSE, tick).tick >= Max(down \cup {MinusInfinity})
    BY <2>1, <2>2, <2>4, <2>5 DEF FirstOf, LastOf
  <2> QED BY <2>4, <2>5, <2>6 DEF up, down, Infinity, MinusInfinity
<1> QED BY <1>1, CensusExact, PTL
=============================================================================
