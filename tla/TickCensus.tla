------------------------------ MODULE TickCensus ------------------------------
(***************************************************************************)
(* Which ticks of a pool hold liquidity (mixins/TickCensus.sol on top of   *)
(* libraries/Bitmaps.sol), as two layers of bitmaps: the terminus word of  *)
(* a tick has a bit for every tick that shares its root, the mezzanine     *)
(* word a bit for every terminus word that is not empty.  The lobby above  *)
(* them is not stored but walked.  TradeMatcher and LevelBook use the      *)
(* census as the set of ticks that `marked' keeps here beside the bitmaps. *)
(*                                                                         *)
(* A word is the set of its bits.  It has Width of them instead of 256, so *)
(* a tick is an integer of three digits instead of three bytes.            *)
(***************************************************************************)
EXTENDS Integers, FiniteSets, FiniteSetsExt

CONSTANTS
    Width,    \* bits of a word
    MaxMarks  \* bound: ticks marked at one time

ASSUME WidthAssumption == Width \in Nat /\ Width > 0 /\ Width % 2 = 0

Bits == 0 .. Width - 1
\* The signed integers of one, two and three digits.
Span == <<Width, Width * Width, Width * Width * Width>>
MinKey(digits) == -(Span[digits] \div 2)
MaxKey(digits) == Span[digits] \div 2 - 1
Keys(digits) == MinKey(digits) .. MaxKey(digits)
CensusTicks == Keys(3)

VARIABLES mezzanine, terminus, marked

vars == <<mezzanine, terminus, marked>>

LobbyKey(tick) == tick \div (Width * Width)
MezzKey(tick) == tick \div Width
LobbyBit(tick) == LobbyKey(tick) + Width \div 2
MezzBit(tick) == MezzKey(tick) % Width
TermBit(tick) == tick % Width

\* The unstored lobby is indexed by bit, the stored words by signed key.
WeldLobbyMezz(lobbyBit, mezzBit) ==
    (lobbyBit - Width \div 2) * Width + mezzBit
WeldMezzTerm(mezzKey, termBit) == mezzKey * Width + termBit

\* Plus and minus infinity.
ZeroTick(isUpper) == IF isUpper THEN MaxKey(3) ELSE MinKey(3)

Init ==
    /\ mezzanine = [key \in Keys(1) |-> {}]
    /\ terminus = [key \in Keys(2) |-> {}]
    /\ marked = {}

BookmarkTick(tick) ==
    /\ mezzanine' = [mezzanine EXCEPT ![LobbyKey(tick)] = @ \cup {MezzBit(tick)}]
    /\ terminus' = [terminus EXCEPT ![MezzKey(tick)] = @ \cup {TermBit(tick)}]
    /\ marked' = marked \cup {tick}
    /\ Cardinality(marked') <= MaxMarks

\* Mutant: a word that has emptied keeps its mezzanine bit.
ForgetTickTerm(tick) ==
    /\ terminus' = [terminus EXCEPT ![MezzKey(tick)] = @ \ {TermBit(tick)}]
    /\ UNCHANGED mezzanine
    /\ marked' = marked \ {tick}

ForgetTick(tick) ==
    /\ terminus' = [terminus EXCEPT ![MezzKey(tick)] = @ \ {TermBit(tick)}]
    /\ mezzanine' = IF terminus'[MezzKey(tick)] # {} THEN mezzanine
                    ELSE [mezzanine EXCEPT ![LobbyKey(tick)] = @ \ {MezzBit(tick)}]
    /\ marked' = marked \ {tick}

Next == \E tick \in CensusTicks : BookmarkTick(tick) \/ ForgetTick(tick)

Spec == Init /\ [][Next]_vars

-----------------------------------------------------------------------------
\* Seeking the next marked tick

\* The first bit of a word once the first `shift' bits are masked, counted
\* from the right or from the left.
Truncate(word, shift, right) ==
    IF right THEN {b \in word : b >= shift} ELSE {b \in word : b < Width - shift}
BitAfterTrunc(word, shift, right) ==
    LET rest == Truncate(word, shift, right)
    IN  IF right THEN Min(rest) ELSE Max(rest)

BitRelate(bit, isUpper) == IF isUpper THEN bit ELSE Width - 1 - bit
\* A liquidity bump is at the bottom of its tick.
TermBump(tick, isUpper) ==
    BitRelate(TermBit(tick), isUpper) + (IF isUpper THEN 1 ELSE 0)

\* The border of the word: the tick past its end, or the first one in it.
SpillOverPin(isUpper, key) ==
    CASE isUpper /\ key = MaxKey(2) -> ZeroTick(TRUE)
      [] isUpper /\ key # MaxKey(2) -> WeldMezzTerm(key + 1, 0)
      [] ~isUpper                      -> WeldMezzTerm(key, 0)

\* The boundary as far as the terminus word of the tick shows it.
PinBitmap(isUpper, tick) ==
    LET word  == terminus[MezzKey(tick)]
        shift == TermBump(tick, isUpper)
        spill == Truncate(word, shift, isUpper) = {}
    IN  [spill |-> spill,
         tick |-> IF spill THEN SpillOverPin(isUpper, MezzKey(tick))
                  ELSE WeldMezzTerm(MezzKey(tick), BitAfterTrunc(word, shift, isUpper))]

\* A seek within one word, or one row of words, finds one tick or none.
SeekAtTerm(lobbyBit, mezzBit, isUpper) ==
    LET key == WeldLobbyMezz(lobbyBit, mezzBit)
    IN  IF terminus[key] = {} THEN {}
        ELSE {WeldMezzTerm(key, BitAfterTrunc(terminus[key], 0, isUpper))}

SeekAtMezz(lobbyBit, mezzBorder, isUpper) ==
    LET word  == mezzanine[lobbyBit - Width \div 2]
        shift == BitRelate(mezzBorder, isUpper)
    IN  IF Truncate(word, shift, isUpper) = {} THEN {}
        ELSE SeekAtTerm(lobbyBit, BitAfterTrunc(word, shift, isUpper), isUpper)

\* Both walks count lobby bits in an unsigned word until it wraps around.
SeekLobbyUp(lobbyBit) ==
    LET walk[i \in Bits] ==
            LET found == SeekAtMezz(i, 0, TRUE)
            IN  CASE i = 0                 -> {ZeroTick(TRUE)}
                  [] i # 0 /\ found # {} -> found
                  [] OTHER                 -> walk[(i + 1) % Width]
    IN  walk[(lobbyBit + 1) % Width]
SeekLobbyDown(lobbyBit) ==
    LET walk[i \in Bits] ==
            LET found == SeekAtMezz(i, Width - 1, FALSE)
            IN  CASE i = Width - 1                 -> {ZeroTick(FALSE)}
                  [] i # Width - 1 /\ found # {} -> found
                  [] OTHER                         -> walk[(i - 1) % Width]
    IN  walk[(lobbyBit - 1) % Width]

\* First the word at the border, then its row, then the rows beyond.
SeekMezzSpill(borderTick, isUpper) ==
    LET pinTick == IF isUpper THEN borderTick ELSE borderTick - 1
        lobby   == LobbyBit(pinTick)
        atTerm  == SeekAtTerm(lobby, MezzBit(pinTick), isUpper)
        atMezz  == SeekAtMezz(lobby, MezzBit(pinTick), isUpper)
    IN  IF borderTick = ZeroTick(isUpper) THEN borderTick
        ELSE CHOOSE tick \in CASE atTerm # {} -> atTerm
                               [] atTerm = {} /\ atMezz # {} -> atMezz
                               [] OTHER -> IF isUpper THEN SeekLobbyUp(lobby)
                                                      ELSE SeekLobbyDown(lobby) : TRUE

\* How a swap looks for its next bump (sweepSwapLiq): the global census is
\* read only once the price has moved through what the pin has shown.
NextBump(isUpper, tick) ==
    LET pin == PinBitmap(isUpper, tick)
    IN  IF pin.spill THEN SeekMezzSpill(pin.tick, isUpper) ELSE pin.tick

-----------------------------------------------------------------------------
(***************************************************************************)
(* From every tick a swap finds exactly the next marked tick in its        *)
(* direction, or infinity when there is none, across the borders of words  *)
(* and whatever was marked and forgotten before; and it never moves past   *)
(* a marked tick on the strength of the pin alone.                         *)
(***************************************************************************)
SeekFindsNearest ==
    \A tick \in CensusTicks :
        LET above == {t \in marked : t > tick} \cup {ZeroTick(TRUE)}
            below == {t \in marked : t <= tick} \cup {ZeroTick(FALSE)}
        IN  /\ NextBump(TRUE, tick) = Min(above)
            /\ NextBump(FALSE, tick) = Max(below)
            /\ PinBitmap(TRUE, tick).tick <= Min(above)
            /\ PinBitmap(FALSE, tick).tick >= Max(below)
=============================================================================
