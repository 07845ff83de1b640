---------------------------- MODULE IdPoolProofs ----------------------------
(***************************************************************************)
(* The numbering loop, for ranges of any size and any width of integers.   *)
(***************************************************************************)
EXTENDS IdPool, FiniteSetTheorems, TLAPS

LEMMA WrapInRange ==
  ASSUME NEW x \in Int, -x <= MaxInt + 1, x <= MaxInt PROVE Wrap(x) = x
<1> DEFINE n == 2 * (MaxInt + 1)
           a == x + MaxInt + 1
<1>1. n \in Nat /\ n > 0 /\ a \in 0 .. n - 1
  BY IdPoolAssumption
<1>2. ASSUME NEW m \in Nat, m > 0, NEW b \in 0 .. m - 1 PROVE b % m = b
  BY <1>2
<1>3. a % n = a
  <2> HIDE DEF a, n
  <2>1. QED
    BY <1>1, <1>2
<1>4. QED
  BY <1>3, IdPoolAssumption DEF Wrap

\* Three quarters, rounded down.
LEMMA ShareBound ==
  ASSUME NEW x \in Nat PROVE Share(x) \in Nat /\ 4 * Share(x) <= 3 * x
  BY DEF Share

\* Appending a digit keeps the order and the ratio of the numbers.
LEMMA Digit ==
  ASSUME NEW lo \in Nat, NEW hi \in Nat, lo <= hi, hi <= MaxInt \div Radix
  PROVE  /\ Radix * lo \in Nat /\ Radix * hi \in Nat
         /\ Radix * lo <= Radix * hi /\ Radix * hi <= MaxInt
         /\ 4 * (hi - lo) <= Radix * hi - Radix * lo
<1> USE IdPoolAssumption
<1>1. Radix * (MaxInt \div Radix) <= MaxInt
  OBVIOUS
<1>2. ASSUME NEW p \in Nat, NEW q \in Nat, p <= q PROVE Radix * p <= Radix * q
  BY <1>2
<1>3. MaxInt \div Radix \in Nat
  OBVIOUS
<1>4. Radix * hi <= MaxInt
  <2>1. Radix * hi <= Radix * (MaxInt \div Radix)
    BY <1>2, <1>3
  <2>2. QED
    BY <1>1, <1>3, <2>1
<1>5. 4 * (hi - lo) <= Radix * (hi - lo)
  OBVIOUS
<1>6. QED
  BY <1>2, <1>4, <1>5

\* While a call is in progress its range is in order, and what the ranges so
\* far are meant to hold is less than what the last of them can.
RangeOK == looping => idMin <= idMax /\ capNum <= idMax - idMin

PInv == PoolTypeOK /\ RangeOK

LEMMA InitPInv == PoolInit => PInv
<1> SUFFICES ASSUME PoolInit PROVE PInv
  OBVIOUS
<1>1. 0 \in 0 .. MaxInt
  BY IdPoolAssumption
<1>2. PoolTypeOK
  BY <1>1 DEF PoolInit, PoolTypeOK
<1>3. RangeOK
  BY DEF PoolInit, RangeOK
<1>4. QED
  BY <1>2, <1>3 DEF PInv

LEMMA StepPInv == Lo <= Hi /\ PInv /\ [PoolNext]_poolVars => PInv'
<1> SUFFICES ASSUME Lo <= Hi, PInv, [PoolNext]_poolVars PROVE PInv'
  OBVIOUS
<1> USE IdPoolAssumption DEF PInv, PoolTypeOK, RangeOK
<1>1. CASE Call
  <2>1. Hi - Lo \in Nat
    OBVIOUS
  <2>2. Share(Hi - Lo) \in Nat /\ Share(Hi - Lo) <= Hi - Lo
    BY <2>1, ShareBound
  <2>3. QED
    BY <1>1, <2>2 DEF Call, Ends
<1>0. 0 \in 0 .. MaxInt
  OBVIOUS
<1>2. CASE GiveUp
  <2>1. PoolTypeOK'
    BY <1>0, <1>2 DEF GiveUp, Return
  <2>2. RangeOK'
    BY <1>2 DEF GiveUp, Return
  <2>3. QED
    BY <2>1, <2>2
<1>3. CASE Widen
  <2> DEFINE lo == Radix * idMin
             hi == Radix * idMax
             cap == capNum + Share(hi - lo)
  <2>1. looping /\ idMax <= MaxInt \div Radix
    BY <1>3 DEF Widen, AtLimit
  <2>2. /\ lo \in Nat /\ hi \in Nat /\ lo <= hi /\ hi <= MaxInt
        /\ 4 * (idMax - idMin) <= hi - lo
    BY <2>1, Digit
  <2> HIDE DEF lo, hi
  <2>3. hi - lo \in Nat
    BY <2>2
  <2>4. Share(hi - lo) \in Nat /\ 4 * Share(hi - lo) <= 3 * (hi - lo)
    BY <2>3, ShareBound
  <2>5. cap \in Nat /\ cap <= hi - lo
    BY <2>1, <2>2, <2>4
  <2>6. lo \in 0 .. MaxInt /\ hi \in 0 .. MaxInt /\ hi - lo \in 0 .. MaxInt
    BY <2>2
  <2>7. Wrap(lo) = lo /\ Wrap(hi) = hi /\ Wrap(hi - lo) = hi - lo
    BY <2>6, WrapInRange
  <2>8. Wrap(cap) = cap
    BY <2>5, <2>6, WrapInRange
  <2>9. idMin' = lo /\ idMax' = hi /\ capNum' = cap
    BY <1>3, <2>7, <2>8 DEF Widen, lo, hi
  <2>10. QED
    BY <1>3, <2>5, <2>6, <2>9 DEF Widen
<1>4. CASE Pick
  <2>1. PICK id \in idMin .. idMax : Return(id) /\ used' = Reserved(id)
    BY <1>4 DEF Pick, Free
  <2>2. id \in 0 .. MaxInt
    OBVIOUS
  <2>3. PoolTypeOK'
    BY <1>0, <2>1, <2>2 DEF Return, Reserved
  <2>4. RangeOK'
    BY <2>1 DEF Return
  <2>5. QED
    BY <2>3, <2>4
<1>5. ASSUME NEW id \in used, Release(id) PROVE PInv'
  BY <1>5 DEF Release
<1>6. CASE UNCHANGED poolVars
  BY <1>6 DEF poolVars
<1>7. QED
  BY <1>1, <1>2, <1>3, <1>4, <1>5, <1>6 DEF PoolNext

LEMMA PoolInvariance == ASSUME Lo <= Hi PROVE PoolSpec => []PInv
  BY Lo <= Hi, InitPInv, StepPInv, PTL DEF PoolSpec

\* A range in order has room for more ids than are in use.
LEMMA RoomLeft == PInv => DrawEnds
<1> SUFFICES ASSUME PInv, looping, ~Crowded, Free = {} PROVE FALSE
  BY DEF DrawEnds
<1> USE DEF PInv, PoolTypeOK, RangeOK
<1>1. IsFiniteSet(used)
  <2>1. IsFiniteSet(0 .. MaxInt)
    BY FS_Interval, IdPoolAssumption
  <2>2. QED
    BY <2>1, FS_Subset
<1>2. /\ IsFiniteSet(idMin .. idMax)
      /\ Cardinality(idMin .. idMax) = idMax - idMin + 1
  BY FS_Interval, IdPoolAssumption
<1>3. Cardinality(idMin .. idMax) <= Cardinality(used)
  <2>1. idMin .. idMax \in SUBSET used
    BY DEF Free
  <2>2. QED
    BY <1>1, <2>1, FS_Subset
<1>4. Cardinality(used) \in Nat
  BY <1>1, FS_CardinalityType
<1>5. QED
  BY <1>2, <1>3, <1>4, IdPoolAssumption DEF Crowded

\* GenUID never overflows an int64, whatever its range, ...
THEOREM NoOverflow == ASSUME Lo <= Hi PROVE PoolSpec => []PoolTypeOK
  BY Lo <= Hi, PoolInvariance, PTL DEF PInv

\* ... its draw always has a free id to hit, ...
THEOREM DrawAlwaysEnds == ASSUME Lo <= Hi PROVE PoolSpec => []DrawEnds
  BY Lo <= Hi, PoolInvariance, RoomLeft, PTL

\* ... and it gives up only when ids are in use.
THEOREM GivesUpLate == ASSUME Lo <= Hi PROVE PoolSpec => GivesUpOnlyWhenCrowded
<1>1. ASSUME PInv, GiveUp PROVE used # {}
  <2>1. ASSUME used = {} PROVE FALSE
    BY <1>1, <2>1, FS_EmptySet DEF GiveUp, Crowded, PInv, PoolTypeOK
  <2>2. QED
    BY <2>1
<1>2. PInv /\ [PoolNext]_poolVars => [GiveUp => used # {}]_poolVars
  BY <1>1
<1>3. QED
  BY Lo <= Hi, <1>2, PoolInvariance, PTL DEF PoolSpec, GivesUpOnlyWhenCrowded
-----------------------------------------------------------------------------
(* GenGroup: the range it starts from is crossed.                          *)

\* The factor a round of appending digits brings both ends to, for each round
\* there is before the integers run out; distances stay within their width.
\* In the program Lo = 9999, Hi = 1000, Radix = 10, MaxInt = 2^63 - 1 and S is
\* {10^0, ..., 10^15}: 1000 * 10^14 is the last idMax up to MaxInt \div 10, and
\* 8999 * 10^15 is less than 2^63.
CrossedStart(S) ==
  /\ Hi + 2 <= Lo /\ Lo <= Radix * Hi
  /\ S \subseteq Nat \ {0} /\ 1 \in S
  /\ \A p \in S : Hi * p <= MaxInt \div Radix => Radix * p \in S
  /\ \A p \in S : (Lo - Hi) * p <= MaxInt + 1

\* No id is ever given, and none is in use.
NoIds == used = {} /\ result \in {0, -1}

\* The range stays crossed, until idMin overflows in the last round, so the
\* ranges are meant to hold less than nothing and the pool counts as crowded.
CrossedRange(S) ==
  \E p \in S : /\ idMax = Hi * p /\ Hi * p <= MaxInt
               /\ idMin = Lo * p \/ Hi * p > MaxInt \div Radix
               /\ capNum \in Int /\ capNum < 0 /\ -capNum <= (Lo - Hi) * p

LEMMA WrapOver ==
  ASSUME NEW x \in Int, x > MaxInt, x <= 2 * MaxInt + 1
  PROVE  Wrap(x) = x - 2 * (MaxInt + 1)
<1> DEFINE n == 2 * (MaxInt + 1)
           a == x + MaxInt + 1
<1>1. n \in Nat /\ n > 0 /\ a \in Nat /\ n <= a /\ a < 2 * n
  BY IdPoolAssumption
<1>2. ASSUME NEW m \in Nat, m > 0, NEW b \in Nat, m <= b, b < 2 * m PROVE b % m = b - m
  BY <1>2
<1>3. a % n = a - n
  <2> HIDE DEF a, n
  <2>1. QED
    BY <1>1, <1>2
<1>4. QED
  BY <1>3, IdPoolAssumption DEF Wrap

LEMMA NegativeShare ==
  ASSUME NEW x \in Nat, x > 0
  PROVE  Share(-x) \in Int /\ Share(-x) <= 0 /\ 4 * (-Share(-x)) <= 3 * x
  BY DEF Share

\* What a round does to the ends of a crossed range, in their width.
LEMMA CrossedRound ==
  ASSUME NEW S, CrossedStart(S), NEW q \in S, Hi * q <= MaxInt
  PROVE  /\ Wrap(Hi * q) = Hi * q
         /\ Wrap(Lo * q) = Lo * q \/ Hi * q > MaxInt \div Radix
         /\ Wrap(Hi * q - Wrap(Lo * q)) = -((Lo - Hi) * q)
<1> DEFINE h == Hi * q
           l == Lo * q
           d == (Lo - Hi) * q
<1> USE IdPoolAssumption
<1>1. /\ h \in Nat /\ l \in Nat /\ d \in Nat /\ d > 0
      /\ l = h + d /\ h <= MaxInt /\ d <= MaxInt + 1
  BY DEF CrossedStart
<1>2. l <= Radix * h
  BY DEF CrossedStart
<1> HIDE DEF h, l, d
<1>3. Wrap(h) = h
  BY <1>1, WrapInRange
<1>4. Wrap(-d) = -d
  BY <1>1, WrapInRange
<1>5. CASE l <= MaxInt
  <2>1. Wrap(l) = l
    BY <1>1, <1>5, WrapInRange
  <2>2. QED
    BY <1>1, <1>3, <1>4, <2>1 DEF h, l, d
<1>6. CASE l > MaxInt
  <2>1. Wrap(l) = l - 2 * (MaxInt + 1)
    BY <1>1, <1>6, WrapOver
  <2>2. Wrap(h - Wrap(l)) = -d
    <3>1. h - Wrap(l) = 2 * (MaxInt + 1) - d
      BY <1>1, <2>1
    <3>2. 2 * (MaxInt + 1) - d > MaxInt /\ 2 * (MaxInt + 1) - d <= 2 * MaxInt + 1
      BY <1>1
    <3>3. Wrap(2 * (MaxInt + 1) - d) = 2 * (MaxInt + 1) - d - 2 * (MaxInt + 1)
      BY <1>1, <3>2, WrapOver
    <3>4. QED
      BY <1>1, <3>1, <3>3
  <2>3. h > MaxInt \div Radix
    <3>1. ASSUME h <= MaxInt \div Radix PROVE FALSE
      <4>1. Radix * h <= Radix * (MaxInt \div Radix)
        BY <1>1, <3>1
      <4>2. Radix * (MaxInt \div Radix) <= MaxInt
        OBVIOUS
      <4>3. QED
        BY <1>1, <1>2, <1>6, <4>1, <4>2
    <3>2. QED
      BY <1>1, <3>1
  <2>4. QED
    BY <1>3, <2>2, <2>3 DEF h, l, d
<1>7. QED
  BY <1>1, <1>5, <1>6

LEMMA StepCrossed ==
  ASSUME NEW S, CrossedStart(S), NoIds, looping => CrossedRange(S), [PoolNext]_poolVars
  PROVE  NoIds' /\ (looping => CrossedRange(S))'
<1> USE IdPoolAssumption
<1>1. CASE Call
  <2>1. Lo - Hi \in Nat /\ Lo - Hi >= 2 /\ 1 \in S
    BY DEF CrossedStart
  <2>2. PICK x \in Nat : x = Lo - Hi /\ x >= 2
    BY <2>1
  <2>3. Hi - Lo = -x
    BY <2>2
  <2>4. /\ Share(Hi - Lo) \in Int /\ -Share(Hi - Lo) <= Lo - Hi
        /\ Share(Hi - Lo) < 0
    <3>1. Share(Hi - Lo) = -((3 * x) \div 4)
      BY <2>2, <2>3 DEF Share
    <3>2. QED
      BY <2>2, <3>1
  <2>5. QED
    BY <1>1, <2>1, <2>4 DEF Call, Ends, CrossedRange, NoIds
<1>2. CASE GiveUp
  <2>1. looping' = FALSE /\ NoIds'
    BY <1>2 DEF GiveUp, Return, NoIds
  <2>2. QED
    BY <2>1
<1>3. CASE Widen
  <2>1. PICK p \in S : /\ idMax = Hi * p /\ Hi * p <= MaxInt
                       /\ idMin = Lo * p \/ Hi * p > MaxInt \div Radix
                       /\ capNum \in Int /\ capNum < 0 /\ -capNum <= (Lo - Hi) * p
    BY <1>3 DEF Widen, CrossedRange
  <2>2. p \in Nat /\ p > 0 /\ idMax <= MaxInt \div Radix
    BY <1>3, <2>1 DEF Widen, AtLimit, CrossedStart
  <2>3. idMin = Lo * p /\ Radix * p \in S
    BY <2>1, <2>2 DEF CrossedStart
  <2>4. PICK q \in S : q = Radix * p
    BY <2>3
  <2>5. /\ q \in Nat /\ q >= 4 * p
        /\ Radix * idMax = Hi * q /\ Radix * idMin = Lo * q
    BY <2>1, <2>2, <2>3, <2>4
  <2>6. Hi * q <= MaxInt
    <3>1. idMax \in Nat /\ MaxInt \div Radix \in Nat
      BY <2>1, <2>2
    <3>2. Radix * idMax <= Radix * (MaxInt \div Radix)
      BY <2>2, <3>1
    <3>3. Radix * (MaxInt \div Radix) <= MaxInt
      OBVIOUS
    <3>4. QED
      BY <2>5, <3>1, <3>2, <3>3
  <2>7. /\ Wrap(Hi * q) = Hi * q
        /\ Wrap(Lo * q) = Lo * q \/ Hi * q > MaxInt \div Radix
        /\ Wrap(Hi * q - Wrap(Lo * q)) = -((Lo - Hi) * q)
    BY <2>6, CrossedRound
  <2>8. /\ idMax' = Hi * q
        /\ idMin' = Lo * q \/ Hi * q > MaxInt \div Radix
        /\ capNum' = Wrap(capNum + Share(-((Lo - Hi) * q)))
    <3>1. /\ idMax' = Wrap(Radix * idMax) /\ idMin' = Wrap(Radix * idMin)
          /\ capNum' = Wrap(capNum + Share(Wrap(idMax' - idMin')))
      BY <1>3 DEF Widen
    <3>2. /\ idMax' = Wrap(Hi * q) /\ idMin' = Wrap(Lo * q)
          /\ capNum' = Wrap(capNum + Share(Wrap(idMax' - idMin')))
      BY ONLY <2>5, <3>1
    <3>3. capNum' = Wrap(capNum + Share(Wrap(Hi * q - Wrap(Lo * q))))
      BY ONLY <2>7, <3>2
    <3>4. QED
      BY ONLY <2>7, <3>2, <3>3
  <2> DEFINE d == (Lo - Hi) * q
             s == Share(-d)
  <2>9. /\ d \in Nat /\ d > 0 /\ 4 * ((Lo - Hi) * p) <= d /\ d <= MaxInt + 1
        /\ (Lo - Hi) * p \in Nat
    <3>1. Lo - Hi \in Nat /\ Lo - Hi > 0
      BY DEF CrossedStart
    <3>2. d <= MaxInt + 1
      BY DEF CrossedStart
    <3>3. 4 * ((Lo - Hi) * p) <= (Lo - Hi) * q
      <4>1. ASSUME NEW k \in Nat PROVE k * (4 * p) <= k * q
        BY <2>2, <2>5
      <4>2. QED
        BY <2>2, <3>1, <4>1
    <3>4. QED
      BY <2>2, <2>4, <2>5, <3>1, <3>2, <3>3
  <2> HIDE DEF d
  <2>10. s \in Int /\ s <= 0 /\ 4 * (-s) <= 3 * d
    BY <2>9, NegativeShare
  <2> HIDE DEF s
  <2>11. capNum + s \in Int /\ capNum + s < 0 /\ -(capNum + s) <= d
    <3>1. PICK e \in Nat : e = (Lo - Hi) * p
      BY <2>9
    <3>2. 4 * e <= d /\ -capNum <= e
      BY <2>1, <2>9, <3>1
    <3>3. QED
      BY <2>1, <2>9, <2>10, <3>1, <3>2
  <2>12. Wrap(capNum + s) = capNum + s
    BY <2>9, <2>11, WrapInRange
  <2>13. capNum' = capNum + s
    BY <2>8, <2>12 DEF s, d
  <2>14. CrossedRange(S)'
    BY <2>6, <2>8, <2>11, <2>13 DEF CrossedRange, d
  <2>15. QED
    BY <1>3, <2>14 DEF Widen, NoIds
<1>4. CASE Pick
  <2>1. Cardinality(used) = 0
    BY FS_EmptySet DEF NoIds
  <2>2. capNum \in Int /\ capNum < 0
    BY <1>4 DEF Pick, CrossedRange
  <2>3. QED
    BY <1>4, <2>1, <2>2 DEF Pick, Crowded
<1>5. ASSUME NEW id \in used, Release(id) PROVE FALSE
  BY <1>5 DEF NoIds
<1>6. CASE UNCHANGED poolVars
  BY <1>6 DEF poolVars, NoIds, CrossedRange
<1>7. QED
  BY <1>1, <1>2, <1>3, <1>4, <1>5, <1>6 DEF PoolNext

\* GenGroup never gives an id: each call appends digits to a crossed range
\* until no int64 is left, and returns -1 (util.go lines 98-123).
THEOREM CrossedPoolAlwaysFails ==
  ASSUME NEW S, CrossedStart(S) PROVE PoolSpec => []NoIds
<1>1. PoolInit => NoIds /\ (looping => CrossedRange(S))
  BY DEF PoolInit, NoIds
<1>2. NoIds /\ (looping => CrossedRange(S)) /\ [PoolNext]_poolVars
        => NoIds' /\ (looping => CrossedRange(S))'
  BY CrossedStart(S), StepCrossed
<1>3. QED
  BY <1>1, <1>2, PTL DEF PoolSpec
=============================================================================
