------------------------------- MODULE IdPool -------------------------------
(***************************************************************************)
(* How the service numbers things: the loop GenUID and GenGroup share.     *)
(* Starting from a range of ids, it appends digits to both ends while more *)
(* ids are in use than the ranges so far are meant to hold, and then draws *)
(* until it hits a free one.  Both functions hold a lock, so the loop is   *)
(* one call at a time; the timer takes the lock to give group ids back.    *)
(*                                                                         *)
(* GenUID starts from <<UserMin, UserMax>>.  GenGroup starts from          *)
(* <<GroupMax, GroupMin>>: its two assignments are crossed.                *)
(***************************************************************************)
EXTENDS Integers, FiniteSets

CONSTANTS
  Lo, Hi,   \* what idMin and idMax start as
  Radix,    \* 10 in the code
  MaxInt    \* the largest int64, math.MaxInt64

ASSUME IdPoolAssumption ==
  /\ Lo \in Nat /\ Hi \in Nat /\ MaxInt \in Nat
  /\ Lo <= MaxInt /\ Hi <= MaxInt
  /\ Radix \in Nat /\ Radix >= 4

VARIABLES
  used,     \* the keys of genUidMap or genGroupMap
  idMin, idMax, capNum,  \* the locals of the call in progress
  looping,  \* a call is in progress
  result    \* what the last call returned

poolVars == <<used, idMin, idMax, capNum, looping, result>>

\* Two's complement: what is left of x in an int64.
Wrap(x) == ((x + MaxInt + 1) % (2 * (MaxInt + 1))) - MaxInt - 1

\* int(float64(x) * 0.75): Go truncates towards zero.
Share(x) == IF x >= 0 THEN (3 * x) \div 4 ELSE -((3 * (-x)) \div 4)

PoolInit ==
  /\ used = {}
  /\ idMin = 0 /\ idMax = 0 /\ capNum = 0
  /\ looping = FALSE
  /\ result = 0

Ends == <<Lo, Hi>>   \* idMin and idMax to begin with
Call ==
  /\ ~looping
  /\ looping' = TRUE
  /\ idMin' = Ends[1] /\ idMax' = Ends[2]
  /\ capNum' = Share(idMax' - idMin')
  /\ UNCHANGED <<used, result>>

NeverCrowded == FALSE
Crowded == Cardinality(used) > capNum

AtLimit == idMax > MaxInt \div Radix

\* The locals are gone with the call.
Return(id) == /\ looping' = FALSE /\ result' = id
              /\ idMin' = 0 /\ idMax' = 0 /\ capNum' = 0

\* No digits are left to append.
GiveUp ==
  /\ looping /\ Crowded /\ AtLimit
  /\ Return(-1)
  /\ UNCHANGED used

Widen ==
  /\ looping /\ Crowded /\ ~AtLimit
  /\ idMin' = Wrap(Radix * idMin) /\ idMax' = Wrap(Radix * idMax)
  /\ capNum' = Wrap(capNum + Share(Wrap(idMax' - idMin')))
  /\ UNCHANGED <<used, looping, result>>

\* rand.Intn is asked for ids until one is free, and that one is reserved.
Free == (idMin .. idMax) \ used
NotReserved(id) == used
Reserved(id) == used \cup {id}
Pick ==
  /\ looping /\ ~Crowded
  /\ \E id \in Free : Return(id) /\ used' = Reserved(id)

\* The timer gives the id of a disbanded group back.
Release(id) ==
  /\ ~looping
  /\ used' = used \ {id}
  /\ UNCHANGED <<idMin, idMax, capNum, looping, result>>

PoolNext == Call \/ GiveUp \/ Widen \/ Pick \/ \E id \in used : Release(id)

PoolSpec == PoolInit /\ [][PoolNext]_poolVars
-----------------------------------------------------------------------------
(* Properties.                                                             *)

\* Type invariant; no id leaves the range of an int64.
PoolTypeOK ==
  /\ used \subseteq 0 .. MaxInt
  /\ idMin \in 0 .. MaxInt /\ idMax \in 0 .. MaxInt /\ capNum \in 0 .. MaxInt
  /\ looping \in BOOLEAN
  /\ result \in (0 .. MaxInt) \cup {-1}

\* The draw ends: a call that has found room never faces a range whose ids are
\* all in use, whatever the digits appended and the ids given back before
\* (the loop of util.go line 76 has no other way out, and holds the lock).
DrawEnds == looping /\ ~Crowded => Free # {}

\* Digits are appended when too many ids are in use (comments at util.go lines
\* 69 and 105): a call does not give up when none is.
GivesUpOnlyWhenCrowded == [][GiveUp => used # {}]_poolVars
=============================================================================
