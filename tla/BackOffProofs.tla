--------------------------- MODULE BackOffProofs ---------------------------
(***************************************************************************)
(* Proofs about BackOff, for any attributes: the power is 0 and is only    *)
(* ever multiplied or divided, so back_off is always set to a time that a  *)
(* caller has read, and no caller reads a time that has not come           *)
(* (ReadBefore).                                                           *)
(***************************************************************************)
EXTENDS BackOff, TLAPS

ReadBefore == \A c \in Callers : now[c] <= clock

Inv == TypeOK /\ NeverAhead /\ ReadBefore
-----------------------------------------------------------------------------
(* The loop of vt_state_set_attr ends in a power of two. *)
LEMMA PowerForType ==
  ASSUME NEW l \in MaxBackOffs, NEW s \in BackOffs
  PROVE  PowerFor(l, s) \in Nat \ {0}
<1>1. \E i \in PowersOfTwo : Reaches(i, l \div s)
  BY BackOffAssumption
<1>2. PowerFor(l, s) \in PowersOfTwo
  BY <1>1 DEF PowerFor
<1> QED
  BY <1>2, BackOffAssumption

(* Shifting does not make anything out of 0. *)
LEMMA NothingRegrown ==
  ASSUME NEW m \in Int
  PROVE  Regrown(0, m) = 0
<1>1. PowersOfTwo \subseteq Nat \ {0} /\ 1 \in PowersOfTwo
  BY BackOffAssumption
<1>2. \A r \in PowersOfTwo : Stops(0, m, r)
  BY <1>1 DEF Stops
<1>3. FirstStop(0, m, 1)
  BY <1>1, <1>2 DEF FirstStop
<1>4. \E r \in PowersOfTwo : FirstStop(0, m, r)
  BY <1>1, <1>3
<1>5. Growth(0, m) \in PowersOfTwo
  BY <1>4 DEF Growth
<1>6. Growth(0, m) \in Nat
  BY <1>1, <1>5
<1>7. \A x \in Nat : 0 * x = 0
  OBVIOUS
<1> QED
  BY <1>6, <1>7 DEF Regrown

(* One error too many sets back_off to the time its caller has read.       *)
LEMMA TripsToNow ==
  ASSUME Inv, NEW c \in Callers, ErrorTrips(c)
  PROVE  power' = 0 /\ back_off' = now[c]
<1>1. /\ power = 0 /\ max_power \in Nat \ {0} /\ back_off_secs \in Nat \ {0}
      /\ now[c] \in Nat /\ back_off \in Nat
  BY BackOffAssumption DEF Inv, NeverAhead, TypeOK
<1>2. (now[c] - back_off) \div back_off_secs \in Int
  BY <1>1
<1>3. UpdatedPower(now[c]) = 0
  BY <1>1, <1>2, NothingRegrown DEF UpdatedPower
<1>4. power' = 0 \div 2 /\ back_off' = now[c] + back_off_secs * power'
  BY <1>1, <1>3 DEF ErrorTrips
<1> QED
  BY <1>1, <1>4
-----------------------------------------------------------------------------
THEOREM InvInit == Init => Inv
<1> SUFFICES ASSUME Init PROVE Inv
  OBVIOUS
<1> USE BackOffAssumption
<1>1. max_power \in Nat \ {0}
  BY PowerForType DEF Init
<1>2. TypeOK
  <2>1. /\ time_frame \in Frames /\ max_errors \in ErrorLimits
        /\ back_off_secs \in BackOffs /\ max_back_off_secs \in MaxBackOffs
    BY DEF Init
  <2>2. /\ now \in [Callers -> Nat]
        /\ pc \in [Callers -> {"idle", "omit", "error"}]
        /\ omitted \in [Callers -> BOOLEAN]
    BY DEF Init
  <2> QED
    BY <1>1, <2>1, <2>2 DEF Init, TypeOK
<1>3. NeverAhead /\ ReadBefore
  BY DEF Init, NeverAhead, ReadBefore
<1> QED
  BY <1>2, <1>3 DEF Inv

LEMMA TypeStep == ASSUME Inv, [Next]_vars PROVE TypeOK'
<1> USE BackOffAssumption
<1>0. TypeOK /\ NeverAhead
  BY DEF Inv
<1>1. CASE Tick
  BY <1>0, <1>1 DEF Tick, TypeOK, settings
<1>2. CASE SetAttr
  <2>1. max_power' \in Nat \ {0}
    BY <1>0, <1>2, PowerForType DEF SetAttr, TypeOK
  <2> QED
    BY <1>0, <1>2, <2>1 DEF SetAttr, TypeOK
<1>3. ASSUME NEW c \in Callers, NEW f \in {"omit", "error"}, Call(c, f)
      PROVE  TypeOK'
  BY <1>0, <1>3 DEF Call, TypeOK, settings
<1>4. ASSUME NEW c \in Callers, Omit(c)
      PROVE  TypeOK'
  BY <1>0, <1>4 DEF Omit, Return, TypeOK, settings
<1>5. ASSUME NEW c \in Callers, ErrorIgnored(c) \/ ErrorFirst(c) \/ ErrorCounted(c)
      PROVE  TypeOK'
  BY <1>0, <1>5 DEF ErrorIgnored, ErrorFirst, ErrorCounted, Return, TypeOK, settings
<1>6. ASSUME NEW c \in Callers, ErrorTrips(c)
      PROVE  TypeOK'
  <2>1. power' = 0 /\ back_off' = now[c]
    BY <1>6, TripsToNow
  <2> QED
    BY <1>0, <1>6, <2>1 DEF ErrorTrips, Return, TypeOK, settings
<1>7. CASE UNCHANGED vars
  BY <1>0, <1>7 DEF vars, settings, TypeOK
<1> QED
  BY <1>1, <1>2, <1>3, <1>4, <1>5, <1>6, <1>7 DEF Next, Error

LEMMA AheadStep ==
  ASSUME Inv, [Next]_vars PROVE NeverAhead' /\ ReadBefore' /\ back_off' >= back_off
<1>0. TypeOK /\ NeverAhead /\ ReadBefore
  BY DEF Inv
<1>1. CASE Tick
  BY <1>0, <1>1 DEF Tick, TypeOK, NeverAhead, ReadBefore
<1>2. ASSUME NEW c \in Callers, NEW f \in {"omit", "error"}, Call(c, f)
      PROVE  NeverAhead' /\ ReadBefore' /\ back_off' >= back_off
  BY <1>0, <1>2 DEF Call, TypeOK, NeverAhead, ReadBefore
<1>3. ASSUME NEW c \in Callers, ErrorTrips(c)
      PROVE  NeverAhead' /\ ReadBefore' /\ back_off' >= back_off
  <2>1. power' = 0 /\ back_off' = now[c]
    BY <1>3, TripsToNow
  <2> QED
    BY <1>0, <1>3, <2>1 DEF ErrorTrips, TypeOK, NeverAhead, ReadBefore
<1>4. ASSUME UNCHANGED <<clock, back_off, power, now>>
      PROVE  NeverAhead' /\ ReadBefore' /\ back_off' >= back_off
  BY <1>0, <1>4 DEF TypeOK, NeverAhead, ReadBefore
<1> QED
  BY <1>1, <1>2, <1>3, <1>4
  DEF Next, SetAttr, Omit, Error, ErrorIgnored, ErrorFirst, ErrorCounted, vars

THEOREM InvAlways == Spec => []Inv
<1>1. Init => Inv
  BY InvInit
<1>2. Inv /\ [Next]_vars => Inv'
  BY TypeStep, AheadStep DEF Inv
<1> QED
  BY <1>1, <1>2, PTL DEF Spec
-----------------------------------------------------------------------------
(* back_off is never ahead of the clock: no sequence of errors and no      *)
(* attribute makes the dict or the blacklist be left alone.                *)
THEOREM NeverAheadSafety == Spec => []NeverAhead
<1>1. Inv => NeverAhead
  BY DEF Inv
<1> QED
  BY <1>1, InvAlways, PTL

(* vt_state_omit returns 1 only to a caller that was overtaken between     *)
(* reading the clock and taking the lock.                                  *)
THEOREM OmitSafety == Spec => OmitOnlyOvertaken
<1>1. Inv /\ [Next]_vars =>
        [\A c \in Callers : ~omitted[c] /\ omitted'[c] => now[c] < clock]_vars
  <2> SUFFICES ASSUME Inv, [Next]_vars, NEW c \in Callers, ~omitted[c], omitted'[c]
               PROVE  now[c] < clock
    OBVIOUS
  <2>1. ASSUME UNCHANGED omitted PROVE FALSE
    BY <2>1
  <2>2. PICK d \in Callers : Omit(d)
    BY <2>1 DEF Next, Tick, SetAttr, Call, Error, ErrorIgnored, ErrorFirst, ErrorCounted,
                ErrorTrips, vars
  <2>3. omitted'[c] = (back_off > now[c])
    BY <2>2 DEF Omit, Inv, TypeOK
  <2>4. back_off > now[c]
    BY <2>3
  <2> QED
    BY <2>4 DEF Inv, NeverAhead, TypeOK
<1> QED
  BY <1>1, InvAlways, PTL DEF Spec, OmitOnlyOvertaken

(* The time to back off until never moves back.                            *)
THEOREM MonotoneSafety == Spec => BackOffMonotone
<1>1. Inv /\ [Next]_vars => [back_off' >= back_off]_vars
  BY AheadStep
<1> QED
  BY <1>1, InvAlways, PTL DEF Spec, BackOffMonotone
=============================================================================
