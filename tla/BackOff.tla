------------------------------ MODULE BackOff ------------------------------
(***************************************************************************)
(* The back-off state of a dict or of a blacklist (src/state.c): after too *)
(* many errors within a time frame vt_state_omit is meant to tell callers  *)
(* to leave the resource alone for a while.                                *)
(*                                                                         *)
(* vt_state_omit and vt_state_error read the clock first and take the lock *)
(* after it, so what they decide with may be old when they decide.         *)
(*                                                                         *)
(* A definition whose name ends in _Bug is the one that follows it with a  *)
(* slip in it; no specification uses it.                                   *)
(***************************************************************************)
EXTENDS Integers

CONSTANTS Callers,        \* threads that use the state
          Frames,         \* values of time_frame, the default included
          ErrorLimits,    \* of max_errors
          BackOffs,       \* of back_off_secs
          MaxBackOffs,    \* of max_back_off_secs
          TIME_FRAME, MAX_ERRORS, BACK_OFF_TIME, MAX_BACK_OFF_TIME,
          PowersOfTwo,    \* what shifting 1 to the left gives in an int
          LastSecond      \* bound: the clock stops there

(* i is the first of the powers that is not below n. *)
Reaches(i, n) == i >= n /\ \A j \in PowersOfTwo : j >= n => i <= j

ASSUME BackOffAssumption ==
  /\ Frames \subseteq Nat
  /\ ErrorLimits \subseteq Nat
  /\ BackOffs \subseteq Nat \ {0}
  /\ MaxBackOffs \subseteq Nat
  /\ TIME_FRAME \in Frames /\ MAX_ERRORS \in ErrorLimits
  /\ BACK_OFF_TIME \in BackOffs /\ MAX_BACK_OFF_TIME \in MaxBackOffs
  /\ PowersOfTwo \subseteq Nat \ {0} /\ 1 \in PowersOfTwo
  /\ \A l \in MaxBackOffs, s \in BackOffs :      \* no shift overflows
       \E i \in PowersOfTwo : Reaches(i, l \div s)
  /\ LastSecond \in Nat \ {0}

VARIABLES
  clock,                                     \* what time(NULL) returns
  start, back_off, errors, power, max_power,
  time_frame, max_errors, back_off_secs, max_back_off_secs,
  now,                                       \* the time each caller has read
  pc,                                        \* the call each caller is in
  omitted                                    \* what vt_state_omit returned last

settings == <<time_frame, max_errors, back_off_secs, max_back_off_secs>>
vars == <<clock, start, back_off, errors, power, max_power, settings, now, pc,
          omitted>>

-----------------------------------------------------------------------------
(* for (i = 1; i < n; i <<= 1), n being the quotient of two integers. *)
PowerFor(longest, shortest) ==
  CHOOSE i \in PowersOfTwo : Reaches(i, longest \div shortest)

(* for (; p > 1 && p < m; p <<= 1) m -= p: once p has been multiplied by r *)
(* it has taken p * (r - 1) off m.                                         *)
Stops(p, m, r) == ~(p * r > 1 /\ p * r < m - p * (r - 1))

FirstStop(p, m, r) ==
  Stops(p, m, r) /\ \A q \in PowersOfTwo : q < r => ~Stops(p, m, q)

Growth(p, m) == CHOOSE r \in PowersOfTwo : FirstStop(p, m, r)

Regrown(p, m) == p * Growth(p, m)

(* vt_state_init *)
Init ==
  /\ clock = 1
  /\ start = 0 /\ back_off = 0 /\ errors = 0 /\ power = 0
  /\ time_frame = TIME_FRAME
  /\ max_errors = MAX_ERRORS
  /\ back_off_secs = BACK_OFF_TIME
  /\ max_back_off_secs = MAX_BACK_OFF_TIME
  /\ max_power = PowerFor(MAX_BACK_OFF_TIME, BACK_OFF_TIME)
  /\ now = [c \in Callers |-> 0]
  /\ pc = [c \in Callers |-> "idle"]
  /\ omitted = [c \in Callers |-> FALSE]

Tick ==
  /\ clock < LastSecond
  /\ clock' = clock + 1
  /\ UNCHANGED <<start, back_off, errors, power, max_power, settings, now, pc,
                 omitted>>

(* vt_state_set_attr, whose four attributes are four disjuncts. *)
SetAttr ==
  /\ \/ /\ max_errors' \in ErrorLimits
        /\ UNCHANGED <<time_frame, back_off_secs, max_back_off_secs, max_power>>
     \/ /\ time_frame' \in Frames
        /\ UNCHANGED <<max_errors, back_off_secs, max_back_off_secs, max_power>>
     \/ /\ back_off_secs' \in BackOffs
        /\ max_power' = PowerFor(max_back_off_secs, back_off_secs')
        /\ UNCHANGED <<max_errors, time_frame, max_back_off_secs>>
     \/ /\ max_back_off_secs' \in MaxBackOffs
        /\ max_power' = PowerFor(max_back_off_secs', back_off_secs)
        /\ UNCHANGED <<max_errors, time_frame, back_off_secs>>
  /\ UNCHANGED <<clock, start, back_off, errors, power, now, pc, omitted>>

(* time_t now = time (NULL), before the lock. *)
Call(c, f) ==
  /\ pc[c] = "idle"
  /\ pc' = [pc EXCEPT ![c] = f]
  /\ now' = [now EXCEPT ![c] = clock]
  /\ UNCHANGED <<clock, start, back_off, errors, power, max_power, settings,
                 omitted>>

Return(c) == pc' = [pc EXCEPT ![c] = "idle"]

(* vt_state_omit, with the read lock held. *)
Omit(c) ==
  /\ pc[c] = "omit"
  /\ Return(c)
  /\ omitted' = [omitted EXCEPT ![c] = back_off > now[c]]
  /\ UNCHANGED <<clock, start, back_off, errors, power, max_power, settings, now>>

(* The two comparisons that let an error count. *)
InTimeFrame(t) == start > back_off /\ start > t - time_frame

(* vt_state_error, with the write lock held: an error that is reported     *)
(* while the resource is left alone does not count;                        *)
ErrorIgnored(c) ==
  /\ pc[c] = "error"
  /\ ~(now[c] > back_off)
  /\ Return(c)
  /\ UNCHANGED <<clock, start, back_off, errors, power, max_power, settings, now,
                 omitted>>

(* one that is outside the time frame starts a new one, at the time read   *)
(* by a second call of time(NULL);                                         *)
ErrorFirst(c) ==
  /\ pc[c] = "error"
  /\ now[c] > back_off
  /\ ~InTimeFrame(now[c])
  /\ start' = clock
  /\ errors' = 1
  /\ Return(c)
  /\ UNCHANGED <<clock, back_off, power, max_power, settings, now, omitted>>

(* one within it adds up;                                                  *)
ErrorCounted(c) ==
  /\ pc[c] = "error"
  /\ now[c] > back_off
  /\ InTimeFrame(now[c])
  /\ errors + 1 < max_errors
  /\ errors' = errors + 1
  /\ Return(c)
  /\ UNCHANGED <<clock, start, back_off, power, max_power, settings, now, omitted>>

(* The power once the time since the last back-off is accounted for. *)
UpdatedPower(t) ==
  LET slot == t - back_off
      full == power >= max_power
      long == slot > max_back_off_secs
      p == IF full /\ long THEN 2 * power ELSE power
      rest == IF ~full THEN slot ELSE IF long THEN slot - max_back_off_secs ELSE 0
  IN Regrown(p, rest \div back_off_secs)

(* The power that grows: the shift goes the other way. *)
ErrorTrips_Bug(c) ==
  /\ pc[c] = "error"
  /\ now[c] > back_off
  /\ InTimeFrame(now[c])
  /\ errors + 1 >= max_errors
  /\ errors' = 0
  /\ power' = power + 1
  /\ back_off' = now[c] + back_off_secs * power'
  /\ Return(c)
  /\ UNCHANGED <<clock, start, max_power, settings, now, omitted>>

(* now > back_off is not checked. *)
ErrorTripsBack_Bug(c) ==
  /\ pc[c] = "error"
  /\ InTimeFrame(now[c])
  /\ errors + 1 >= max_errors
  /\ errors' = 0
  /\ back_off' = now[c]
  /\ Return(c)
  /\ UNCHANGED <<clock, start, power, max_power, settings, now, omitted>>

(* and one too many sets the power and the time to back off until.         *)
ErrorTrips(c) ==
  /\ pc[c] = "error"
  /\ now[c] > back_off
  /\ InTimeFrame(now[c])
  /\ errors + 1 >= max_errors
  /\ errors' = 0
  /\ LET p == UpdatedPower(now[c]) IN
     IF p < max_power
     THEN /\ power' = p \div 2
          /\ back_off' = now[c] + back_off_secs * power'
     ELSE /\ power' = max_power
          /\ back_off' = now[c] + max_back_off_secs
  /\ Return(c)
  /\ UNCHANGED <<clock, start, max_power, settings, now, omitted>>

Error(c) ==
  \/ ErrorIgnored(c)
  \/ ErrorFirst(c)
  \/ ErrorCounted(c)
  \/ ErrorTrips(c)

Next ==
  \/ Tick
  \/ SetAttr
  \/ \E c \in Callers : Call(c, "omit") \/ Call(c, "error") \/ Omit(c) \/ Error(c)

Spec == Init /\ [][Next]_vars
-----------------------------------------------------------------------------
TypeOK ==
  /\ clock \in Nat
  /\ start \in Nat /\ back_off \in Nat /\ errors \in Nat
  /\ power \in Nat /\ max_power \in Nat \ {0}
  /\ time_frame \in Frames /\ max_errors \in ErrorLimits
  /\ back_off_secs \in BackOffs /\ max_back_off_secs \in MaxBackOffs
  /\ now \in [Callers -> Nat]
  /\ pc \in [Callers -> {"idle", "omit", "error"}]
  /\ omitted \in [Callers -> BOOLEAN]

(* No error, no attribute and no interleaving ever sets back_off to a time *)
(* that lies ahead: power starts at 0, and it is only ever shifted.        *)
NeverAhead == back_off <= clock /\ power = 0

(* So vt_state_omit tells a caller to leave the resource alone only when   *)
(* the caller was overtaken between reading the clock and taking the lock. *)
OmitOnlyOvertaken ==
  [][\A c \in Callers : ~omitted[c] /\ omitted'[c] => now[c] < clock]_vars

(* The time to back off until never moves back, although callers with an   *)
(* older clock may get the lock after callers with a newer one.            *)
BackOffMonotone == [][back_off' >= back_off]_vars

(* "now that the power is updated we increase it... and set the back off   *)
(* time!" (src/state.c, in vt_state_error).                                *)
TripsBackOff ==
  [][\A c \in Callers : ErrorTrips(c) => power' > 0 /\ back_off' > now[c]]_vars
=============================================================================
