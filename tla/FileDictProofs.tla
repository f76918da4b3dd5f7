-------------------------- MODULE FileDictProofs --------------------------
(***************************************************************************)
(* Proofs about FileDict, for any number of threads, any age limit and any *)
(* changes of the file.                                                    *)
(*                                                                         *)
(* The lock first (LockHeld): who reads the file is alone, so nothing that *)
(* a thread has seen of the dict since it took the lock changes but by     *)
(* itself (Decided).  Then time (Watched): atime is put forward only by a  *)
(* thread that compares the file's time and, if it differs, does not give  *)
(* up before it has read the file or found it gone.                        *)
(***************************************************************************)
EXTENDS FileDict, TLAPS

LockHeld ==
  \A t \in Threads :
    /\ holds[t] = "write" => \A u \in Threads \ {t} : holds[u] = "none"
    /\ pc[t] \in {"again", "stat", "lookup"} => holds[t] # "none"
    /\ pc[t] = "load" => holds[t] = "write"
    /\ pc[t] = "upgrade" => holds[t] # "write"

Decided ==
  \A t \in Threads :
    /\ pc[t] = "stat" /\ ~loaddb[t] => ready \/ failed
    /\ pc[t] = "stat" /\ loaddb[t] /\ kind = "hash" => ~(handle /\ ready)
    /\ pc[t] = "lookup" => ready \/ failed

InTime ==
  /\ atime <= clock /\ file.changed <= clock
  /\ \A t \in Threads : now[t] <= clock

Watched ==
  kind = "pcre" /\ Outdated =>
    file.changed >= atime \/ \E u \in Threads : OnTheWay(u)

LockInv == TypeOK /\ LockHeld
SafeInv == LockInv /\ Decided /\ ReloadOnce
FreshInv == LockInv /\ InTime /\ Watched /\ Fresh
-----------------------------------------------------------------------------
(* Who is at "load" is the only thread that holds the lock.                *)
LEMMA AloneAtLoad ==
  ASSUME LockHeld, NEW t \in Threads, pc[t] = "load"
  PROVE  \A u \in Threads \ {t} :
           pc[u] \notin {"again", "stat", "lookup", "load"}
BY DEF LockHeld

THEOREM LockInit == Init => LockInv
<1> SUFFICES ASSUME Init PROVE LockInv
  OBVIOUS
<1>1. file \in [there : BOOLEAN, contents : Nat, patterns : BOOLEAN,
                mtime : Nat, changed : Nat]
  BY DEF Init
<1>2. /\ holds \in [Threads -> {"none", "read", "write"}]
      /\ pc \in [Threads -> Places] /\ loaddb \in [Threads -> BOOLEAN]
      /\ now \in [Threads -> Nat] /\ st \in [Threads -> Nat]
  BY DEF Init, Places
<1>3. /\ kind \in {"hash", "pcre"} /\ clock \in Nat
      /\ atime \in Nat /\ mtime \in Nat /\ loaded \in Nat
  BY FileDictAssumption DEF Init
<1>4. /\ handle \in BOOLEAN /\ ready \in BOOLEAN /\ failed \in BOOLEAN
      /\ alive \in BOOLEAN
  BY DEF Init
<1>5. TypeOK
  BY <1>1, <1>2, <1>3, <1>4 DEF TypeOK
<1>6. LockHeld
  BY DEF Init, LockHeld
<1> QED
  BY <1>5, <1>6 DEF LockInv

(* Bringing the process down changes nothing else.                         *)
LEMMA TypeDown == TypeOK /\ BringsDown => TypeOK'
BY DEF TypeOK, BringsDown, dict, local

LEMMA TypeNext == TypeOK /\ [Next]_vars => TypeOK'
<1> SUFFICES ASSUME TypeOK, [Next]_vars PROVE TypeOK'
  OBVIOUS
<1> USE FileDictAssumption DEF TypeOK, Places, Goto, dict, local
<1>1. ASSUME NEW t \in Threads, Enter(t) PROVE TypeOK'
  BY <1>1 DEF Enter
<1>2. ASSUME NEW t \in Threads, Again(t) PROVE TypeOK'
  <2>1. PICK omit \in Omits :
          /\ loaddb' = [loaddb EXCEPT ![t] = MustLoad(t, omit)]
          /\ pc' = [pc EXCEPT ![t] = "stat"] \/ pc' = [pc EXCEPT ![t] = "lookup"]
    BY <1>2 DEF Again
  <2>2. MustLoad(t, omit) \in BOOLEAN
    BY DEF MustLoad
  <2> QED
    BY <1>2, <2>1, <2>2 DEF Again
<1>3. ASSUME NEW t \in Threads, Stat(t) PROVE TypeOK'
  <2>1. CASE StatFound(t)
    BY <1>3, <2>1, TypeDown DEF Stat, StatFound, AfterStat
  <2>2. CASE StatFailed(t)
    BY <1>3, <2>2, TypeDown DEF Stat, StatFailed
  <2> QED
    BY <1>3, <2>1, <2>2, TypeDown DEF Stat
<1>4. ASSUME NEW t \in Threads, Release(t) PROVE TypeOK'
  BY <1>4 DEF Release
<1>5. ASSUME NEW t \in Threads, WrLock(t) PROVE TypeOK'
  BY <1>5 DEF WrLock
<1>6. ASSUME NEW t \in Threads, Load(t) PROVE TypeOK'
  <2>1. ASSUME Loaded(t), UNCHANGED <<kind, clock, file, holds, now, loaddb,
                                      st, alive>>, handle' \in BOOLEAN
        PROVE  TypeOK'
    BY <2>1 DEF Loaded
  <2>2. CASE LoadHash(t)
    BY <2>1, <2>2, TypeDown DEF LoadHash, OpenFailed
  <2>3. CASE LoadPatterns(t)
    <3>1. file.patterns \in BOOLEAN
      OBVIOUS
    <3>2. ASSUME ParseFailed(t), UNCHANGED <<kind, clock, file, holds, now,
                                             loaddb, st, alive>>
          PROVE  TypeOK'
      BY <3>2 DEF ParseFailed
    <3>3. CASE BringsDown
      BY <3>3, TypeDown
    <3>4. CASE Loaded(t) /\ handle' = file.patterns
               /\ UNCHANGED <<kind, clock, file, holds, now, loaddb, st, alive>>
      BY <2>1, <3>1, <3>4
    <3> QED
      BY <2>3, <3>2, <3>3, <3>4 DEF LoadPatterns
  <2> QED
    BY <1>6, <2>2, <2>3 DEF Load
<1>7. ASSUME NEW t \in Threads, Lookup(t) PROVE TypeOK'
  BY <1>7, TypeDown DEF Lookup
<1>8. ASSUME NEW t \in Threads, Leave(t) PROVE TypeOK'
  BY <1>8 DEF Leave
<1>9. CASE Change
  <2>1. file' \in [there : BOOLEAN, contents : Nat, patterns : BOOLEAN,
                   mtime : Nat, changed : Nat]
    BY <1>9 DEF Change
  <2> QED
    BY <1>9, <2>1 DEF Change
<1>10. CASE Vanish
  <2>1. file' \in [there : BOOLEAN, contents : Nat, patterns : BOOLEAN,
                   mtime : Nat, changed : Nat]
    BY <1>10 DEF Vanish
  <2> QED
    BY <1>10, <2>1 DEF Vanish
<1>11. CASE Tick
  BY <1>11 DEF Tick
<1>12. CASE UNCHANGED vars
  BY <1>12 DEF vars
<1> QED
  BY <1>1, <1>2, <1>3, <1>4, <1>5, <1>6, <1>7, <1>8, <1>9, <1>10, <1>11,
     <1>12 DEF Next, Check, Down
LEMMA LockNext == LockInv /\ [Next]_vars => LockInv'
<1> SUFFICES ASSUME LockInv, [Next]_vars PROVE LockInv'
  OBVIOUS
<1>1. TypeOK /\ TypeOK'
  BY TypeNext DEF LockInv
<1> USE <1>1 DEF LockInv, LockHeld, TypeOK, Goto
<1>2. ASSUME NEW t \in Threads, Enter(t) PROVE LockHeld'
  BY <1>2 DEF Enter
<1>3. ASSUME NEW t \in Threads, Again(t) PROVE LockHeld'
  BY <1>3 DEF Again
<1>4. ASSUME BringsDown PROVE LockHeld'
  BY <1>4 DEF BringsDown, local
<1>5. ASSUME NEW t \in Threads, Stat(t) PROVE LockHeld'
  <2>1. CASE BringsDown
    BY <1>4, <2>1
  <2>2. CASE StatFound(t) /\ UNCHANGED holds
    BY <1>5, <2>2 DEF Stat, StatFound, AfterStat
  <2>3. CASE StatFailed(t) /\ UNCHANGED holds
    BY <1>5, <2>3 DEF Stat, StatFailed
  <2> QED
    BY <1>5, <2>1, <2>2, <2>3 DEF Stat
<1>6. ASSUME NEW t \in Threads, Release(t) PROVE LockHeld'
  BY <1>6 DEF Release
<1>7. ASSUME NEW t \in Threads, WrLock(t) PROVE LockHeld'
  BY <1>7 DEF WrLock
<1>8. ASSUME NEW t \in Threads, Load(t) PROVE LockHeld'
  <2>1. CASE BringsDown
    BY <1>4, <2>1
  <2>2. CASE pc[t] = "load" /\ UNCHANGED holds
             /\ (Goto(t, "lookup") \/ Goto(t, "leave"))
    BY <2>2
  <2> QED
    BY <1>8, <2>1, <2>2
       DEF Load, LoadHash, LoadPatterns, Loaded, OpenFailed, ParseFailed
<1>9. ASSUME NEW t \in Threads, Lookup(t) PROVE LockHeld'
  BY <1>4, <1>9 DEF Lookup
<1>10. ASSUME NEW t \in Threads, Leave(t) PROVE LockHeld'
  BY <1>10 DEF Leave
<1>11. CASE Change \/ Vanish \/ Tick
  BY <1>11 DEF Change, Vanish, Tick, local
<1>12. CASE UNCHANGED vars
  BY <1>12 DEF vars, local
<1> QED
  BY <1>2, <1>3, <1>5, <1>6, <1>7, <1>8, <1>9, <1>10, <1>11, <1>12
     DEF Next, Check, Down

(* The types of the dict, of the file and of the threads.                  *)
THEOREM TypeSafety == Spec => []TypeOK
<1>1. LockInv => TypeOK
  BY DEF LockInv
<1> QED
  BY <1>1, LockInit, LockNext, PTL DEF Spec
-----------------------------------------------------------------------------
THEOREM SafeInit == Init => SafeInv
BY LockInit DEF Init, SafeInv, Decided, ReloadOnce

(* A step that takes a thread to "stat", to "lookup" or to "load" takes it *)
(* there with what Decided and ReloadOnce ask for; in the steps of the     *)
(* other threads neither the dict nor what it has noted changes.           *)
LEMMA DecidedNext == SafeInv /\ [Next]_vars => Decided' /\ ReloadOnce'
<1> SUFFICES ASSUME SafeInv, [Next]_vars PROVE Decided' /\ ReloadOnce'
  OBVIOUS
<1>1. TypeOK /\ LockHeld /\ Decided /\ ReloadOnce
  BY DEF SafeInv, LockInv
<1> USE <1>1 DEF Goto
<1> DEFINE Same == UNCHANGED <<kind, handle, ready, mtime, failed>>
           Quiet(t) == UNCHANGED <<loaddb, st>>
                       /\ \/ Goto(t, "leave") \/ Goto(t, "idle")
                          \/ Goto(t, "again") \/ UNCHANGED pc
<1>2. ASSUME Same, NEW t \in Threads, Quiet(t)
      PROVE  Decided' /\ ReloadOnce'
  BY <1>2 DEF Decided, ReloadOnce, TypeOK
<1>3. ASSUME NEW t \in Threads, Enter(t) PROVE Decided' /\ ReloadOnce'
  BY <1>3, <1>2 DEF Enter, dict
<1>4. ASSUME NEW t \in Threads, Again(t) PROVE Decided' /\ ReloadOnce'
  <2>1. PICK omit \in Omits :
          /\ loaddb' = [loaddb EXCEPT ![t] = MustLoad(t, omit)]
          /\ IF MustLoad(t, omit) \/ LooksAtFile(t)
             THEN Goto(t, "stat") ELSE Goto(t, "lookup")
    BY <1>4 DEF Again
  <2>2. Same /\ UNCHANGED st
    BY <1>4 DEF Again, dict
  <2>3. ~MustLoad(t, omit) => ready \/ failed
    BY DEF MustLoad, Omits, TypeOK
  <2>4. MustLoad(t, omit) /\ kind = "hash" => ~(handle /\ ready)
    BY DEF MustLoad
  <2>5. /\ loaddb'[t] = MustLoad(t, omit) /\ pc'[t] \in {"stat", "lookup"}
        /\ pc'[t] = "lookup" => ~MustLoad(t, omit)
    BY <2>1 DEF TypeOK
  <2>6. \A u \in Threads \ {t} : loaddb'[u] = loaddb[u] /\ pc'[u] = pc[u]
    BY <2>1 DEF TypeOK
  <2> QED
    BY <2>2, <2>3, <2>4, <2>5, <2>6 DEF Decided, ReloadOnce
<1>5. ASSUME BringsDown PROVE Decided' /\ ReloadOnce'
  BY <1>5 DEF BringsDown, dict, local, Decided, ReloadOnce
<1>6. ASSUME NEW t \in Threads, Stat(t) PROVE Decided' /\ ReloadOnce'
  <2>1. CASE BringsDown
    BY <1>5, <2>1
  <2>2. CASE StatFound(t) /\ Same
    <3>1. /\ pc[t] = "stat" /\ st'[t] = file.mtime
          /\ pc'[t] = AfterStat(t, loaddb[t] \/ mtime # file.mtime)
      BY <1>6, <2>2 DEF Stat, StatFound, TypeOK
    <3>2. \A u \in Threads \ {t} :
            loaddb'[u] = loaddb[u] /\ pc'[u] = pc[u] /\ st'[u] = st[u]
      BY <2>2 DEF StatFound, TypeOK
    <3>3. pc'[t] # "stat"
      BY <3>1 DEF AfterStat
    <3>4. pc'[t] = "lookup" => ready \/ failed
      BY <3>1 DEF AfterStat, Decided
    <3>5. pc'[t] = "load" /\ kind = "hash" =>
            ~(handle /\ ready) \/ mtime # st'[t]
      BY <3>1 DEF AfterStat, Decided
    <3> QED
      BY <2>2, <3>2, <3>3, <3>4, <3>5 DEF Decided, ReloadOnce
  <2>3. CASE StatFailed(t) /\ Same
    BY <1>2, <2>3 DEF StatFailed
  <2> QED
    BY <1>6, <2>1, <2>2, <2>3 DEF Stat
<1>7. ASSUME NEW t \in Threads, Release(t) PROVE Decided' /\ ReloadOnce'
  BY <1>7, <1>2 DEF Release, dict
<1>8. ASSUME NEW t \in Threads, WrLock(t) PROVE Decided' /\ ReloadOnce'
  BY <1>8, <1>2 DEF WrLock, dict
<1>9. ASSUME NEW t \in Threads, Load(t) PROVE Decided' /\ ReloadOnce'
  <2>1. CASE BringsDown
    BY <1>5, <2>1
  <2>2. CASE /\ (Goto(t, "lookup") /\ ready') \/ Goto(t, "leave")
             /\ UNCHANGED <<kind, loaddb, st>>
    <3>1. \A u \in Threads \ {t} : pc'[u] \notin {"stat", "lookup", "load"}
      BY <1>9, <2>2, AloneAtLoad DEF Load, TypeOK
    <3>2. pc'[t] = "leave" \/ (pc'[t] = "lookup" /\ ready')
      BY <2>2 DEF TypeOK
    <3> QED
      BY <3>1, <3>2 DEF Decided, ReloadOnce
  <2> QED
    BY <1>9, <2>1, <2>2
       DEF Load, LoadHash, LoadPatterns, Loaded, OpenFailed, ParseFailed
<1>10. ASSUME NEW t \in Threads, Lookup(t) PROVE Decided' /\ ReloadOnce'
  BY <1>10, <1>5, <1>2 DEF Lookup, dict
<1>11. ASSUME NEW t \in Threads, Leave(t) PROVE Decided' /\ ReloadOnce'
  BY <1>11 DEF Leave, dict, Decided, ReloadOnce, TypeOK
<1>12. CASE Change \/ Vanish \/ Tick
  BY <1>12 DEF Change, Vanish, Tick, dict, local, Decided, ReloadOnce
<1>13. CASE UNCHANGED vars
  BY <1>13 DEF vars, dict, local, Decided, ReloadOnce
<1> QED
  BY <1>3, <1>4, <1>6, <1>7, <1>8, <1>9, <1>10, <1>11, <1>12, <1>13
     DEF Next, Check, Down

LEMMA SafeNext == SafeInv /\ [Next]_vars => SafeInv'
BY LockNext, DecidedNext DEF SafeInv

(* LookupSafe of FileDict: a lookup under the read lock meets no load.     *)
THEOREM LookupSafety == Spec => []LookupSafe
<1>1. SafeInv => LookupSafe
  BY AloneAtLoad DEF SafeInv, LockInv, Decided, LookupSafe
<1> QED
  BY <1>1, SafeInit, SafeNext, PTL DEF Spec

(* ReloadOnce of FileDict: the hash dict decides again under the write     *)
(* lock, and closes no database that another thread has just opened.       *)
THEOREM ReloadSafety == Spec => []ReloadOnce
<1>1. SafeInv => ReloadOnce
  BY DEF SafeInv
<1> QED
  BY <1>1, SafeInit, SafeNext, PTL DEF Spec
-----------------------------------------------------------------------------
THEOREM FreshInit == Init => FreshInv
<1> SUFFICES ASSUME Init PROVE FreshInv
  OBVIOUS
<1>1. InTime
  BY FileDictAssumption DEF Init, InTime
<1>2. Watched /\ Fresh
  BY DEF Init, Watched, Fresh, Outdated
<1> QED
  BY <1>1, <1>2, LockInit DEF FreshInv

(* Nobody reads a time that has not come.                                  *)
LEMMA InTimeNext == TypeOK /\ InTime /\ [Next]_vars => InTime'
<1> SUFFICES ASSUME TypeOK, InTime, [Next]_vars PROVE InTime'
  OBVIOUS
<1>1. /\ clock \in Nat /\ clock' \in Nat /\ clock <= clock'
      /\ atime \in Nat /\ file.changed \in Nat /\ now \in [Threads -> Nat]
  <2>1. clock' = clock \/ clock' = clock + 1
    BY DEF Next, vars, Check, Enter, Again, Stat, Release, WrLock, Load,
           LoadHash, LoadPatterns, Lookup, Leave, Change, Vanish, Tick, Down,
           BringsDown
  <2> QED
    BY <2>1 DEF TypeOK
<1>2. atime' \in {atime, clock, 0}
  BY DEF Next, vars, Check, Enter, Again, Stat, Release, WrLock, Load,
         LoadHash, LoadPatterns, Loaded, OpenFailed, ParseFailed, Lookup,
         Leave, Change, Vanish, Tick, Down, BringsDown, dict
<1>3. file'.changed \in {file.changed, clock}
  BY DEF Next, vars, Check, Enter, Again, Stat, Release, WrLock, Load,
         LoadHash, LoadPatterns, Lookup, Leave, Change, Vanish, Tick, Down,
         BringsDown, TypeOK
<1>4. \A u \in Threads : now'[u] \in {now[u], clock, 0}
  BY <1>1 DEF Next, vars, Check, Enter, Again, Stat, Release, WrLock, Load,
         LoadHash, LoadPatterns, Lookup, Leave, Change, Vanish, Tick, Down,
         BringsDown, local
<1> QED
  BY <1>1, <1>2, <1>3, <1>4 DEF InTime

(* A step that touches neither the file nor what was read of it, that      *)
(* takes nobody off the way and brings nobody to a lookup.                 *)
LEMMA Undisturbed ==
  ASSUME Watched, Fresh,
         UNCHANGED <<kind, file, ready, atime, mtime, loaded>>,
         kind = "pcre" => \A u \in Threads : OnTheWay(u) => OnTheWay(u)',
         \A u \in Threads :
           pc'[u] = "lookup" => pc[u] = "lookup" /\ now'[u] = now[u]
  PROVE  Watched' /\ Fresh'
BY DEF Watched, Fresh, Outdated, LooksAtFile

(* Nothing is outdated when the file is gone, when it has just been read,  *)
(* or when nothing is ready.                                               *)
LEMMA NotOutdated == ~Outdated' => Watched' /\ Fresh'
BY DEF Watched, Fresh

LEMMA WatchedNext ==
  LockInv /\ InTime /\ Watched /\ Fresh /\ [Next]_vars => Watched' /\ Fresh'
<1> SUFFICES ASSUME LockInv, InTime, Watched, Fresh, [Next]_vars
             PROVE  Watched' /\ Fresh'
  OBVIOUS
<1>1. TypeOK
  BY DEF LockInv
<1> USE <1>1 DEF TypeOK, Goto
<1>2. ASSUME NEW t \in Threads, Enter(t) PROVE Watched' /\ Fresh'
  BY <1>2, Undisturbed DEF Enter, OnTheWay, dict
<1>3. ASSUME NEW t \in Threads, Again(t) PROVE Watched' /\ Fresh'
  <2>1. PICK omit \in Omits :
          /\ loaddb' = [loaddb EXCEPT ![t] = MustLoad(t, omit)]
          /\ IF MustLoad(t, omit) \/ LooksAtFile(t)
             THEN Goto(t, "stat") ELSE Goto(t, "lookup")
    BY <1>3 DEF Again
  <2>2. UNCHANGED <<kind, clock, file, ready, atime, mtime, loaded, now>>
    BY <1>3 DEF Again, dict
  <2>3. \A u \in Threads \ {t} : loaddb'[u] = loaddb[u] /\ pc'[u] = pc[u]
    BY <2>1
  <2>4. /\ loaddb'[t] = MustLoad(t, omit)
        /\ MustLoad(t, omit) => pc'[t] = "stat"
        /\ pc'[t] = "lookup" => ~MustLoad(t, omit) /\ ~LooksAtFile(t)
    BY <2>1
  <2>5. kind = "pcre" => \A u \in Threads : OnTheWay(u) => OnTheWay(u)'
    BY <2>3, <2>4 DEF OnTheWay, MustLoad
  <2>6. CASE pc'[t] # "lookup"
    BY <2>2, <2>3, <2>5, <2>6, Undisturbed
  <2>7. CASE pc'[t] = "lookup"
    <3>1. Watched'
      BY <2>2, <2>5 DEF Watched, Outdated
    <3>2. kind = "hash" => ~LooksAtFile(t)'
      BY <2>2, <2>4, <2>7 DEF LooksAtFile
    <3>3. kind = "pcre" /\ file.changed >= atime => file.changed + Diff >= now[t]
      BY <2>4, <2>7, FileDictAssumption DEF LooksAtFile
    <3>4. Outdated' => Outdated
      BY <2>2 DEF Outdated
    <3>5. kind = "pcre" /\ Outdated' =>
            file'.changed + Diff >= now'[t] \/ \E u \in Threads : OnTheWay(u)'
      BY <2>2, <2>5, <3>3, <3>4 DEF Watched
    <3> QED
      BY <2>2, <2>3, <2>5, <3>1, <3>2, <3>4, <3>5 DEF Fresh, LooksAtFile
  <2> QED
    BY <2>6, <2>7
<1>4. ASSUME BringsDown PROVE Watched' /\ Fresh'
  BY <1>4, Undisturbed DEF BringsDown, dict, local, OnTheWay
<1>5. ASSUME NEW t \in Threads, Stat(t) PROVE Watched' /\ Fresh'
  <2>1. CASE BringsDown
    BY <1>4, <2>1
  <2>2. CASE StatFailed(t) /\ UNCHANGED file
    BY <2>2, NotOutdated DEF StatFailed, Outdated
  <2>3. CASE StatFound(t) /\ UNCHANGED <<kind, file, ready, mtime, loaded, now>>
             /\ (kind = "hash" => UNCHANGED atime)
    <3>1. CASE mtime = file.mtime
      BY <2>3, <3>1, NotOutdated DEF Outdated
    <3>2. CASE mtime # file.mtime
      <4>1. loaddb'[t] /\ pc'[t] \in {"load", "upgrade"}
        BY <2>3, <3>2 DEF StatFound, AfterStat
      <4>2. OnTheWay(t)'
        BY <4>1 DEF OnTheWay
      <4>3. \A u \in Threads : pc'[u] = "lookup" => pc[u] = "lookup"
        BY <2>3, <4>1 DEF StatFound
      <4> QED
        BY <2>3, <4>2, <4>3 DEF Watched, Fresh, Outdated, LooksAtFile
    <3> QED
      BY <3>1, <3>2
  <2> QED
    BY <1>5, <2>1, <2>2, <2>3 DEF Stat
<1>6. ASSUME NEW t \in Threads, Release(t) PROVE Watched' /\ Fresh'
  BY <1>6, Undisturbed DEF Release, dict, OnTheWay
<1>7. ASSUME NEW t \in Threads, WrLock(t) PROVE Watched' /\ Fresh'
  BY <1>7, Undisturbed DEF WrLock, dict, OnTheWay
<1>8. ASSUME NEW t \in Threads, Load(t) PROVE Watched' /\ Fresh'
  <2>1. CASE BringsDown
    BY <1>4, <2>1
  <2>2. CASE ready' = FALSE \/ (loaded' = file.contents /\ UNCHANGED file)
    BY <2>2, NotOutdated DEF Outdated
  <2> QED
    BY <1>8, <2>1, <2>2
       DEF Load, LoadHash, LoadPatterns, Loaded, OpenFailed, ParseFailed
<1>9. ASSUME NEW t \in Threads, Lookup(t) PROVE Watched' /\ Fresh'
  <2>1. CASE BringsDown
    BY <1>4, <2>1
  <2>2. CASE Goto(t, "leave")
             /\ UNCHANGED <<kind, clock, file, dict, holds, now, loaddb, st, alive>>
    BY <1>9, <2>2, Undisturbed DEF Lookup, dict, OnTheWay
  <2> QED
    BY <1>9, <2>1, <2>2 DEF Lookup
<1>10. ASSUME NEW t \in Threads, Leave(t) PROVE Watched' /\ Fresh'
  BY <1>10, Undisturbed DEF Leave, dict, OnTheWay
<1>11. CASE Change
  <2>1. file'.changed = clock
    BY <1>11 DEF Change
  <2>2. UNCHANGED <<kind, atime, pc, now>>
    BY <1>11 DEF Change, dict, local
  <2> QED
    BY <2>1, <2>2, FileDictAssumption DEF InTime, Watched, Fresh
<1>12. CASE Vanish
  BY <1>12, NotOutdated DEF Vanish, Outdated
<1>13. CASE Tick
  BY <1>13, Undisturbed DEF Tick, dict, local, OnTheWay
<1>14. CASE UNCHANGED vars
  BY <1>14, Undisturbed DEF vars, dict, local, OnTheWay
<1> QED
  BY <1>2, <1>3, <1>5, <1>6, <1>7, <1>8, <1>9, <1>10, <1>11, <1>12, <1>13,
     <1>14 DEF Next, Check, Down

(* Fresh of FileDict: patterns that are too old are in use only while a    *)
(* thread is about to read the new ones.                                   *)
THEOREM FreshSafety == Spec => []Fresh
<1>1. FreshInv /\ [Next]_vars => FreshInv'
  BY LockNext, InTimeNext, WatchedNext DEF FreshInv, LockInv
<1>2. FreshInv => Fresh
  BY DEF FreshInv
<1> QED
  BY <1>1, <1>2, FreshInit, PTL DEF Spec
=============================================================================
