----------------------------- MODULE FileDict -----------------------------
(***************************************************************************)
(* The two dicts that keep what they read from a file in memory and read   *)
(* the file again when it has changed: a Berkeley DB (src/dict_hash.c) and *)
(* a list of patterns (src/dict_pcre.c).  Workers look things up under a   *)
(* read lock; the one that finds that the file must be read lets go of it, *)
(* asks for the write lock, and starts over.  The two differ in small      *)
(* things that matter, so the module has one specification for both, and   *)
(* which of them it is (kind) is chosen at the start.                      *)
(*                                                                         *)
(* The contents of the file are numbered.  Reading them is one step.       *)
(* A definition whose name ends in _Bug is the one that follows it with a  *)
(* slip in it; no specification uses it.                                   *)
(***************************************************************************)
EXTENDS Integers

CONSTANTS Threads,
          Diff,             \* VT_DICT_HASH_TIME_DIFF, VT_DICT_PCRE_TIME_DIFF
          LastSecond,       \* bound: the clock stops there
          MaxChanges        \* bound on the changes of the file

ASSUME FileDictAssumption ==
  Diff \in Nat /\ LastSecond \in Nat /\ MaxChanges \in Nat

VARIABLES
  kind,                     \* which of the two dicts this is
  clock,                    \* what time(NULL) returns
  file,                     \* the file on disk
  handle,                   \* data->db or data->regexes is not NULL
  ready, atime, mtime,
  loaded,                   \* the contents that were last read
  failed,                   \* vt_state_error has been called
  holds,                    \* what each thread holds of data->lock
  pc, now, loaddb,          \* where each thread is, and its variables
  st,                       \* st_buf.st_mtime of each thread
  alive                     \* the process has not been brought down

dict == <<handle, ready, atime, mtime, loaded, failed>>
local == <<holds, pc, now, loaddb, st>>
vars == <<kind, clock, file, dict, local, alive>>

Places == {"idle", "again", "stat", "upgrade", "load", "lookup", "leave"}

Init ==
  /\ kind \in {"hash", "pcre"}
  /\ clock = Diff + 1                      \* 0 is long ago
  /\ file = [there |-> TRUE, contents |-> 0, patterns |-> TRUE,
             mtime |-> 1, changed |-> 1]
  /\ handle = FALSE /\ ready = FALSE /\ atime = 0 /\ mtime = 0
  /\ loaded = 0 /\ failed = FALSE
  /\ holds = [t \in Threads |-> "none"]
  /\ pc = [t \in Threads |-> "idle"]
  /\ now = [t \in Threads |-> 0]
  /\ loaddb = [t \in Threads |-> FALSE]
  /\ st = [t \in Threads |-> 0]
  /\ alive = TRUE

Goto(t, place) == pc' = [pc EXCEPT ![t] = place]

(* A crash, or vt_panic.                                                   *)
BringsDown ==
  alive' = FALSE /\ UNCHANGED <<kind, clock, file, dict, local>>
-----------------------------------------------------------------------------
(* The check takes the read lock; a request without the member needs no    *)
(* lookup.  wrlock is what the thread holds of the lock.                   *)
Enter(t) ==
  /\ pc[t] = "idle" /\ \A u \in Threads : holds[u] # "write"
  /\ holds' = [holds EXCEPT ![t] = "read"]
  /\ now' = [now EXCEPT ![t] = clock]
  /\ Goto(t, "again") \/ Goto(t, "leave")
  /\ UNCHANGED <<kind, clock, file, dict, loaddb, st, alive>>

(* What vt_state_omit may answer: yes after an error, when the clock has   *)
(* been set back (see NeverAhead in BackOff).                              *)
Omits == {FALSE, failed}

(* loaddb is not computed anew in the second round.                        *)
MustLoad_Bug(t, omit) == (~(handle /\ ready) /\ ~omit) \/ loaddb[t]

MustLoad(t, omit) ==
  \/ ~(handle /\ ready) /\ ~omit
  \/ kind = "pcre" /\ loaddb[t]            \* kept from the first round

(* The age of what is in memory: the two dicts disagree on its sense.      *)
LooksAtFile(t) ==
  IF kind = "hash" THEN atime + Diff > now[t] ELSE now[t] > atime + Diff

Again(t) ==
  /\ pc[t] = "again"
  /\ \E omit \in Omits :
       /\ loaddb' = [loaddb EXCEPT ![t] = MustLoad(t, omit)]
       /\ IF MustLoad(t, omit) \/ LooksAtFile(t)
          THEN Goto(t, "stat") ELSE Goto(t, "lookup")
  /\ UNCHANGED <<kind, clock, file, dict, holds, now, st, alive>>

AfterStat(t, load) ==
  IF ~load THEN "lookup"
  ELSE IF holds[t] = "write" THEN "load" ELSE "upgrade"

(* The time of the last change is not compared.                            *)
StatFound_Bug(t) ==
  /\ file.there
  /\ st' = [st EXCEPT ![t] = file.mtime]
  /\ Goto(t, AfterStat(t, loaddb[t]))
  /\ UNCHANGED loaddb

StatFound(t) ==
  /\ file.there
  /\ st' = [st EXCEPT ![t] = file.mtime]
  /\ loaddb' = [loaddb EXCEPT ![t] = @ \/ mtime # file.mtime]
  /\ Goto(t, AfterStat(t, loaddb[t] \/ mtime # file.mtime))

StatFailed(t) ==
  /\ ~file.there
  /\ Goto(t, "leave")
  /\ UNCHANGED <<st, loaddb>>

(* The pattern dict writes atime under whatever lock it has; an aligned    *)
(* time_t is written at once.                                              *)
Stat(t) ==
  /\ pc[t] = "stat"
  /\ \/ /\ StatFound(t) \/ StatFailed(t)
        /\ atime' = IF kind = "pcre" THEN clock ELSE atime
        /\ UNCHANGED <<kind, clock, file, handle, ready, mtime, loaded,
                       failed, holds, now, alive>>
     \/ BringsDown                         \* an error it has no case for

Release(t) ==
  /\ pc[t] = "upgrade" /\ holds[t] = "read"
  /\ holds' = [holds EXCEPT ![t] = "none"]
  /\ UNCHANGED <<kind, clock, file, dict, pc, now, loaddb, st, alive>>

(* The write lock is taken with other readers inside.                      *)
WrLock_Bug(t) ==
  /\ pc[t] = "upgrade" /\ holds[t] = "none"
  /\ \A u \in Threads : holds[u] # "write"
  /\ holds' = [holds EXCEPT ![t] = "write"]
  /\ Goto(t, "again")
  /\ UNCHANGED <<kind, clock, file, dict, now, loaddb, st, alive>>

WrLock(t) ==
  /\ pc[t] = "upgrade" /\ holds[t] = "none"
  /\ \A u \in Threads : holds[u] = "none"
  /\ holds' = [holds EXCEPT ![t] = "write"]
  /\ Goto(t, "again")
  /\ UNCHANGED <<kind, clock, file, dict, now, loaddb, st, alive>>
-----------------------------------------------------------------------------
Loaded(t) ==
  /\ ready' = TRUE /\ atime' = clock /\ mtime' = st[t]
  /\ loaded' = file.contents
  /\ UNCHANGED failed
  /\ Goto(t, "lookup")

(* db_create has no memory, or DB->open finds no database of its own       *)
(* version: the times stay as they are.                                    *)
OpenFailed(t) ==
  /\ ready' = FALSE
  /\ \/ handle' = FALSE /\ UNCHANGED failed
     \/ handle' = TRUE /\ failed' = TRUE
  /\ UNCHANGED <<atime, mtime, loaded>>
  /\ Goto(t, "leave")

(* A database that is open is closed through a variable that has not been  *)
(* set: it may hold the old handle, or anything.                           *)
LoadHash(t) ==
  \/ /\ \/ file.there /\ handle' = TRUE /\ Loaded(t)
        \/ OpenFailed(t)
     /\ UNCHANGED <<kind, clock, file, holds, now, loaddb, st, alive>>
  \/ BringsDown

ParseFailed(t) ==
  /\ handle' = FALSE /\ ready' = FALSE /\ atime' = 0 /\ mtime' = 0
  /\ failed' = TRUE
  /\ UNCHANGED loaded
  /\ Goto(t, "leave")

(* fopen's NULL is not below 0: a file that has gone since stat is read    *)
(* through a null pointer.                                                 *)
LoadPatterns(t) ==
  \/ /\ file.there
     /\ \/ handle' = file.patterns /\ Loaded(t)
        \/ ParseFailed(t)
     /\ UNCHANGED <<kind, clock, file, holds, now, loaddb, st, alive>>
  \/ ~file.there /\ BringsDown

Load(t) ==
  /\ pc[t] = "load"
  /\ \/ kind = "hash" /\ LoadHash(t)
     \/ kind = "pcre" /\ LoadPatterns(t)

(* DB->get on no handle, or on one that has not been opened, ends the      *)
(* process, and so does an error of DB->get or pcre_exec without a case.   *)
Lookup(t) ==
  /\ pc[t] = "lookup"
  /\ \/ /\ kind = "pcre" \/ (handle /\ ready)
        /\ Goto(t, "leave")
        /\ UNCHANGED <<kind, clock, file, dict, holds, now, loaddb, st, alive>>
     \/ BringsDown

Leave(t) ==
  /\ pc[t] = "leave"
  /\ holds' = [holds EXCEPT ![t] = "none"]
  /\ now' = [now EXCEPT ![t] = 0]           \* the variables die
  /\ loaddb' = [loaddb EXCEPT ![t] = FALSE]
  /\ st' = [st EXCEPT ![t] = 0]
  /\ Goto(t, "idle")
  /\ UNCHANGED <<kind, clock, file, dict, alive>>
-----------------------------------------------------------------------------
(* Somebody puts a file in place, maybe an older one, maybe one without a  *)
(* single pattern.                                                         *)
Change ==
  /\ file.contents < MaxChanges
  /\ \E m \in {1, clock}, p \in BOOLEAN :
       file' = [there |-> TRUE, contents |-> file.contents + 1,
                patterns |-> p, mtime |-> m, changed |-> clock]
  /\ UNCHANGED <<kind, clock, dict, local, alive>>

Vanish ==
  /\ file.there
  /\ file' = [file EXCEPT !.there = FALSE]
  /\ UNCHANGED <<kind, clock, dict, local, alive>>

Tick ==
  /\ clock < LastSecond
  /\ clock' = clock + 1
  /\ UNCHANGED <<kind, file, dict, local, alive>>

Check(t) ==
  \/ Enter(t) \/ Again(t) \/ Stat(t) \/ Release(t) \/ WrLock(t) \/ Load(t)
  \/ Lookup(t) \/ Leave(t)

Down == ~alive /\ UNCHANGED vars

Next ==
  \/ alive /\ \E t \in Threads : Check(t)
  \/ alive /\ (Change \/ Vanish \/ Tick)
  \/ Down

Spec == Init /\ [][Next]_vars
-----------------------------------------------------------------------------
TypeOK ==
  /\ kind \in {"hash", "pcre"}
  /\ clock \in Nat /\ atime \in Nat /\ mtime \in Nat /\ loaded \in Nat
  /\ file \in [there : BOOLEAN, contents : Nat, patterns : BOOLEAN,
               mtime : Nat, changed : Nat]
  /\ handle \in BOOLEAN /\ ready \in BOOLEAN /\ failed \in BOOLEAN
  /\ holds \in [Threads -> {"none", "read", "write"}]
  /\ pc \in [Threads -> Places]
  /\ now \in [Threads -> Nat] /\ st \in [Threads -> Nat]
  /\ loaddb \in [Threads -> BOOLEAN]
  /\ alive \in BOOLEAN

(* A thread that looks something up finds a database or a list that has    *)
(* been read to the end and that nobody is taking apart; the exception is  *)
(* a dict that has failed to load, of which the back-off may say that it   *)
(* is to be left alone (dict_hash.c:166, dict_pcre.c:651).                 *)
LookupSafe ==
  \A t \in Threads : pc[t] = "lookup" =>
    /\ ready \/ failed
    /\ \A u \in Threads : pc[u] # "load"

(* Of several readers that found the database missing or old and queued up *)
(* for the write lock only the first one reads it: when the lock is        *)
(* granted, the others look at it again (dict_hash.c:165-200).             *)
ReloadOnce ==
  \A t \in Threads : pc[t] = "load" /\ kind = "hash" =>
    ~(handle /\ ready) \/ mtime # st[t]

(* What is in memory is not what is on disk, and the file's time shows it. *)
Outdated == ready /\ file.there /\ loaded # file.contents /\ mtime # file.mtime

(* A thread has seen that the file must be read, and has yet to do it.     *)
OnTheWay(u) == pc[u] \in {"again", "stat", "upgrade", "load"} /\ loaddb[u]

(* No lookup uses patterns that were replaced on disk more than Diff       *)
(* seconds before it started, unless a thread is about to read the new     *)
(* ones; a database is watched like this only as long as it is young, and  *)
(* then every lookup sees what was there when it started.                  *)
Fresh ==
  \A t \in Threads : pc[t] = "lookup" /\ Outdated =>
    IF kind = "pcre"
    THEN file.changed + Diff >= now[t] \/ \E u \in Threads : OnTheWay(u)
    ELSE LooksAtFile(t) => file.changed >= now[t]
=============================================================================
