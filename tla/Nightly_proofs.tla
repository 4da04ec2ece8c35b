--------------------------- MODULE Nightly_proofs ---------------------------
(***************************************************************************)
(* Proofs about Upgrade and Nightly, for any number of masters, nights and *)
(* requests.                                                               *)
(***************************************************************************)
EXTENDS Nightly, Induction

(* A restart, by its stages.  A number that no master has left nothing.    *)
Absent(m) == state[m] = "none" /\ parent[m] = 0 /\ signals[m] = {}

\* No master is left: a new binary failed, and no other was there.
Nobody == (\A m \in Masters : Absent(m)) /\ pid = 0 /\ oldbin = 0 /\ failed

\* One master.  It is only told to quit if its new binary has failed.
One(m) ==
  /\ \A x \in Masters \ {m} : Absent(x)
  /\ parent[m] = 0 /\ oldbin = 0
  /\ \/ state[m] \in {"starting", "loaded"} /\ pid = 0 /\ signals[m] = {}
     \/ state[m] = "running" /\ pid = m /\ ("QUIT" \in signals[m] => failed)
     \/ state[m] = "quitting" /\ pid = m /\ failed

\* The old master and the new one.
Two(o, c) ==
  /\ o # c /\ \A x \in Masters \ {o, c} : Absent(x)
  /\ parent[o] = 0 /\ parent[c] = o /\ oldbin = o
  /\ state[o] \in {"running", "quitting"} /\ (state[o] = "running" => "USR2" \notin signals[o])
  /\ \/ state[c] \in {"starting", "loaded"} /\ pid = 0 /\ signals[c] = {}
     \/ state[c] = "dead" /\ pid = 0 /\ signals[c] = {} /\ failed
     \/ state[c] = "running" /\ pid = c /\ {"USR2", "QUIT"} \cap signals[c] = {}

States  == {"none", "starting", "loaded", "running", "quitting", "dead"}
Signals == {"USR1", "USR2", "QUIT"}

UpgradeType ==
  /\ state \in [Masters -> States] /\ parent \in [Masters -> {0} \cup Masters]
  /\ signals \in [Masters -> SUBSET Signals] /\ {pid, oldbin} \subseteq {0} \cup Masters
  /\ script \in {"idle", "quit"} /\ failed \in BOOLEAN

Stages == Nobody \/ (\E m \in Masters : One(m)) \/ (\E o, c \in Masters : Two(o, c))

UpgradeInv == UpgradeType /\ Stages

(* The log files.  Their number is the night that will move them, and what *)
(* is counted in a night is what was written to that night's file.         *)
FilesType ==
  /\ day \in Nat /\ error_log \in {0, day + 1} /\ dated \in {0, day}
  /\ hour \in {"day", "moved", "signalled", "counted"} /\ (hour # "day" => day > 0)
  /\ reply_log \in {"error.log", "err_info.log"}
  /\ fd \in [Masters -> Nat]
  /\ written \in Seq([file : Nat, fresh : BOOLEAN, at : Nat])

Open == {"loaded", "running", "quitting"}   \* the states in which a master has its files open

CountedInv ==
  /\ \A c \in counted : c = <<c[1], c[2]>> /\ c[1] \in DOMAIN written /\ written[c[1]].file = c[2]
  /\ reply_log = "err_info.log" => counted = {} /\ \A i \in DOMAIN written : written[i].file = 0
  /\ hour \in {"counted", "day"} =>
       \A i \in DOMAIN written :
         written[i].fresh /\ written[i].file # 0 /\ written[i].file = dated => <<i, day>> \in counted

FilesInv == FilesType /\ CountedInv /\ \A m \in Masters : state[m] \in Open => fd[m] # 0

(* Who has a moved file open will be told, if nothing came between; what   *)
(* tells it is not lost in a QUIT.                                         *)
ToldLater(m) ==
  state[m] \in Open /\ fd[m] # error_log =>
    disturbed \/ hour = "moved" \/ "USR1" \in signals[m] \/ m \in reopening

NoQuit(m) ==
  ~disturbed /\ hour # "moved" /\ "USR1" \in signals[m] =>
    oldbin = 0 /\ "QUIT" \notin signals[m] /\ state[m] = "running"

ReopenInv == disturbed \in BOOLEAN /\ \A m \in Masters : ToldLater(m) /\ NoQuit(m)

(* The images: the directory is as young as the youngest of them.          *)
ImagesInv ==
  /\ dir \in BOOLEAN /\ dirtime \in Nat /\ temps \subseteq DOMAIN written
  /\ \A i \in DOMAIN written : written[i].at <= passes /\ (dir => written[i].at <= dirtime)
  /\ ImagesKept

IInv == UpgradeInv /\ FilesInv /\ ReopenInv /\ ImagesInv

-----------------------------------------------------------------------------
(* Restarts                                                                *)

USE MaxMastersAssumption

LEMMA MastersType == Masters \subseteq Nat \ {0} /\ 1 \in Masters /\ 0 \notin Masters
BY DEF Masters

\* The number that a new master gets.
LEMMA FreshMaster ==
  ASSUME Fresh # {}
  PROVE  Min(Fresh) \in Masters /\ state[Min(Fresh)] = "none"
<1>1. Fresh \in SUBSET Nat
  BY MastersType DEF Fresh
<1>2. Min(Fresh) \in Fresh
  BY <1>1, Minimum DEF Min
<1> QED
  BY <1>2 DEF Fresh

\* Before anything else, the first master.
LEMMA UpgradeInitInv == UpgradeInit => UpgradeInv
<1> SUFFICES ASSUME UpgradeInit PROVE UpgradeInv
  OBVIOUS
<1>1. UpgradeType
  BY MastersType DEF UpgradeInit, UpgradeType, States
<1>2. One(1)
  BY MastersType DEF UpgradeInit, One, Absent
<1> QED
  BY <1>1, <1>2, MastersType DEF UpgradeInv, Stages

LEMMA WakeStep == ASSUME UpgradeInv, NEW m \in Masters, Wake(m) PROVE UpgradeInv'
<1> USE MastersType DEF UpgradeInv, Wake, Executes
<1>1. CASE Executes(m)
  <2>1. PICK c \in Masters :
          /\ state[c] = "none" /\ c # m
          /\ state' = [state EXCEPT ![c] = "starting"] /\ parent' = [parent EXCEPT ![c] = m]
    BY <1>1, FreshMaster
  <2>2. /\ signals' = [signals EXCEPT ![m] = {}] /\ oldbin' = pid /\ pid' = 0
        /\ state[m] = "running" /\ "QUIT" \notin signals[m]
        /\ UNCHANGED <<script, failed>>
    BY <1>1
  <2> HIDE DEF Wake
  <2>3. One(m)
    <3>1. ~Nobody
      BY <1>1 DEF Nobody
    <3>2. ASSUME NEW x \in Masters, One(x) PROVE x = m
      BY <1>1, <3>2 DEF One, Absent
    <3>3. ASSUME NEW o \in Masters, NEW d \in Masters, Two(o, d) PROVE FALSE
      BY <1>1, <3>3 DEF Two, Absent, Wake
    <3> QED
      BY <3>1, <3>2, <3>3 DEF Stages
  <2>4. UpgradeType'
    BY <2>1, <2>2 DEF UpgradeType, States
  <2>5. Two(m, c)'
    BY <2>1, <2>2, <2>3 DEF One, Two, Absent, UpgradeType
  <2> QED
    BY <2>1, <2>4, <2>5 DEF Stages
<1>2. CASE ~Executes(m)
  <2>1. /\ state' = IF "QUIT" \in signals[m] THEN [state EXCEPT ![m] = "quitting"] ELSE state
        /\ signals' = [signals EXCEPT ![m] = {}]
        /\ state[m] = "running"
        /\ UNCHANGED <<parent, oldbin, pid, script, failed>>
    BY <1>2
  <2> HIDE DEF Wake
  <2>2. UpgradeType'
    BY <2>1 DEF UpgradeType, States
  <2>3. ~Nobody
    BY <2>1 DEF Nobody, Absent
  <2>4. ASSUME NEW x \in Masters, One(x) PROVE One(x)'
    BY <2>1, <2>4 DEF One, Absent, UpgradeType
  <2>5. ASSUME NEW o \in Masters, NEW c \in Masters, Two(o, c) PROVE Two(o, c)'
    BY <2>1, <2>5 DEF Two, Absent, UpgradeType
  <2> QED
    BY <2>2, <2>3, <2>4, <2>5 DEF Stages
<1> QED
  BY <1>1, <1>2

\* What a signal changes is known to its receiver only.
LEMMA SignalStep ==
  ASSUME UpgradeInv, NEW m \in {0} \cup Masters, NEW s \in Signals, Sent(m, s),
         UNCHANGED <<state, parent, pid, oldbin, failed>>, script' \in {"idle", "quit"},
         s \in {"USR1", "USR2"} => m = pid,
         s = "USR2" => parent[pid] = 0,
         s = "QUIT" => m = oldbin
  PROVE  UpgradeInv'
<1> USE MastersType DEF UpgradeInv, Signals
<1>1. \/ signals' = signals
      \/ m \in Masters /\ state[m] # "none" /\ state[m] # "dead" /\ signals' = [signals EXCEPT ![m] = @ \cup {s}]
  BY DEF Sent, Alive
<1>2. UpgradeType'
  BY <1>1 DEF UpgradeType
<1>3. Nobody => Nobody'
  BY <1>1 DEF Nobody, Absent
<1>4. ASSUME NEW x \in Masters, One(x) PROVE One(x)'
  <2>1. signals' = signals \/ (s # "QUIT" /\ m = x /\ pid = x /\ signals' = [signals EXCEPT ![x] = @ \cup {s}])
    BY <1>1, <1>4 DEF One, Absent, UpgradeType
  <2> QED
    BY <1>4, <2>1 DEF One, Absent, UpgradeType
<1>5. ASSUME NEW o \in Masters, NEW c \in Masters, Two(o, c) PROVE Two(o, c)'
  <2>1. m \notin Masters \/ m = o \/ m = c \/ signals' = signals
    BY <1>1, <1>5 DEF Two, Absent
  <2>2. m = c => s = "USR1" /\ pid = c
    BY <1>5 DEF Two
  <2>3. m = o => s # "USR2"
    BY <1>5 DEF Two
  <2> QED
    BY <1>1, <1>5, <2>1, <2>2, <2>3 DEF Two, Absent, UpgradeType
<1> QED
  BY <1>2, <1>3, <1>4, <1>5 DEF Stages

LEMMA ScriptStep == ASSUME UpgradeInv, SendUSR2 \/ SendQUIT PROVE UpgradeInv'
<1>0. {pid, oldbin} \subseteq {0} \cup Masters /\ {"USR2", "QUIT"} \subseteq Signals
  BY DEF UpgradeInv, UpgradeType, Signals
<1>1. CASE SendUSR2 /\ UNCHANGED signals
  BY <1>1 DEF SendUSR2, UpgradeInv, UpgradeType, Stages, Nobody, One, Two, Absent
<1>2. CASE SendUSR2 /\ ~UNCHANGED signals
  BY <1>0, <1>2, SignalStep DEF SendUSR2
<1>3. CASE SendQUIT
  BY <1>0, <1>3, SignalStep DEF SendQUIT
<1> QED
  BY <1>1, <1>2, <1>3

\* The new binary on its way.
LEMMA NewStep == ASSUME UpgradeInv, NEW c \in Masters, Load(c) \/ Fail(c) \/ Up(c) PROVE UpgradeInv'
<1> USE MastersType DEF UpgradeInv
<1>1. /\ state[c] \in {"starting", "loaded"} /\ UNCHANGED <<parent, signals, oldbin, script>>
      /\ \/ state' = [state EXCEPT ![c] = "loaded"] /\ UNCHANGED <<pid, failed>>
         \/ state' = [state EXCEPT ![c] = "running"] /\ pid' = c /\ UNCHANGED failed
         \/ /\ state' = [state EXCEPT ![c] = IF parent[c] # 0 THEN "dead" ELSE "none"]
            /\ failed' = TRUE /\ UNCHANGED pid
  BY DEF Load, Fail, Up
<1>2. UpgradeType'
  <2>1. \E v \in States : state' = [state EXCEPT ![c] = v]
    BY <1>1 DEF States
  <2>2. pid' \in {pid, c} /\ pid \in {0} \cup Masters
    BY <1>1 DEF UpgradeType
  <2>3. failed' \in BOOLEAN
    <3>1. failed' = failed \/ failed' = TRUE
      BY <1>1
    <3> QED
      BY <3>1 DEF UpgradeType
  <2> QED
    BY <1>1, <2>1, <2>2, <2>3 DEF UpgradeType
<1>3. ~Nobody
  BY <1>1 DEF Nobody, Absent
<1>4. ASSUME NEW x \in Masters, One(x) PROVE One(x)' \/ Nobody'
  <2>1. x = c
    BY <1>1, <1>4 DEF One, Absent
  <2> QED
    BY <1>1, <1>4, <2>1 DEF One, Absent, Nobody, UpgradeType
<1>5. ASSUME NEW o \in Masters, NEW d \in Masters, Two(o, d) PROVE Two(o, d)'
  <2>1. d = c
    BY <1>1, <1>5 DEF Two, Absent
  <2> QED
    BY <1>1, <1>5, <2>1 DEF Two, Absent, UpgradeType
<1> QED
  BY <1>2, <1>3, <1>4, <1>5 DEF Stages

LEMMA ReapStep == ASSUME UpgradeInv, NEW m \in Masters, Reap(m) PROVE UpgradeInv'
<1> USE MastersType DEF UpgradeInv
<1>1. PICK c \in Masters :
        /\ parent[c] = m /\ state[c] = "dead"
        /\ state' = [state EXCEPT ![c] = "none"] /\ parent' = [parent EXCEPT ![c] = 0]
  BY DEF Reap, NewBinary
<1>2. /\ IF oldbin # 0 THEN pid' = oldbin /\ oldbin' = 0 ELSE UNCHANGED <<pid, oldbin>>
      /\ UNCHANGED <<signals, script, failed>>
  BY DEF Reap
<1>3. Two(m, c)
  <2>1. ~Nobody
    BY <1>1 DEF Nobody, Absent
  <2>2. ASSUME NEW x \in Masters, One(x) PROVE FALSE
    BY <1>1, <2>2 DEF One, Absent
  <2>3. ASSUME NEW o \in Masters, NEW d \in Masters, Two(o, d) PROVE Two(m, c)
    <3>1. d = c /\ o = m
      BY <1>1, <2>3 DEF Two, Absent
    <3> QED
      BY <2>3, <3>1
  <2> QED
    BY <2>1, <2>2, <2>3 DEF Stages
<1>4. UpgradeType'
  BY <1>1, <1>2 DEF UpgradeType, States
<1>5. One(m)'
  BY <1>1, <1>2, <1>3 DEF One, Two, Absent, UpgradeType
<1> QED
  BY <1>4, <1>5 DEF Stages

LEMMA ExitStep == ASSUME UpgradeInv, NEW m \in Masters, Exit(m) PROVE UpgradeInv'
<1> USE MastersType DEF UpgradeInv
<1>1. /\ state[m] = "quitting" /\ \A c \in NewBinary(m) : state[c] # "dead"
      /\ state' = [state EXCEPT ![m] = "none"] /\ signals' = [signals EXCEPT ![m] = {}]
      /\ parent' = [c \in Masters |-> IF parent[c] = m THEN 0 ELSE parent[c]]
      /\ IF NewBinary(m) # {} THEN oldbin' = 0 /\ UNCHANGED pid ELSE pid' = 0 /\ UNCHANGED oldbin
      /\ UNCHANGED <<script, failed>>
  BY DEF Exit
<1>2. UpgradeType'
  BY <1>1 DEF UpgradeType, States
<1>3. ~Nobody
  BY <1>1 DEF Nobody, Absent
<1>4. ASSUME NEW x \in Masters, One(x) PROVE Nobody'
  <2>1. x = m
    BY <1>1, <1>4 DEF One, Absent
  <2>2. NewBinary(m) = {}
    BY <1>4, <2>1 DEF One, Absent, NewBinary
  <2> QED
    BY <1>1, <1>4, <2>1, <2>2 DEF One, Absent, Nobody, UpgradeType
<1>5. ASSUME NEW o \in Masters, NEW c \in Masters, Two(o, c) PROVE One(c)'
  <2>1. o = m /\ c \in NewBinary(m) /\ state[c] # "dead"
    BY <1>1, <1>5 DEF Two, Absent, NewBinary
  <2> QED
    BY <1>1, <1>5, <2>1 DEF One, Two, Absent, UpgradeType
<1> QED
  BY <1>2, <1>3, <1>4, <1>5 DEF Stages

LEMMA StartStep == ASSUME UpgradeInv, Start PROVE UpgradeInv'
<1> USE MastersType DEF UpgradeInv
<1>1. PICK m \in Masters : state[m] = "none" /\ state' = [state EXCEPT ![m] = "starting"]
  BY FreshMaster DEF Start
<1>2. /\ \A x \in Masters : ~Alive(x)
      /\ UNCHANGED <<parent, signals, pid, oldbin, script, failed>>
  BY DEF Start, Living
<1>3. Nobody
  <2>1. ASSUME NEW x \in Masters, One(x) PROVE FALSE
    BY <1>2, <2>1 DEF One, Alive
  <2>2. ASSUME NEW o \in Masters, NEW c \in Masters, Two(o, c) PROVE FALSE
    BY <1>2, <2>2 DEF Two, Alive
  <2> QED
    BY <2>1, <2>2 DEF Stages
<1>4. UpgradeType'
  BY <1>1, <1>2 DEF UpgradeType, States
<1>5. One(m)'
  BY <1>1, <1>2, <1>3 DEF Nobody, One, Absent, UpgradeType
<1> QED
  BY <1>1, <1>4, <1>5 DEF Stages

(* Every step of Nightly is one of these for the masters, or none.         *)
LEMMA UpgradeStep == UpgradeInv /\ [Next]_vars => UpgradeInv'
<1> SUFFICES ASSUME UpgradeInv, [Next]_vars PROVE UpgradeInv'
  OBVIOUS
<1>u. CASE UNCHANGED upgradeVars
  BY <1>u DEF upgradeVars, UpgradeInv, UpgradeType, Stages, Nobody, One, Two, Absent
<1>1. ASSUME NEW m \in Masters, MasterWakes(m) \/ WorkersReopen(m) \/ MasterLoads(m) \/ MasterExits(m) \/ Serve(m)
      PROVE  UpgradeInv'
  BY <1>1, <1>u, WakeStep, NewStep, ExitStep DEF MasterWakes, WorkersReopen, MasterLoads, MasterExits, Serve
<1>2. CASE Restarting
  <2>1. (SendUSR2 \/ SendQUIT) => UpgradeInv'
    BY ScriptStep
  <2>2. Start => UpgradeInv'
    BY StartStep
  <2>3. ASSUME NEW m \in Masters, Fail(m) \/ Up(m) \/ Reap(m) PROVE UpgradeInv'
    BY <2>3, NewStep, ReapStep
  <2> QED
    BY <1>2, <2>1, <2>2, <2>3 DEF Restarting
<1>3. CASE SendUSR1
  <2>1. pid \in {0} \cup Masters /\ "USR1" \in Signals /\ script \in {"idle", "quit"}
    BY DEF UpgradeInv, UpgradeType, Signals
  <2> QED
    BY <1>3, <2>1, SignalStep DEF SendUSR1
<1>4. CASE MoveLogs \/ Statistics \/ FindTemp
  BY <1>4, <1>u DEF MoveLogs, Statistics, FindTemp
<1> QED
  BY <1>u, <1>1, <1>2, <1>3, <1>4 DEF Next, vars

LEMMA UpgradeInvariance == Spec => []UpgradeInv
<1>1. Init => UpgradeInv
  BY UpgradeInitInv DEF Init
<1> QED
  BY <1>1, UpgradeStep, PTL DEF Spec

(* There is a master that serves, and one that was told to quit has a new  *)
(* one in its place, if no new binary has failed.                          *)
THEOREM AlwaysServed == Spec => []ServiceGoesOn
<1>1. UpgradeInv => ServiceGoesOn
  <2> SUFFICES ASSUME UpgradeInv, ~failed PROVE
        /\ \A m \in Masters : state[m] = "quitting" => NewBinary(m) # {}
        /\ \E m \in Masters : Alive(m) /\ state[m] # "quitting"
    BY DEF ServiceGoesOn, Living
  <2>1. ASSUME NEW x \in Masters, One(x)
        PROVE  (\A m \in Masters : state[m] # "quitting") /\ Alive(x) /\ state[x] # "quitting"
    BY <2>1 DEF One, Absent, Alive
  <2>2. ASSUME NEW o \in Masters, NEW c \in Masters, Two(o, c)
        PROVE  /\ \A m \in Masters : state[m] = "quitting" => c \in NewBinary(m)
               /\ Alive(c) /\ state[c] # "quitting"
    BY <2>2 DEF Two, Absent, Alive, NewBinary
  <2>3. ~Nobody
    BY DEF Nobody
  <2> QED
    BY <2>1, <2>2, <2>3 DEF UpgradeInv, Stages
<1> QED
  BY <1>1, UpgradeInvariance, PTL

LEMMA PairSize == ASSUME NEW a, NEW b PROVE Cardinality({a, b}) <= 2
<1>1. IsFiniteSet({a}) /\ Cardinality({a}) = 1
  BY FS_Singleton
<1>2. Cardinality({a} \cup {b}) \in {1, 2}
  BY <1>1, FS_AddElement
<1>3. {a} \cup {b} = {a, b}
  OBVIOUS
<1> QED
  BY <1>2, <1>3

(* The pid files name the masters: at most two, found by the next restart. *)
THEOREM PidFiles == Spec => []FilesNameMasters
<1>1. UpgradeInv => FilesNameMasters
  <2> USE MastersType
  <2> SUFFICES ASSUME UpgradeInv PROVE FilesNameMasters
    OBVIOUS
  <2>1. CASE Nobody
    <3>1. Living = {}
      <4>1. \A m \in Masters : ~Alive(m)
        BY <2>1 DEF Nobody, Absent, Alive
      <4> QED
        BY <4>1 DEF Living
    <3>2. Cardinality({}) <= 2
      BY FS_EmptySet
    <3> QED
      BY <2>1, <3>1, <3>2 DEF Nobody, FilesNameMasters
  <2>2. ASSUME NEW m \in Masters, One(m) PROVE FilesNameMasters
    <3>0. Living = {m, m} /\ (pid # 0 => pid = m) /\ oldbin = 0
      BY <2>2 DEF One, Absent, Living, Alive
    <3>1. Cardinality(Living) <= 2
      BY <3>0, PairSize
    <3>2. Quiet => pid = m
      BY <2>2 DEF One, Quiet, Living, Alive
    <3>3. NewBinary(m) = {} /\ parent[m] = 0
      BY <2>2 DEF One, Absent, NewBinary
    <3>4. Alive(m)
      BY <2>2 DEF One, Alive
    <3> QED
      BY <3>0, <3>1, <3>2, <3>3, <3>4 DEF FilesNameMasters
  <2>3. ASSUME NEW o \in Masters, NEW c \in Masters, Two(o, c) PROVE FilesNameMasters
    <3>0. /\ Alive(o) /\ (pid # 0 => pid = c /\ Alive(c)) /\ oldbin = o /\ parent[c] = o
          /\ Alive(c) <=> state[c] # "dead"
      BY <2>3 DEF Two, Alive
    <3>a. \A m \in Masters \ {o, c} : ~Alive(m)
      BY <2>3 DEF Two, Absent, Alive
    <3>1. Living = IF state[c] = "dead" THEN {o, o} ELSE {o, c}
      BY <3>0, <3>a DEF Living
    <3>2. Cardinality(Living) <= 2
      BY <3>1, PairSize
    <3>3. Quiet /\ (\A m \in Masters : state[m] # "dead") => pid = c /\ Living = {o, c}
      BY <2>3, <3>1 DEF Two, Quiet
    <3>4. NewBinary(c) = {}
      BY <2>3 DEF Two, Absent, NewBinary
    <3> QED
      BY <3>0, <3>1, <3>2, <3>3, <3>4 DEF FilesNameMasters
  <2> QED
    BY <2>1, <2>2, <2>3 DEF UpgradeInv, Stages
<1> QED
  BY <1>1, UpgradeInvariance, PTL

-----------------------------------------------------------------------------
(* Logs                                                                    *)

LEMMA InitInv == Init => IInv
<1> SUFFICES ASSUME Init PROVE IInv
  OBVIOUS
<1>1. UpgradeInv
  BY UpgradeInitInv DEF Init
<1>2. /\ state = [m \in Masters |-> IF m = 1 THEN "running" ELSE "none"]
      /\ signals = [m \in Masters |-> {}] /\ fd = [m \in Masters |-> IF m = 1 THEN 1 ELSE 0]
      /\ written = <<>> /\ day = 0 /\ hour = "day" /\ error_log = 1
  BY DEF Init, UpgradeInit
<1>3. FilesInv
  BY <1>2, MastersType DEF Init, FilesInv, FilesType, CountedInv, Open
<1>4. ReopenInv
  BY <1>2 DEF Init, ReopenInv, ToldLater, NoQuit, Open
<1>5. ImagesInv
  BY <1>2 DEF Init, ImagesInv, ImagesKept, passes
<1> QED
  BY <1>1, <1>3, <1>4, <1>5 DEF IInv

\* A master has its files open from its start on.
LEMMA OpenStep ==
  ASSUME UpgradeInv, [Next]_vars, NEW m \in Masters, state'[m] \in Open, ~MasterLoads(m)
  PROVE  state[m] \in Open
<1>0. state \in [Masters -> States] /\ MastersType
  BY MastersType DEF UpgradeInv, UpgradeType
<1> USE DEF Open
<1>1. CASE UNCHANGED upgradeVars
  BY <1>1 DEF upgradeVars
<1>2. ASSUME NEW x \in Masters, MasterWakes(x) PROVE state[m] \in Open
  <2>1. \/ state' = state
        \/ state' = [state EXCEPT ![x] = "quitting"] /\ state[x] = "running"
        \/ \E c \in Masters : state' = [state EXCEPT ![c] = "starting"]
    BY <1>2, FreshMaster DEF MasterWakes, Wake
  <2> QED
    BY <1>0, <2>1
<1>3. ASSUME NEW x \in Masters, MasterLoads(x) PROVE state[m] \in Open
  BY <1>0, <1>3 DEF MasterLoads, Load
<1>4. ASSUME NEW x \in Masters, MasterExits(x) PROVE state[m] \in Open
  BY <1>0, <1>4 DEF MasterExits, Exit
<1>5. CASE Restarting
  <2>1. \/ state' = state
        \/ \E c \in Masters, v \in {"none", "dead", "starting"} : state' = [state EXCEPT ![c] = v]
        \/ \E c \in Masters : state' = [state EXCEPT ![c] = "running"] /\ state[c] = "loaded"
    BY <1>5, FreshMaster DEF Restarting, SendUSR2, SendQUIT, Start, Fail, Up, Reap, NewBinary
  <2> QED
    BY <1>0, <2>1
<1>6. CASE SendUSR1
  BY <1>6 DEF SendUSR1
<1> QED
  BY <1>1, <1>2, <1>3, <1>4, <1>5, <1>6
  DEF Next, vars, WorkersReopen, Serve, MoveLogs, Statistics, FindTemp

LEMMA PassesType == FilesInv => passes \in Nat /\ passes <= day
BY DEF FilesInv, FilesType, passes

\* open(2) has the file of the coming night.
LEMMA OpenedFile ==
  ASSUME FilesInv, NEW m \in Masters, Opened(m)
  PROVE  error_log' = day + 1 /\ fd' = [fd EXCEPT ![m] = day + 1] /\ (error_log # 0 => error_log' = error_log)
BY DEF FilesInv, FilesType, Opened

\* What each step leaves alone of the log files.
LEMMA FilesFrame ==
  ASSUME [Next]_vars
  PROVE  \/ UNCHANGED <<day, hour, reply_log, error_log, dated, written, counted>>
            /\ (fd' = fd \/ \E m \in Masters : fd' = [fd EXCEPT ![m] = 0] /\ state' = [state EXCEPT ![m] = "none"])
         \/ (\E m \in Masters : Opened(m)) /\ UNCHANGED <<day, hour, reply_log, dated, written, counted>>
         \/ (\E m \in Masters : Serve(m)) \/ MoveLogs \/ SendUSR1 \/ Statistics \/ FindTemp
BY DEF Next, Restarting, MasterWakes, WorkersReopen, MasterLoads, MasterExits, Exit,
       vars, logVars, pastVars, cronVars

LEMMA FilesTypeStep == UpgradeInv /\ FilesInv /\ [Next]_vars => FilesType'
<1> SUFFICES ASSUME UpgradeInv, FilesInv, [Next]_vars PROVE FilesType'
  OBVIOUS
<1> USE DEF FilesInv, FilesType
<1>1. CASE /\ UNCHANGED <<day, hour, reply_log, error_log, dated, written, counted>>
           /\ fd' = fd \/ \E m \in Masters : fd' = [fd EXCEPT ![m] = 0] /\ state' = [state EXCEPT ![m] = "none"]
  BY <1>1
<1>2. ASSUME NEW m \in Masters, Opened(m), UNCHANGED <<day, hour, reply_log, dated, written, counted>>
      PROVE  FilesType'
  BY <1>2, OpenedFile
<1>3. ASSUME NEW m \in Masters, Serve(m) PROVE FilesType'
  <2>1. /\ written' = Append(written, [file  |-> IF reply_log = "error.log" THEN fd[m] ELSE 0,
                                       fresh |-> fd[m] = error_log, at |-> passes])
        /\ UNCHANGED <<day, hour, reply_log, error_log, dated, fd>>
    BY <1>3 DEF Serve, logVars, cronVars
  <2>2. [file  |-> IF reply_log = "error.log" THEN fd[m] ELSE 0, fresh |-> fd[m] = error_log, at |-> passes]
          \in [file : Nat, fresh : BOOLEAN, at : Nat]
    BY PassesType
  <2> QED
    BY <2>1, <2>2
<1>4. CASE MoveLogs
  BY <1>4 DEF MoveLogs, pastVars
<1>5. CASE SendUSR1 \/ Statistics \/ FindTemp
  BY <1>5 DEF SendUSR1, Statistics, FindTemp, logVars, pastVars
<1> QED
  BY <1>1, <1>2, <1>3, <1>4, <1>5, FilesFrame

LEMMA OpenFilesStep ==
  ASSUME UpgradeInv, FilesInv, [Next]_vars, NEW m \in Masters, state'[m] \in Open
  PROVE  fd'[m] # 0
<1>0. fd \in [Masters -> Nat] /\ state \in [Masters -> States] /\ day \in Nat
  BY DEF FilesInv, FilesType, UpgradeInv, UpgradeType
<1>1. \A x \in Masters : Opened(x) => fd' = [fd EXCEPT ![x] = day + 1]
  BY OpenedFile
<1>2. CASE MasterLoads(m)
  BY <1>0, <1>1, <1>2 DEF MasterLoads
<1>3. CASE ~MasterLoads(m)
  <2>1. fd[m] # 0
    BY <1>3, OpenStep DEF FilesInv
  <2>2. \/ fd' = fd
        \/ \E x \in Masters : fd' = [fd EXCEPT ![x] = 0] /\ state' = [state EXCEPT ![x] = "none"]
        \/ \E x \in Masters : Opened(x)
    BY FilesFrame DEF Serve, MoveLogs, SendUSR1, Statistics, FindTemp, logVars
  <2> QED
    BY <1>0, <1>1, <2>1, <2>2 DEF Open
<1> QED
  BY <1>2, <1>3

LEMMA CountedStep == FilesInv /\ [Next]_vars => CountedInv'
<1> SUFFICES ASSUME FilesInv, [Next]_vars PROVE CountedInv'
  OBVIOUS
<1>0. FilesType /\ CountedInv
  BY DEF FilesInv
<1>1. CASE UNCHANGED <<day, hour, reply_log, dated, written, counted>>
  BY <1>0, <1>1 DEF CountedInv
<1>2. ASSUME NEW m \in Masters, Serve(m) PROVE CountedInv'
  <2> DEFINE r == [file  |-> IF reply_log = "error.log" THEN fd[m] ELSE 0, fresh |-> fd[m] = error_log, at |-> passes]
  <2>1. written' = Append(written, r) /\ UNCHANGED <<day, hour, reply_log, error_log, dated, fd, counted>>
    BY <1>2 DEF Serve, logVars, cronVars
  <2>2. /\ r.file # 0 => r.file = fd[m] /\ reply_log = "error.log"
        /\ r.fresh => fd[m] = error_log
    OBVIOUS
  <2>4. error_log # 0 => dated # error_log
    BY <1>0 DEF FilesType
  <2> HIDE DEF r
  <2>3. /\ DOMAIN written' = DOMAIN written \cup {Len(written) + 1}
        /\ \A i \in DOMAIN written : written'[i] = written[i]
        /\ written'[Len(written) + 1] = r
    BY <1>0, <2>1 DEF FilesType
  <2> QED
    BY <1>0, <2>1, <2>2, <2>3, <2>4 DEF CountedInv
<1>3. CASE MoveLogs
  BY <1>0, <1>3 DEF MoveLogs, pastVars, CountedInv
<1>4. CASE SendUSR1
  BY <1>0, <1>4 DEF SendUSR1, logVars, pastVars, CountedInv
<1>5. CASE Statistics
  <2>1. /\ hour' = "counted" /\ UNCHANGED <<day, reply_log, dated, written>>
        /\ counted' = counted \cup {<<i, day>> : i \in {j \in DOMAIN written : dated # 0 /\ written[j].file = dated}}
    BY <1>5 DEF Statistics, LogFile, logVars
  <2>2. dated # 0 => dated = day
    BY <1>0 DEF FilesType
  <2>3. \A c \in counted' : c \in counted \/ \E i \in DOMAIN written : c = <<i, day>> /\ dated # 0 /\ written[i].file = dated
    BY <2>1
  <2>4. \A i \in DOMAIN written : dated # 0 /\ written[i].file = dated => <<i, day>> \in counted'
    BY <2>1
  <2>5. (reply_log = "err_info.log" => counted = {} /\ \A i \in DOMAIN written : written[i].file = 0)'
    BY <1>0, <2>1, <2>3 DEF CountedInv
  <2>6. (\A c \in counted : c = <<c[1], c[2]>> /\ c[1] \in DOMAIN written /\ written[c[1]].file = c[2])'
    BY <1>0, <2>1, <2>2, <2>3 DEF CountedInv
  <2> QED
    BY <2>1, <2>4, <2>5, <2>6 DEF CountedInv
<1>6. CASE FindTemp
  BY <1>0, <1>6 DEF FindTemp, logVars, pastVars, CountedInv
<1> QED
  BY <1>1, <1>2, <1>3, <1>4, <1>5, <1>6, FilesFrame

LEMMA FilesStep == UpgradeInv /\ FilesInv /\ [Next]_vars => FilesInv'
BY FilesTypeStep, OpenFilesStep, CountedStep DEF FilesInv

\* Only a master that is there has signals, and without nginx.pid.oldbin one runs.
LEMMA SignalsAlive ==
  ASSUME UpgradeInv, NEW m \in Masters
  PROVE  /\ signals[m] # {} => Alive(m)
         /\ state[m] = "running" /\ oldbin = 0 => \A x \in Masters : state[x] = "running" => x = m
<1> USE MastersType
<1>1. ASSUME NEW x \in Masters, One(x)
      PROVE  (signals[m] # {} => Alive(m)) /\ \A y \in Masters : state[y] = "running" => y = x
  BY <1>1 DEF One, Absent, Alive
<1>2. ASSUME NEW o \in Masters, NEW c \in Masters, Two(o, c)
      PROVE  (signals[m] # {} => Alive(m)) /\ oldbin # 0
  BY <1>2 DEF Two, Absent, Alive
<1>3. Nobody => signals[m] = {} /\ \A y \in Masters : state[y] # "running"
  BY DEF Nobody, Absent
<1> QED
  BY <1>1, <1>2, <1>3 DEF UpgradeInv, Stages

\* nginx.pid.oldbin names another master than nginx.pid.
LEMMA PidAlive ==
  ASSUME UpgradeInv, oldbin # 0
  PROVE  \E m \in Masters : Alive(m) /\ m # pid
<1>1. ASSUME NEW x \in Masters, One(x) PROVE FALSE
  BY <1>1 DEF One
<1>2. ASSUME NEW o \in Masters, NEW c \in Masters, Two(o, c) PROVE Alive(o) /\ o # pid
  BY <1>2, MastersType DEF Two, Alive
<1>3. ~Nobody
  BY DEF Nobody
<1> QED
  BY <1>1, <1>2, <1>3 DEF UpgradeInv, Stages

(* Told of a moved file: the signal stays with its master, and nothing can *)
(* end that master before it has seen it.                                  *)
LEMMA ReopenStep == IInv /\ [Next]_vars => ReopenInv'
<1> SUFFICES ASSUME UpgradeInv, FilesInv, ReopenInv, [Next]_vars PROVE ReopenInv'
  BY DEF IInv
<1> USE MastersType
<1>0. /\ state \in [Masters -> States] /\ signals \in [Masters -> SUBSET Signals]
      /\ fd \in [Masters -> Nat] /\ day \in Nat /\ disturbed \in BOOLEAN
      /\ \A m \in Masters : (ToldLater(m) /\ NoQuit(m)) /\ (state[m] \in Open => fd[m] # 0)
  BY DEF FilesInv, FilesType, UpgradeInv, UpgradeType, ReopenInv
<1>o. \A m \in Masters : state'[m] \in Open /\ ~MasterLoads(m) => state[m] \in Open
  BY OpenStep
<1>u. CASE UNCHANGED <<upgradeVars, hour, disturbed, error_log, fd, reopening>>
  BY <1>u, <1>0 DEF upgradeVars, ReopenInv, ToldLater, NoQuit
<1>1. ASSUME NEW x \in Masters, MasterWakes(x) PROVE ReopenInv'
  <2>1. /\ signals' = [signals EXCEPT ![x] = {}] /\ state[x] = "running"
        /\ reopening' = IF Reopens(x) THEN reopening \cup {x} ELSE reopening
        /\ UNCHANGED <<hour, disturbed, error_log, fd>>
    BY <1>1 DEF MasterWakes, Wake, cronVars
  <2>2. ASSUME NEW m \in Masters PROVE ToldLater(m)'
    <3>1. ~MasterLoads(m)
      BY <1>0, <2>1, <1>1, FreshMaster DEF MasterLoads, Load, MasterWakes, Wake
    <3>2. state'[m] \in Open => state[m] \in Open
      BY <1>o, <3>1
    <3> QED
      BY <1>0, <2>1, <3>2 DEF ToldLater, NoQuit, Reopens
  <2>3. ASSUME NEW m \in Masters PROVE NoQuit(m)'
    <3>1. CASE m = x
      BY <1>0, <2>1, <3>1 DEF NoQuit
    <3>2. CASE m # x /\ ~disturbed /\ hour # "moved" /\ "USR1" \in signals[m]
      <4>1. oldbin = 0 /\ "QUIT" \notin signals[m] /\ state[m] = "running"
        BY <1>0, <3>2 DEF NoQuit
      <4>2. FALSE
        BY <2>1, <3>2, <4>1, SignalsAlive
      <4> QED
        BY <4>2
    <3>3. CASE m # x /\ ~(~disturbed /\ hour # "moved" /\ "USR1" \in signals[m])
      BY <1>0, <2>1, <3>3 DEF NoQuit
    <3> QED
      BY <3>1, <3>2, <3>3
  <2> QED
    BY <1>0, <2>1, <2>2, <2>3 DEF ReopenInv
<1>2. ASSUME NEW x \in Masters, Opened(x), UNCHANGED <<signals, oldbin, hour, disturbed>>,
             \A m \in Masters \ {x} : state'[m] = state[m],
             (state' = state /\ reopening' = reopening \ {x}) \/ (state[x] = "starting" /\ reopening' = reopening)
      PROVE  ReopenInv'
  <2>1. fd' = [fd EXCEPT ![x] = error_log'] /\ (error_log # 0 => error_log' = error_log)
    BY <1>2, OpenedFile
  <2>2. ASSUME NEW m \in Masters PROVE ToldLater(m)'
    BY <1>0, <1>2, <2>1 DEF ToldLater
  <2>3. ASSUME NEW m \in Masters PROVE NoQuit(m)'
    BY <1>0, <1>2 DEF NoQuit
  <2> QED
    BY <1>0, <1>2, <2>2, <2>3 DEF ReopenInv
<1>3. ASSUME NEW x \in Masters, MasterExits(x) PROVE ReopenInv'
  <2>1. /\ signals' = [signals EXCEPT ![x] = {}] /\ state' = [state EXCEPT ![x] = "none"]
        /\ oldbin' \in {0, oldbin} /\ fd' = [fd EXCEPT ![x] = 0] /\ reopening' = reopening \ {x}
        /\ UNCHANGED <<hour, disturbed, error_log>>
    BY <1>3 DEF MasterExits, Exit, cronVars
  <2> QED
    BY <1>0, <2>1 DEF ReopenInv, ToldLater, NoQuit, Open
<1>4. CASE Restarting
  <2>0. UNCHANGED <<hour, disturbed, error_log, fd, reopening>>
    BY <1>4 DEF Restarting, logVars, cronVars
  <2>1. CASE SendUSR2 \/ SendQUIT
    <3>1. /\ UNCHANGED <<state, oldbin>>
          /\ \/ signals' = signals
             \/ \E x \in Masters, s \in {"USR2", "QUIT"} :
                  signals' = [signals EXCEPT ![x] = @ \cup {s}] /\ (s = "QUIT" => oldbin = x)
      BY <2>1 DEF SendUSR2, SendQUIT, Sent, Alive
    <3>2. signals' = signals => ReopenInv'
      BY <1>0, <2>0, <3>1 DEF ReopenInv, ToldLater, NoQuit
    <3>3. ASSUME NEW x \in Masters, NEW s \in {"USR2", "QUIT"}, s = "QUIT" => oldbin = x,
                 signals' = [signals EXCEPT ![x] = @ \cup {s}]
          PROVE  ReopenInv'
      <4>1. \A m \in Masters : /\ "USR1" \in signals'[m] <=> "USR1" \in signals[m]
                               /\ "QUIT" \in signals'[m] => "QUIT" \in signals[m] \/ oldbin = m
        BY <1>0, <3>3
      <4> QED
        BY <1>0, <2>0, <3>1, <4>1 DEF ReopenInv, ToldLater, NoQuit
    <3> QED
      BY <3>1, <3>2, <3>3
  <2>2. CASE ~(SendUSR2 \/ SendQUIT)
    <3>1. /\ UNCHANGED signals /\ oldbin' \in {0, oldbin}
          /\ \E x \in Masters, v \in States : state' = [state EXCEPT ![x] = v] /\ state[x] # "running"
      BY <1>4, <2>2, FreshMaster DEF Restarting, Start, Fail, Up, Reap, NewBinary, States
    <3>2. ASSUME NEW m \in Masters PROVE ToldLater(m)'
      <4>1. ~MasterLoads(m)
        BY <1>0, <1>4, <2>2, FreshMaster
        DEF MasterLoads, Load, Restarting, Start, Fail, Up, Reap, NewBinary
      <4> QED
        BY <1>0, <1>o, <2>0, <3>1, <4>1 DEF ToldLater
    <3>3. ASSUME NEW m \in Masters PROVE NoQuit(m)'
      BY <1>0, <2>0, <3>1 DEF NoQuit
    <3> QED
      BY <1>0, <2>0, <3>2, <3>3 DEF ReopenInv
  <2> QED
    BY <2>1, <2>2
<1>5. CASE MoveLogs
  <2>1. hour' = "moved" /\ disturbed' \in BOOLEAN
    BY <1>5 DEF MoveLogs
  <2> QED
    BY <2>1 DEF ReopenInv, ToldLater, NoQuit
<1>6. CASE SendUSR1
  <2>1. /\ disturbed' = (disturbed \/ ~Alone) /\ Sent(pid, "USR1")
        /\ UNCHANGED <<state, oldbin, error_log, fd, reopening>>
    BY <1>6 DEF SendUSR1, logVars
  <2>2. disturbed' \in BOOLEAN
    BY <2>1, <1>0
  <2>3. CASE disturbed'
    BY <2>2, <2>3 DEF ReopenInv, ToldLater, NoQuit
  <2>4. CASE ~disturbed'
    <3>1. /\ Living = {pid} /\ state[pid] = "running" /\ "QUIT" \notin signals[pid]
          /\ pid \in Masters /\ Alive(pid)
      BY <2>1, <2>4 DEF Alone, Living
    <3>2. signals' = [signals EXCEPT ![pid] = @ \cup {"USR1"}]
      BY <2>1, <3>1 DEF Sent
    <3>3. \A m \in Masters : Alive(m) => m = pid
      BY <3>1 DEF Living
    <3>4. \A m \in Masters : (state[m] \in Open \/ signals[m] # {}) => m = pid
      BY <3>3, SignalsAlive DEF Open, Alive
    <3>5. oldbin = 0
      BY <3>3, PidAlive
    <3>6. ASSUME NEW m \in Masters PROVE ToldLater(m)'
      BY <1>0, <2>1, <3>2, <3>4 DEF ToldLater
    <3>7. ASSUME NEW m \in Masters PROVE NoQuit(m)'
      BY <1>0, <2>1, <3>1, <3>2, <3>4, <3>5 DEF NoQuit
    <3> QED
      BY <2>2, <3>6, <3>7 DEF ReopenInv
  <2> QED
    BY <2>3, <2>4
<1>7. CASE Statistics \/ FindTemp
  <2>1. hour # "moved" /\ hour' # "moved" /\ UNCHANGED <<upgradeVars, disturbed, error_log, fd, reopening>>
    BY <1>7 DEF Statistics, FindTemp, logVars
  <2> QED
    BY <1>0, <2>1 DEF upgradeVars, ReopenInv, ToldLater, NoQuit
<1>8. ASSUME NEW x \in Masters, WorkersReopen(x) \/ MasterLoads(x) PROVE ReopenInv'
  <2>1. /\ Opened(x) /\ UNCHANGED <<signals, oldbin, hour, disturbed>>
        /\ \A m \in Masters \ {x} : state'[m] = state[m]
        /\ (state' = state /\ reopening' = reopening \ {x}) \/ (state[x] = "starting" /\ reopening' = reopening)
    <3>1. CASE WorkersReopen(x)
      <4>1. UNCHANGED state /\ UNCHANGED signals /\ UNCHANGED oldbin /\ UNCHANGED hour /\ UNCHANGED disturbed
        BY <3>1 DEF WorkersReopen, upgradeVars, cronVars
      <4> QED
        BY <3>1, <4>1 DEF WorkersReopen
    <3>2. CASE MasterLoads(x)
      <4>1. UNCHANGED signals /\ UNCHANGED oldbin /\ UNCHANGED hour /\ UNCHANGED disturbed
        BY <3>2 DEF MasterLoads, Load, cronVars
      <4>2. state[x] = "starting" /\ state' = [state EXCEPT ![x] = "loaded"]
        BY <3>2 DEF MasterLoads, Load
      <4> QED
        BY <1>0, <3>2, <4>1, <4>2 DEF MasterLoads
    <3> QED
      BY <1>8, <3>1, <3>2
  <2> QED
    BY <1>2, <2>1
<1>9. ASSUME NEW x \in Masters, Serve(x) PROVE ReopenInv'
  BY <1>u, <1>9 DEF Serve, logVars, cronVars
<1> QED
  BY <1>u, <1>1, <1>3, <1>4, <1>5, <1>6, <1>7, <1>8, <1>9 DEF Next, vars, logVars, cronVars

-----------------------------------------------------------------------------
(* Images                                                                  *)

\* The directory is as young as the youngest image, so it goes after all of them.
LEMMA ImagesStep == IInv /\ [Next]_vars => ImagesInv'
<1> SUFFICES ASSUME FilesInv, ImagesInv, [Next]_vars PROVE ImagesInv'
  BY DEF IInv
<1>0. /\ day \in Nat /\ passes \in Nat /\ passes <= day
      /\ written \in Seq([file : Nat, fresh : BOOLEAN, at : Nat])
  BY PassesType DEF FilesInv, FilesType
<1>t. \A i \in DOMAIN written : written[i].at \in Nat
  <2> DEFINE Reply == [file : Nat, fresh : BOOLEAN, at : Nat]
  <2>1. \A r \in Reply : r.at \in Nat
    OBVIOUS
  <2>2. written \in Seq(Reply)
    BY <1>0
  <2> HIDE DEF Reply
  <2>3. \A i \in DOMAIN written : written[i] \in Reply
    BY <2>2
  <2> QED
    BY <2>1, <2>3
<1> USE DEF ImagesInv, ImagesKept
<1>1. CASE UNCHANGED <<dir, dirtime, temps, written, passes>>
  BY <1>1
<1>2. ASSUME NEW m \in Masters, MasterLoads(m) PROVE ImagesInv'
  <2>1. dir' = TRUE /\ dirtime' = (IF dir THEN dirtime ELSE passes) /\ UNCHANGED <<temps, written, day, hour>>
    BY <1>2 DEF MasterLoads, pastVars, cronVars
  <2>2. UNCHANGED passes
    BY <2>1 DEF passes
  <2> QED
    BY <1>0, <2>1, <2>2
<1>3. ASSUME NEW m \in Masters, Serve(m) PROVE ImagesInv'
  <2>1. PICK r : written' = Append(written, r) /\ r.at = passes /\ r \in [file : Nat, fresh : BOOLEAN, at : Nat]
    <3>1. [file  |-> IF reply_log = "error.log" THEN fd[m] ELSE 0, fresh |-> fd[m] = error_log, at |-> passes]
            \in [file : Nat, fresh : BOOLEAN, at : Nat]
      BY <1>0, <1>3 DEF FilesInv, FilesType
    <3> QED
      BY <1>3, <3>1 DEF Serve
  <2>2. /\ dir /\ temps' = temps \cup {Len(written) + 1} /\ dirtime' = passes
        /\ UNCHANGED <<dir, day, hour>>
    BY <1>3 DEF Serve, Created, cronVars
  <2>3. UNCHANGED passes
    BY <2>2 DEF passes
  <2>4. /\ DOMAIN written' = DOMAIN written \cup {Len(written) + 1}
        /\ \A i \in DOMAIN written : written'[i] = written[i]
        /\ written'[Len(written) + 1] = r
    BY <1>0, <2>1
  <2> QED
    BY <1>0, <1>t, <2>1, <2>2, <2>3, <2>4
<1>4. CASE MoveLogs \/ SendUSR1 \/ Statistics
  <2>1. UNCHANGED <<dir, dirtime, temps, written>>
    BY <1>4 DEF MoveLogs, SendUSR1, Statistics, tempVars, pastVars
  <2>2. passes' = passes
    BY <1>0, <1>4 DEF MoveLogs, SendUSR1, Statistics, passes
  <2> QED
    BY <1>1, <2>1, <2>2
<1>5. CASE FindTemp
  <2>1. passes' = day /\ passes = day - 1 /\ UNCHANGED <<written, day>>
    BY <1>5 DEF FindTemp, passes, pastVars
  <2>3. CASE dir /\ Old(dirtime)
    <3>1. dir' = FALSE /\ temps' = {} /\ UNCHANGED dirtime
      BY <1>5, <2>3 DEF FindTemp
    <3>2. day - dirtime >= 4
      BY <2>3 DEF Old
    <3>3. ASSUME NEW i \in DOMAIN written PROVE ~(day - written[i].at < 4) /\ written[i].at <= day
      BY <1>0, <1>t, <2>3, <3>2
    <3> QED
      BY <1>0, <2>1, <3>1, <3>3
  <2>4. CASE ~(dir /\ Old(dirtime))
    <3> DEFINE old == {i \in temps : Old(written[i].at)}
    <3>1. /\ temps' = temps \ old /\ UNCHANGED dir
          /\ dirtime' = IF old = {} THEN dirtime ELSE day
      BY <1>5, <2>4 DEF FindTemp
    <3>2. \A i \in temps : i \in old <=> day - written[i].at >= 4
      BY DEF Old
    <3> HIDE DEF old
    <3>3. dirtime' \in Nat /\ (dirtime' = dirtime \/ dirtime' = day)
      BY <1>0, <3>1
    <3>4. ASSUME NEW i \in DOMAIN written
          PROVE  /\ written[i].at <= day /\ (dir => written[i].at <= dirtime')
                 /\ day - written[i].at < 4 => dir /\ i \in temps'
      <4>1. written[i].at <= passes /\ (dir => written[i].at <= dirtime)
        OBVIOUS
      <4>2. passes - written[i].at < 4 => dir /\ i \in temps
        OBVIOUS
      <4>3. passes = day - 1 /\ day \in Nat /\ dirtime \in Nat /\ written[i].at \in Nat
        BY <1>0, <1>t, <2>1
      <4>4. written[i].at <= day
        BY <4>1, <4>3
      <4>5. dir => written[i].at <= dirtime'
        BY <3>3, <4>1, <4>3, <4>4
      <4>6. day - written[i].at < 4 => passes - written[i].at < 4
        BY <4>3
      <4>7. day - written[i].at < 4 => dir /\ i \in temps /\ i \notin old
        BY <3>2, <4>2, <4>3, <4>6
      <4> QED
        BY <3>1, <4>4, <4>5, <4>7
    <3>5. ASSUME NEW i \in temps' PROVE day - written[i].at < 4
      BY <1>0, <1>t, <3>1, <3>2, <3>5
    <3> QED
      BY <2>1, <3>1, <3>3, <3>4, <3>5
  <2> QED
    BY <2>3, <2>4
<1> QED
  BY <1>1, <1>2, <1>3, <1>4, <1>5
  DEF Next, Restarting, MasterWakes, WorkersReopen, MasterExits, vars, pastVars, tempVars, cronVars, passes

-----------------------------------------------------------------------------

LEMMA Invariance == Spec => []IInv
<1>1. IInv /\ [Next]_vars => IInv'
  BY UpgradeStep, FilesStep, ReopenStep, ImagesStep DEF IInv
<1> QED
  BY <1>1, InitInv, PTL DEF Spec

(* No reply is counted twice, and one that is written before its log is    *)
(* moved is counted in that night; a worker keeps writing to a moved file  *)
(* only until its master has seen USR1, or after a restart came between.   *)
THEOREM OnceAndInTime == Spec => []RepliesCounted
<1>1. IInv => RepliesCounted
  <2> SUFFICES ASSUME FilesInv, ReopenInv PROVE RepliesCounted
    BY DEF IInv
  <2>1. \A c, e \in counted : c[1] = e[1] => c = e
    BY DEF FilesInv, CountedInv
  <2>2. \A m \in Living :
          state[m] \in {"running", "quitting"} /\ fd[m] # error_log =>
            disturbed \/ hour = "moved" \/ "USR1" \in signals[m] \/ m \in reopening
    BY DEF ReopenInv, ToldLater, Open, Living
  <2> QED
    BY <2>1, <2>2 DEF RepliesCounted, FilesInv, CountedInv
<1> QED
  BY <1>1, Invariance, PTL

(* An image is there for three nights and not for a fifth, and the         *)
(* directory goes only when nothing in it is younger than that.            *)
THEOREM KeptInTime == Spec => []ImagesKept
<1>1. IInv => ImagesKept
  BY DEF IInv, ImagesInv
<1> QED
  BY <1>1, Invariance, PTL
=============================================================================
