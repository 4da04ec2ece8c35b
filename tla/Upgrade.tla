-------------------------------- MODULE Upgrade --------------------------------
(***************************************************************************)
(* ngx_restart.sh replaces nginx by a new binary: USR2 to the master in    *)
(* nginx.pid, and at once QUIT to the one in nginx.pid.oldbin.  What the   *)
(* signals do is nginx's own code (ngx_process_cycle.c, nginx.c), which    *)
(* these actions take as the script meets it: the master that gets USR2    *)
(* renames its pid file when it wakes, not when the signal is sent, and    *)
(* the new binary writes its own when it has read its configuration, or    *)
(* ends there (a plugin of the fp directive that does not load).           *)
(***************************************************************************)
EXTENDS Naturals, FiniteSets, FiniteSetsExt

CONSTANT MaxMasters   \* bound: masters at a time; a master that has gone leaves its number to another one
ASSUME MaxMastersAssumption == MaxMasters \in Nat \ {0}
Masters == 1..MaxMasters

VARIABLES
  state,     \* of each master: none, starting, loaded (files are open), running, quitting, dead (not reaped)
  parent,    \* the master that started it, 0 once that is gone and for the operator
  signals,   \* what a master was sent and has not seen yet
  pid,       \* the master that nginx.pid names, 0 if there is no such file
  oldbin,    \* nginx.pid.oldbin
  script,    \* ngx_restart.sh: "idle", or "quit" between its two lines
  failed     \* whether a new binary did not start

upgradeVars == <<state, parent, signals, pid, oldbin, script, failed>>

Alive(m)     == m \in Masters /\ state[m] \in {"starting", "loaded", "running", "quitting"}
Living       == {m \in Masters : Alive(m)}
NewBinary(m) == {c \in Masters : parent[c] = m /\ state[c] # "none"}
Fresh        == {m \in Masters : state[m] = "none"}

UpgradeInit ==
  /\ state   = [m \in Masters |-> IF m = 1 THEN "running" ELSE "none"]
  /\ parent  = [m \in Masters |-> 0]
  /\ signals = [m \in Masters |-> {}]
  /\ pid = 1 /\ oldbin = 0 /\ script = "idle" /\ failed = FALSE

-----------------------------------------------------------------------------
(* ngx_restart.sh: `kill' without a pid, where cat finds none, does nothing *)

Sent(m, signal) == signals' = IF Alive(m) THEN [signals EXCEPT ![m] = @ \cup {signal}] ELSE signals

\* The handler ignores USR2 while the parent or a new binary lives.
SendUSR2 ==
  /\ script = "idle"
  /\ script' = "quit"
  /\ IF pid # 0 /\ parent[pid] = 0 /\ NewBinary(pid) = {} THEN Sent(pid, "USR2") ELSE UNCHANGED signals
  /\ UNCHANGED <<state, parent, pid, oldbin, failed>>

\* Mutant: QUIT goes to nginx.pid.
SendQUIT_NoOldbin ==
  /\ script = "quit"
  /\ script' = "idle"
  /\ Sent(pid, "QUIT")
  /\ UNCHANGED <<state, parent, pid, oldbin, failed>>

SendQUIT ==
  /\ script = "quit"
  /\ script' = "idle"
  /\ Sent(oldbin, "QUIT")
  /\ UNCHANGED <<state, parent, pid, oldbin, failed>>

-----------------------------------------------------------------------------
(* nginx                                                                   *)

Reopens(m)  == "QUIT" \notin signals[m] /\ "USR1" \in signals[m]
\* Renaming fails, and nothing is executed, if there is no pid file.
Executes(m) == "QUIT" \notin signals[m] /\ "USR2" \in signals[m] /\ pid # 0

\* The master's loop: QUIT comes before USR1, and that before USR2.
Wake(m) ==
  /\ state[m] = "running" /\ signals[m] # {}
  /\ Executes(m) => Fresh # {}
  /\ signals' = [signals EXCEPT ![m] = {}]
  /\ IF Executes(m)
     THEN LET c == Min(Fresh) IN
          /\ state'  = [state EXCEPT ![c] = "starting"]
          /\ parent' = [parent EXCEPT ![c] = m]
          /\ oldbin' = pid /\ pid' = 0
     ELSE /\ state' = IF "QUIT" \in signals[m] THEN [state EXCEPT ![m] = "quitting"] ELSE state
          /\ UNCHANGED <<parent, oldbin, pid>>
  /\ UNCHANGED <<script, failed>>

\* The new binary has read its configuration and opened its files ...
Load(c) ==
  /\ state[c] = "starting"
  /\ state' = [state EXCEPT ![c] = "loaded"]
  /\ UNCHANGED <<parent, signals, pid, oldbin, script, failed>>

\* ... or ends; its parent, if it has one, will be told.
Fail(c) ==
  /\ state[c] = "starting"
  /\ state'  = [state EXCEPT ![c] = IF parent[c] # 0 THEN "dead" ELSE "none"]
  /\ failed' = TRUE
  /\ UNCHANGED <<parent, signals, pid, oldbin, script>>

Up(c) ==
  /\ state[c] = "loaded"
  /\ state' = [state EXCEPT ![c] = "running"]
  /\ pid' = c
  /\ UNCHANGED <<parent, signals, oldbin, script, failed>>

\* Mutant: the pid file is not renamed back.
Reap_NoRename(m) ==
  /\ Alive(m)
  /\ \E c \in NewBinary(m) :
       /\ state[c] = "dead"
       /\ state'  = [state EXCEPT ![c] = "none"]
       /\ parent' = [parent EXCEPT ![c] = 0]
  /\ UNCHANGED <<signals, pid, oldbin, script, failed>>

\* The parent of a binary that failed takes its pid file back.
Reap(m) ==
  /\ Alive(m)
  /\ \E c \in NewBinary(m) :
       /\ state[c] = "dead"
       /\ state'  = [state EXCEPT ![c] = "none"]
       /\ parent' = [parent EXCEPT ![c] = 0]
  /\ IF oldbin # 0 THEN pid' = oldbin /\ oldbin' = 0 ELSE UNCHANGED <<pid, oldbin>>
  /\ UNCHANGED <<signals, script, failed>>

\* A master whose workers are gone removes its pid file, whichever that is.
Exit(m) ==
  /\ state[m] = "quitting"
  /\ \A c \in NewBinary(m) : state[c] # "dead"
  /\ state'  = [state EXCEPT ![m] = "none"]
  /\ parent' = [c \in Masters |-> IF parent[c] = m THEN 0 ELSE parent[c]]
  /\ IF NewBinary(m) # {} THEN oldbin' = 0 /\ UNCHANGED pid ELSE pid' = 0 /\ UNCHANGED oldbin
  /\ signals' = [signals EXCEPT ![m] = {}]
  /\ UNCHANGED <<script, failed>>

\* The operator finds no nginx and starts one.
Start ==
  /\ Living = {} /\ Fresh # {}
  /\ state' = [state EXCEPT ![Min(Fresh)] = "starting"]
  /\ UNCHANGED <<parent, signals, pid, oldbin, script, failed>>

-----------------------------------------------------------------------------
(* Properties                                                              *)

(* A restart leaves no moment without nginx, wherever its two signals meet *)
(* the masters, unless a new binary did not start; and a master that was   *)
(* told to quit has a new one in its place until then.                     *)
ServiceGoesOn ==
  ~failed =>
    /\ Living # {}
    /\ \A m \in Masters : state[m] = "quitting" => NewBinary(m) # {}
    /\ \E m \in Living : state[m] # "quitting"

Quiet == script = "idle" /\ \A m \in Living : state[m] = "running" /\ signals[m] = {}

(* At most two masters run, and between restarts the pid files lead to     *)
(* them: nginx.pid to the newest, nginx.pid.oldbin to its parent if the    *)
(* QUIT was lost, so that the next restart ends it.  No file names a       *)
(* master that has gone.                                                   *)
FilesNameMasters ==
  /\ Cardinality(Living) <= 2
  /\ pid # 0 => Alive(pid)
  /\ oldbin # 0 => Alive(oldbin)
  /\ Quiet /\ (\A m \in Masters : state[m] # "dead") /\ Living # {} =>
       /\ pid \in Living /\ NewBinary(pid) = {}
       /\ oldbin = parent[pid] /\ Living = {pid, oldbin} \ {0}
=============================================================================
