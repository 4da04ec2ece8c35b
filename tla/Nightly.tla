-------------------------------- MODULE Nightly --------------------------------
(***************************************************************************)
(* cron.lst over a running nginx that may be restarted: log_rotate.sh at   *)
(* 00:01, run_statics.sh at 00:10, the removal of old images at 00:30.     *)
(* The workers of a master stand for one: they log to the file they have   *)
(* open, under whatever name, until they have seen USR1.  Each request     *)
(* leaves an image in client_body_temp and a line in the log.              *)
(***************************************************************************)
EXTENDS Upgrade, Sequences

CONSTANTS MaxDays,     \* bound: nights
          MaxEvents    \* bound: requests and runs of ngx_restart.sh together

VARIABLES
  day, hour,   \* the nights so far; "day", "moved", "signalled", "counted" (a night's jobs are done in order)
  reply_log,   \* where the location logs: "err_info.log" as in the template, or "error.log"
  error_log,   \* the file of that name, 0 if there is none; files are numbered by the nights before them
  dated,       \* error.log_<date> of the last night, 0 if there is none
  fd,          \* the file that the workers of each master have open
  reopening,   \* the masters whose workers have not seen USR1 yet
  written,     \* the replies: [file, fresh, at], fresh if the file was error.log, at by the count of passes
  counted,     \* what the statistics found: <<reply, night>>
  dir, dirtime, temps,   \* client_body_temp: exists, its mtime, the replies whose image is in it
  disturbed,   \* whether the last rotation met a restart
  restarts     \* the runs of ngx_restart.sh

logVars  == <<reply_log, error_log, dated, fd, reopening>>
pastVars == <<written, counted, restarts>>
tempVars == <<dir, dirtime, temps>>
cronVars == <<day, hour, disturbed>>
events   == Len(written) + restarts
vars == <<upgradeVars, logVars, pastVars, tempVars, cronVars>>

Init ==
  /\ UpgradeInit
  /\ day = 0 /\ hour = "day" /\ disturbed = FALSE
  /\ reply_log \in {"error.log", "err_info.log"}
  /\ error_log = 1 /\ dated = 0
  /\ fd = [m \in Masters |-> IF m = 1 THEN 1 ELSE 0]
  /\ reopening = {} /\ restarts = 0 /\ written = <<>> /\ counted = {}
  /\ dir = TRUE /\ dirtime = 0 /\ temps = {}

\* Passes of the last job: the clock of mtime.
passes == IF hour = "day" THEN day ELSE day - 1

-----------------------------------------------------------------------------
(* nginx and its log                                                       *)

\* open(2) of error.log, which makes the file if there is none.
Opened(m) ==
  /\ error_log' = IF error_log = 0 THEN day + 1 ELSE error_log
  /\ fd'        = [fd EXCEPT ![m] = error_log']

MasterWakes(m) ==
  /\ Wake(m)
  /\ reopening' = IF Reopens(m) THEN reopening \cup {m} ELSE reopening
  /\ UNCHANGED <<reply_log, error_log, dated, fd, pastVars, tempVars, cronVars>>

\* A worker reopens its log when it comes back to its loop.
WorkersReopen(m) ==
  /\ m \in reopening /\ Alive(m)
  /\ reopening' = reopening \ {m}
  /\ Opened(m)
  /\ UNCHANGED <<reply_log, dated, upgradeVars, pastVars, tempVars, cronVars>>

\* A new master opens its log and makes the directories that are missing.
MasterLoads(c) ==
  /\ Load(c)
  /\ Opened(c)
  /\ dir' = TRUE /\ dirtime' = IF dir THEN dirtime ELSE passes
  /\ UNCHANGED <<reply_log, dated, reopening, temps, pastVars, cronVars>>

Restarting ==
  /\ \/ SendUSR2 /\ events < MaxEvents /\ restarts' = restarts + 1
     \/ (SendQUIT \/ Start) /\ UNCHANGED restarts
     \/ (\E m \in Masters : Fail(m) \/ Up(m) \/ Reap(m)) /\ UNCHANGED restarts
  /\ UNCHANGED <<logVars, written, counted, tempVars, cronVars>>

\* The workers have gone before their master.
MasterExits(m) ==
  /\ Exit(m)
  /\ fd' = [fd EXCEPT ![m] = 0]
  /\ reopening' = reopening \ {m}
  /\ UNCHANGED <<reply_log, error_log, dated, pastVars, tempVars, cronVars>>

\* ngx_create_temp_file, or the body that nginx saves, in client_body_temp.
Created(i) == temps' = temps \cup {i} /\ dirtime' = passes /\ UNCHANGED dir

\* A request: without the directory it fails, and is not logged as a reply.
Serve(m) ==
  /\ state[m] \in {"running", "quitting"} /\ events < MaxEvents
  /\ dir
  /\ Created(Len(written) + 1)
  /\ written' = Append(written, [file  |-> IF reply_log = "error.log" THEN fd[m] ELSE 0,
                                 fresh |-> fd[m] = error_log, at |-> passes])
  /\ UNCHANGED <<counted, upgradeVars, logVars, cronVars, restarts>>

-----------------------------------------------------------------------------
(* cron                                                                    *)

\* One master, which is not being restarted.
Alone == script = "idle" /\ Living = {pid} /\ state[pid] = "running" /\ "QUIT" \notin signals[pid]

\* log_rotate.sh 13-15: mv does nothing where there is no file.
MoveLogs ==
  /\ hour = "day" /\ day < MaxDays
  /\ day' = day + 1 /\ hour' = "moved"
  /\ disturbed' = ~Alone
  /\ dated' = error_log
  /\ error_log' = 0
  /\ UNCHANGED <<reply_log, fd, reopening, upgradeVars, pastVars, tempVars>>

\* log_rotate.sh 17
SendUSR1 ==
  /\ hour = "moved" /\ hour' = "signalled"
  /\ disturbed' = (disturbed \/ ~Alone)
  /\ Sent(pid, "USR1")
  /\ UNCHANGED <<state, parent, pid, oldbin, script, failed, day, logVars, pastVars, tempVars>>

\* Mutant: the statistics read error.log.
LogFile_Current == error_log
\* run_statics.sh 7: the file of this night.
LogFile == dated

Statistics ==
  /\ hour = "signalled" /\ hour' = "counted"
  /\ counted' = counted \cup
       {<<i, day>> : i \in {j \in DOMAIN written : LogFile # 0 /\ written[j].file = LogFile}}
  /\ UNCHANGED <<day, disturbed, written, upgradeVars, logVars, tempVars, restarts>>

\* Mutant: everything is removed a day early.
Old_DayEarly(at) == day - at >= 3
\* find -mtime +2: more than two whole days, so at the fourth pass at the
\* earliest, since nothing is made at the very time of a pass.
Old(at) == day - at >= 4

\* cron.lst 4: the directory is tested first, and goes with all that is in it.
FindTemp ==
  LET old == {i \in temps : Old(written[i].at)} IN
  /\ hour = "counted" /\ hour' = "day"
  /\ IF dir /\ Old(dirtime)
     THEN dir' = FALSE /\ temps' = {} /\ UNCHANGED dirtime
     ELSE /\ temps' = temps \ old
          /\ dirtime' = IF old = {} THEN dirtime ELSE day
          /\ UNCHANGED dir
  /\ UNCHANGED <<day, disturbed, upgradeVars, logVars, pastVars>>

Next ==
  \/ \E m \in Masters : MasterWakes(m) \/ WorkersReopen(m) \/ MasterLoads(m) \/ MasterExits(m) \/ Serve(m)
  \/ Restarting
  \/ MoveLogs \/ SendUSR1 \/ Statistics \/ FindTemp

Spec == Init /\ [][Next]_vars

-----------------------------------------------------------------------------
(* Properties                                                              *)

(* No reply is counted in two nights, and the one that was written while   *)
(* its file was error.log is counted in the night that moved the file.     *)
(* Others come late, into a file that has been moved: from workers that    *)
(* have USR1 before them, or were not sent it because the rotation met a   *)
(* restart (of two masters only the one in nginx.pid is told).  With       *)
(* err_info.log, the template's log, nothing is counted.                   *)
RepliesCounted ==
  /\ \A c, e \in counted : c[1] = e[1] => c = e
  /\ hour \in {"counted", "day"} =>
       \A i \in DOMAIN written :
         written[i].fresh /\ written[i].file # 0 /\ written[i].file = dated => <<i, day>> \in counted
  /\ \A m \in Living :
       state[m] \in {"running", "quitting"} /\ fd[m] # error_log =>
         disturbed \/ hour = "moved" \/ "USR1" \in signals[m] \/ m \in reopening
  /\ reply_log = "err_info.log" => counted = {}

(* An image is there for three nights, whatever else is removed, and not   *)
(* for a fifth; and the directory itself only goes after three nights      *)
(* without a request.  (Then each request fails until nginx is started.)   *)
ImagesKept ==
  /\ \A i \in DOMAIN written : passes - written[i].at < 4 => dir /\ i \in temps
  /\ \A i \in temps : passes - written[i].at < 4
=============================================================================
