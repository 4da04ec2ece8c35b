------------------------------ MODULE LogStatics ------------------------------
(***************************************************************************)
(* statics_imaginx_log.py: every night each server reads the log of its    *)
(* workers, counts the replies per plugin in windows of `step_seconds',    *)
(* and inserts one row per window and plugin, and one row per window for   *)
(* HTTP, into the tables of nginx_log_statics.sql, which the servers       *)
(* share.  Inserts are committed one by one, and may fail; a run may end   *)
(* at any point, by a kill or an exception, and be started again.          *)
(***************************************************************************)
EXTENDS Integers, Sequences, FiniteSets, FiniteSetsExt

CONSTANTS
  Servers,
  Plugins,    \* plugin names in requests
  Replies,    \* the texts behind ", res_json:"
  Logs,       \* Logs[s]: the logs that server s may have
  Step,       \* step_seconds
  Day,        \* seconds of a day
  Faults,     \* a subset of {"connect", "insert", "kill"}
  MaxRuns,    \* bound: how often server s starts the script on its log
  None

src_type == {"push", "pull"}
Srcs     == src_type \cup {"pulled"}  \* the handler compares four characters

plugin_dict ==
  [socol |-> "parse_Histsvm_badimg", face |-> "parse_cicf",
   imgquality |-> "parse_img_qua", tutu |-> "parse_tutu", tuwen |-> "parse_tutu",
   yagai |-> "parse_yagai", filter |-> "parse_filter"]

\* A line with ", res_json:".  plugin = None: `plugin=..&src=..' is not in it.
EntryType ==
  [time : Nat, plugin : Plugins \cup {None}, src : Srcs, res_json : Replies]

\* A reply, or a value in it, is a pair of its kind and its content; <<"null">>
\* and <<"invalid">> have none.  <<"comma", d>>: d but for commas in front of "]".
Kinds == {"null", "invalid", "comma", "number", "text", "array", "object"}

ASSUME NonePlugin    == None \notin Plugins \cup Nat
ASSUME RepliesTagged == \A d \in Replies : d[1] \in Kinds
ASSUME LogsTyped     == Logs \in [Servers -> SUBSET Seq(EntryType)]
ASSUME StepInDay     == Day \in Nat /\ Step \in 1..Day
ASSUME FaultsNamed   == Faults \subseteq {"connect", "insert", "kill"}
ASSUME RunsBounded   == MaxRuns \in [Servers -> Nat]

VARIABLES
  log,        \* log[s]: the rotated log of s
  (* the process on each server *)
  pc,         \* "off", "lines", in insert_db: "plugins" and "http", "done"
  db,         \* connected
  pos,        \* next line
  start_dt,   \* start of the window, None before the first line
  res,        \* res[plugin]: its counters
  sum, err,
  todo,       \* insert_db: plugins not inserted yet
  (* the tables *)
  log_statics, http_statics,
  (* history *)
  runs,
  lost        \* <<s, table>>: in the last run of s an insert into it failed, or was
              \* refused for the sake of another row

counters == <<start_dt, res, sum, err>>
tables   == <<log_statics, http_statics>>
vars == <<log, pc, db, pos, counters, todo, tables, runs, lost>>

Empty == [p \in {} |-> None]

Init ==
  /\ log \in {l \in [Servers -> UNION {Logs[s] : s \in Servers}] :
                \A s \in Servers : l[s] \in Logs[s]}
  /\ pc = [s \in Servers |-> "off"] /\ db = [s \in Servers |-> FALSE]
  /\ pos = [s \in Servers |-> 1] /\ start_dt = [s \in Servers |-> None]
  /\ res = [s \in Servers |-> Empty]
  /\ sum = [s \in Servers |-> 0] /\ err = [s \in Servers |-> 0]
  /\ todo = [s \in Servers |-> {}]
  /\ log_statics = {} /\ http_statics = {}
  /\ runs = [s \in Servers |-> 0] /\ lost = {}

-----------------------------------------------------------------------------
(* The parse functions: "found", "nothing", or "raises" for an exception.  *)
(* A value they look for may be <<"missing">>, or <<"raises">> if looking  *)
(* for it raises.                                                          *)

Outcome(holds) == IF holds THEN "found" ELSE "nothing"
IsObject(v)    == v[1] = "object"

\* What Python takes for false.
Falsy(v) ==
  \/ v = <<"null">> \/ v = <<"number", 0>> \/ v = <<"text", "">> \/ v = <<"array", <<>>>>
  \/ IsObject(v) /\ DOMAIN v[2] = {}

\* Only an object has has_key.
Member(v, key) ==
  IF v[1] \in {"missing", "raises"} THEN v
  ELSE IF ~IsObject(v) THEN <<"raises">>
  ELSE IF key \in DOMAIN v[2] THEN v[2][key] ELSE <<"missing">>

\* 113-120
Document(res_json, key) ==
  IF res_json[1] \in {"invalid", "comma"} THEN <<"raises">>  \* json.loads
  ELSE IF Falsy(res_json) THEN <<"missing">> ELSE Member(res_json, key)

\* The same for `result'.
imaginx_str_to_json(res_json) == Document(res_json, "result")

\* What a function makes of the value it looked for; a test is not reached
\* without one.
Judged(v, outcome) ==
  IF v[1] = "missing" THEN "nothing" ELSE IF v[1] = "raises" THEN "raises" ELSE outcome

NotZero(v) == Judged(v, Outcome(v # <<"text", "0">>))
Present(v) == Judged(v, "found")
IsTrue(v)  == Judged(v, Outcome(v = <<"text", "true">>))
IntNotZero(v) ==
  Judged(v, CASE v[1] = "number" -> Outcome(v[2] # 0)
              [] v[1] = "text" /\ v[2] \in {"0", "1"} -> Outcome(v[2] # "0")
              [] OTHER -> "raises")  \* int()

\* for res in ...: an object yields its keys and a text its characters.
Items(v) ==
  CASE v[1] = "array" -> v[2]
    [] v[1] \in {"null", "number", "raises"} -> <<<<"raises">>>>
    [] v[1] = "missing" \/ Falsy(v) -> <<>>
    [] OTHER -> <<<<"text", "item">>>>

\* The loop ends with the first item that is found or raises.
First(outcomes) ==
  LET stops == {i \in DOMAIN outcomes : outcomes[i] # "nothing"} IN
  IF stops = {} THEN "nothing" ELSE outcomes[Min(stops)]

parse_Histsvm_badimg(res_json) ==
  LET items == Items(imaginx_str_to_json(res_json)) IN
  First([i \in DOMAIN items |-> NotZero(Member(items[i], "image_check"))])

parse_cicf(res_json) ==
  LET items == Items(imaginx_str_to_json(IF res_json[1] = "comma" THEN res_json[2] ELSE res_json)) IN
  First([i \in DOMAIN items |-> Present(Member(items[i], "x"))])

parse_tutu(res_json)    == IntNotZero(Member(imaginx_str_to_json(res_json), "match"))
parse_yagai(res_json)   == IntNotZero(Member(imaginx_str_to_json(res_json), "overlap"))
parse_img_qua(res_json) == IsTrue(Member(imaginx_str_to_json(res_json), "state"))
parse_filter(res_json)  == NotZero(Member(Document(res_json, "results"), "label"))

\* 246-247
parse_func(e) ==
  LET name == plugin_dict[e.plugin] IN
  CASE name = "parse_Histsvm_badimg" -> parse_Histsvm_badimg(e.res_json)
    [] name = "parse_cicf"    -> parse_cicf(e.res_json)
    [] name = "parse_tutu"    -> parse_tutu(e.res_json)
    [] name = "parse_yagai"   -> parse_yagai(e.res_json)
    [] name = "parse_img_qua" -> parse_img_qua(e.res_json)
    [] name = "parse_filter"  -> parse_filter(e.res_json)

-----------------------------------------------------------------------------
(* log_statics                                                             *)

\* 160-179.  A connection that fails is noted, and the script goes on.
Start(s) ==
  /\ pc[s] \in {"off", "done"} /\ runs[s] < MaxRuns[s]
  /\ runs' = [runs EXCEPT ![s] = @ + 1]
  /\ \E connected \in {TRUE} \cup (IF "connect" \in Faults THEN {FALSE} ELSE {}) :
       db' = [db EXCEPT ![s] = connected]
  /\ pc' = [pc EXCEPT ![s] = "lines"] /\ pos' = [pos EXCEPT ![s] = 1]
  /\ start_dt' = [start_dt EXCEPT ![s] = None] /\ res' = [res EXCEPT ![s] = Empty]
  /\ sum' = [sum EXCEPT ![s] = 0] /\ err' = [err EXCEPT ![s] = 0]
  /\ lost' = {m \in lost : m[1] # s}
  /\ UNCHANGED <<log, todo, tables>>

\* The process ends: 282-283 for an exception.
End(s) ==
  /\ pc' = [pc EXCEPT ![s] = "off"] /\ todo' = [todo EXCEPT ![s] = {}]
  /\ UNCHANGED <<log, db, pos, counters, tables, runs, lost>>

Kill(s) == "kill" \in Faults /\ pc[s] \notin {"off", "done"} /\ End(s)

\* (dt - start_dt).seconds: the days of the difference, -1 when it is
\* negative, are left out.
Elapsed(dt, start) == (dt - start) % Day

\* Mutant: the end of a window belongs to it.
WindowOver_Late(s) ==
  start_dt[s] # None /\ Elapsed(log[s][pos[s]].time, start_dt[s]) > Step

\* Mutant: a second too early.
WindowOver_Early(s) ==
  start_dt[s] # None /\ Elapsed(log[s][pos[s]].time, start_dt[s]) >= Step - 1

\* 205
WindowOver(s) ==
  start_dt[s] # None /\ Elapsed(log[s][pos[s]].time, start_dt[s]) >= Step

AtLine(s) == pc[s] = "lines" /\ pos[s] <= Len(log[s])
AtEnd(s)  == pc[s] = "lines" /\ pos[s] > Len(log[s])

\* 220-231: counters of a plugin; a src has one when it was seen.
\* Mutant: err is only made when it is counted.
NewCounter_Partial == [k \in {"detect", "sum"} |-> 0]

NewCounter == [k \in {"detect", "sum", "err"} |-> 0]
Bump(counter, k) ==
  [j \in DOMAIN counter \cup {k} |->
    (IF j \in DOMAIN counter THEN counter[j] ELSE 0) + (IF j = k THEN 1 ELSE 0)]
Counter(s, p) == IF p \in DOMAIN res[s] THEN res[s][p] ELSE NewCounter
SetCounter(s, p, counter) ==
  res' = [res EXCEPT ![s] =
           [q \in DOMAIN @ \cup {p} |-> IF q = p THEN counter ELSE @[q]]]

Faulty(e) == e.src \notin src_type \/ e.plugin \notin DOMAIN plugin_dict
Raised(e) == e.plugin # None /\ ~Faulty(e) /\ parse_func(e) = "raises"

\* 201-203, 212-248: a line is counted.
Count(s) ==
  /\ AtLine(s) /\ ~WindowOver(s)
  /\ LET e == log[s][pos[s]]
         seen == Bump(Bump(Counter(s, e.plugin), e.src), "sum") IN
     /\ ~Raised(e)
     /\ start_dt' = [start_dt EXCEPT ![s] = IF @ = None THEN e.time ELSE @]
     /\ sum' = [sum EXCEPT ![s] = @ + 1]
     /\ IF e.plugin = None
        THEN err' = [err EXCEPT ![s] = @ + 1] /\ UNCHANGED res
        ELSE IF Faulty(e)
        THEN err' = [err EXCEPT ![s] = @ + 1] /\ SetCounter(s, e.plugin, Bump(seen, "err"))
        ELSE /\ UNCHANGED err
             /\ SetCounter(s, e.plugin,
                  IF parse_func(e) = "found" THEN Bump(seen, "detect") ELSE seen)
  /\ pos' = [pos EXCEPT ![s] = @ + 1]
  /\ UNCHANGED <<log, pc, db, todo, tables, runs, lost>>

\* 246-247: the parse function does not find what it expects in the JSON.
ParseRaises(s) ==
  /\ AtLine(s) /\ ~WindowOver(s)
  /\ Raised(log[s][pos[s]])
  /\ End(s)

\* Mutant: the last window is left.
Finish_NoFlush(s) ==
  /\ AtEnd(s)
  /\ IF db[s] THEN pc' = [pc EXCEPT ![s] = "done"] /\
                   UNCHANGED <<log, db, pos, counters, todo, tables, runs, lost>>
     ELSE End(s)

\* 250-253: nothing is left to insert.  Without a connection close() raises.
Finish(s) ==
  /\ AtEnd(s) /\ DOMAIN res[s] = {}
  /\ IF db[s] THEN pc' = [pc EXCEPT ![s] = "done"] /\
                   UNCHANGED <<log, db, pos, counters, todo, tables, runs, lost>>
     ELSE End(s)

\* 205-206, 250-251.  Without a connection the name `db' is unbound.
Flush(s) ==
  /\ (AtLine(s) /\ WindowOver(s)) \/ (AtEnd(s) /\ DOMAIN res[s] # {})
  /\ IF db[s]
     THEN /\ pc' = [pc EXCEPT ![s] = "plugins"]
          /\ todo' = [todo EXCEPT ![s] = DOMAIN res[s]]
          /\ UNCHANGED <<log, db, pos, counters, tables, runs, lost>>
     ELSE End(s)

-----------------------------------------------------------------------------
(* insert_db                                                               *)

Get(counter, k) == IF k \in DOMAIN counter THEN counter[k] ELSE 0

\* `id' tells rows apart that are equal otherwise: MySQL numbers them, here it
\* is the run that inserted them.
PluginRow(s, p) ==
  LET c == res[s][p] IN
  [id |-> runs[s], plugin |-> p, server_addr |-> s, date_time |-> start_dt[s],
   push |-> Get(c, "push"), pull |-> Get(c, "pull"),
   detect |-> c["detect"], sum |-> c["sum"], err |-> c["err"]]

HttpRow(s) ==
  [server_addr |-> s, sum |-> sum[s], err |-> err[s], date_time |-> start_dt[s]]

\* Mutant: the table has no unique key.
SameKey_None(a, b) == FALSE

\* nginx_log_statics.sql 12
SameKey(a, b) == a.plugin = b.plugin /\ a.date_time = b.date_time

\* 130-147: MySQL takes the row or refuses it, and the loop goes on.
InsertPlugin(s) ==
  /\ pc[s] = "plugins"
  /\ \E p \in todo[s] :
       LET row   == PluginRow(s, p)
           there == {b \in log_statics : SameKey(row, b)} IN
       /\ todo' = [todo EXCEPT ![s] = @ \ {p}]
       /\ \/ /\ there = {}
             /\ log_statics' = log_statics \cup {row} /\ UNCHANGED lost
          \/ /\ there # {} \/ "insert" \in Faults
             /\ lost' = IF \E b \in there : [b EXCEPT !.id = row.id] = row THEN lost
                        ELSE lost \cup {<<s, "plugins">>}
             /\ UNCHANGED log_statics
  /\ UNCHANGED <<log, pc, db, pos, counters, http_statics, runs>>

\* Mutant: the counters of the last window go on.
NextWindow_Counts(s) ==
  IF pos[s] <= Len(log[s])
  THEN /\ pc' = [pc EXCEPT ![s] = "lines"]
       /\ start_dt' = [start_dt EXCEPT ![s] = log[s][pos[s]].time]
       /\ UNCHANGED <<sum, err>>
  ELSE pc' = [pc EXCEPT ![s] = "done"] /\ UNCHANGED <<start_dt, sum, err>>

\* 207-210: the next window starts with the line that ended this one.  252-253
NextWindow(s) ==
  IF pos[s] <= Len(log[s])
  THEN /\ pc' = [pc EXCEPT ![s] = "lines"]
       /\ start_dt' = [start_dt EXCEPT ![s] = log[s][pos[s]].time]
       /\ sum' = [sum EXCEPT ![s] = 0] /\ err' = [err EXCEPT ![s] = 0]
  ELSE pc' = [pc EXCEPT ![s] = "done"] /\ UNCHANGED <<start_dt, sum, err>>

\* 149-157: the row for HTTP.  When the window had no plugin, its date is
\* unbound; that is caught like any error.
InsertHttp(s) ==
  /\ pc[s] = "plugins" /\ todo[s] = {}
  /\ LET row   == HttpRow(s)
         there == {b \in http_statics : b.server_addr = s /\ b.date_time = start_dt[s]} IN
     \/ /\ DOMAIN res[s] # {} /\ there = {}
        /\ http_statics' = http_statics \cup {row} /\ UNCHANGED lost
     \/ /\ DOMAIN res[s] = {} \/ "insert" \in Faults \/ there # {}
        /\ lost' = IF row \in there \/ DOMAIN res[s] = {} THEN lost
                   ELSE lost \cup {<<s, "http">>}
        /\ UNCHANGED http_statics
  /\ res' = [res EXCEPT ![s] = Empty]
  /\ NextWindow(s)
  /\ UNCHANGED <<log, db, pos, todo, log_statics, runs>>

-----------------------------------------------------------------------------
AllRun == (\A s \in Servers : pc[s] \in {"off", "done"} /\ runs[s] = MaxRuns[s]) /\ UNCHANGED vars

Next ==
  \/ \E s \in Servers :
       \/ Start(s) \/ Kill(s) \/ Count(s) \/ ParseRaises(s) \/ Finish(s) \/ Flush(s)
       \/ InsertPlugin(s) \/ InsertHttp(s)
  \/ AllRun

Spec == Init /\ [][Next]_vars

-----------------------------------------------------------------------------
(* Properties                                                              *)

Rows == [id : Nat, plugin : Plugins, server_addr : Servers, date_time : Nat,
         push : Nat, pull : Nat, detect : Nat, sum : Nat, err : Nat]
IsCounter(c) ==
  /\ c \in [DOMAIN c -> Nat]
  /\ {"detect", "sum", "err"} \subseteq DOMAIN c
  /\ DOMAIN c \subseteq Srcs \cup {"detect", "sum", "err"}

(* Every variable has a value of its type; a plugin row cannot be inserted *)
(* before its window has a start.                                          *)
TypeOK ==
  /\ \A s \in Servers : log[s] \in Logs[s] /\ runs[s] <= MaxRuns[s]
  /\ pc \in [Servers -> {"off", "lines", "plugins", "done"}]
  /\ db \in [Servers -> BOOLEAN]
  /\ \A s \in Servers : pos[s] \in 1..(Len(log[s]) + 1)
  /\ start_dt \in [Servers -> Nat \cup {None}]
  /\ \A s \in Servers :
       /\ DOMAIN res[s] \subseteq Plugins
       /\ \A p \in DOMAIN res[s] : IsCounter(res[s][p])
       /\ todo[s] \subseteq DOMAIN res[s]
       /\ pc[s] = "plugins" => start_dt[s] # None
  /\ sum \in [Servers -> Nat] /\ err \in [Servers -> Nat]
  /\ log_statics \subseteq Rows
  /\ http_statics \subseteq [server_addr : Servers, sum : Nat, err : Nat, date_time : Nat]
  /\ runs \in [Servers -> Nat] /\ lost \subseteq Servers \X {"plugins", "http"}

\* WindowStart(l)[k]: the line that starts the window of line k.
WindowStart(l) ==
  LET start[k \in DOMAIN l] ==
        IF k = 1 THEN 1
        ELSE IF Elapsed(l[k].time, l[start[k - 1]].time) >= Step THEN k ELSE start[k - 1]
  IN  start
Window(l, i) == LET start == WindowStart(l) IN {k \in DOMAIN l : start[k] = i}

\* What a log says of the plugin p, and of HTTP, in the window from line i.
RowOf(id, s, p, i) ==
  LET l     == log[s]
      mine  == {k \in Window(l, i) : l[k].plugin = p}
      wrong == {k \in mine : Faulty(l[k])} IN
  [id |-> id, plugin |-> p, server_addr |-> s, date_time |-> l[i].time,
   push |-> Cardinality({k \in mine : l[k].src = "push"}),
   pull |-> Cardinality({k \in mine : l[k].src = "pull"}),
   detect |-> Cardinality({k \in mine \ wrong : parse_func(l[k]) = "found"}),
   sum |-> Cardinality(mine), err |-> Cardinality(wrong)]

HttpRowOf(s, i) ==
  LET l     == log[s]
      lines == Window(l, i) IN
  [server_addr |-> s, date_time |-> l[i].time, sum |-> Cardinality(lines),
   err |-> Cardinality({k \in lines : l[k].plugin = None \/ Faulty(l[k])})]

(* Every row says what one whole window of its server's log says, also     *)
(* when it was inserted by a run that ended half way or was repeated.      *)
RowsAreWindows ==
  /\ \A row \in log_statics : \E i \in DOMAIN log[row.server_addr] :
       row = RowOf(row.id, row.server_addr, row.plugin, i)
  /\ \A row \in http_statics : \E i \in DOMAIN log[row.server_addr] :
       row = HttpRowOf(row.server_addr, i)

\* The windows that the last run of s has put behind it.
EndedWindows(s) ==
  LET start == WindowStart(log[s]) IN
  {i \in 1..(pos[s] - 1) : start[i] = i /\ (i < start[pos[s] - 1] \/ pc[s] = "done")}
PluginsOf(s, i) == {log[s][k].plugin : k \in Window(log[s], i)} \ {None}

Stored(s, p) ==
  MapThenSumSet(LAMBDA row : row.sum,
    {row \in log_statics : row.server_addr = s /\ row.plugin = p})
Logged(s, p) == Cardinality({k \in DOMAIN log[s] : log[s][k].plugin = p})

(* A script that is run again, after a kill or an exception or by mistake, *)
(* counts no reply twice: the unique key refuses the rows that are there.  *)
NoReplyTwice == \A s \in Servers, p \in Plugins : Stored(s, p) <= Logged(s, p)

(* What a run has put behind it is in the table, whatever ends the run     *)
(* later, an exception of a parse function or a kill: every ended window   *)
(* has its row for each plugin, the last window of the log included, if    *)
(* the table took what it was given.                                       *)
CompleteRun ==
  \A s \in Servers : <<s, "plugins">> \notin lost =>
    \A i \in EndedWindows(s) : \A p \in PluginsOf(s, i) :
      \E row \in log_statics : row = RowOf(row.id, s, p, i)

(* The same for HTTP, as far as 149-157 go: a window has its row if it has *)
(* any plugin.                                                             *)
CompleteHttp ==
  \A s \in Servers : <<s, "http">> \notin lost =>
    \A i \in EndedWindows(s) : PluginsOf(s, i) # {} => HttpRowOf(s, i) \in http_statics

(* `step_seconds' (278): two windows of a server start at least that long  *)
(* after each other.                                                       *)
WindowsApart ==
  \A a, b \in http_statics :
    a.server_addr = b.server_addr /\ a.date_time < b.date_time =>
      b.date_time - a.date_time >= Step

(* nginx_log_statics.sql:4 keeps the address of the server (`server_addr', *)
(* `server ip') in each row: every server has rows of its own.             *)
RowsPerServer ==
  \A s \in Servers :
    pc[s] = "done" => \A p \in Plugins : Stored(s, p) = Logged(s, p)

=============================================================================
