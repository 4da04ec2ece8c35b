# Verification of ngx_mod_imgpredictor

TLA+ models, TLC runs and TLAPS proofs for `ngx_mod_imgpredictor`: an nginx module that
takes images, or links to images, from clients, hands them to image plugins, and replies with
the JSON that the plugin computes; with the scripts around it that rotate, count and upgrade.
Line numbers `cpp:`, `h:` and `py:` below are those of
`src/ngx_http_graph_module/ngx_http_graph_module.cpp`, `PluginSlot.h` and
`src/log_statics/statics_imaginx_log.py`; other files are named.

    tlc -workers 2 -config GraphWorkerSafety.cfg MCGraphWorker      # a run
    tlapm GraphWorker_proofs.tla                                    # the proofs of a module

## 1. The system

### Components

| component | state | operations | modelled in |
|---|---|---|---|
| Request handling in a worker (`ngx_http_graph_module.cpp`) | per location: `type`, `ext`, `out_cl`, `temp_file_vec`, `temp_file_cur_idx`, `max_body_len` (never read); per request (nginx): body, reference count, pending output; on disk: temporary files | content handler, body callbacks `handler1` (push) and `handler2` (pull), curl download and its write callback, `client_send` | `GraphWorker` |
| Plugin slot (`PluginSlot.*`, directive `fp`) | `_pinfo_list`, libraries opened with `dlopen`, and the global data of those libraries | `load`, `run_all_init`, `insert_plugin`, `run_process_by_name`; `split`, `url_decode` | `PluginSlot`, `UrlText`; `run_process_by_name` in `GraphWorker` |
| Statistics (`statics_imaginx_log.py`, `nginx_log_statics.sql`) | window start, counters per plugin, two MySQL tables that all servers share | `log_statics`, the parse functions, `insert_db` | `LogStatics` |
| Log rotation and nightly jobs (`log_rotate.sh`, `cron.lst`, `run_statics.sh`) | log files, the descriptors workers hold on them, `client_body_temp` and what is in it | mv, USR1, the statistics, find -exec rm | `Nightly` |
| Restart and upgrade (`ngx_restart.sh`, `upgrade_ngx.sh`) | pid files, old and new master | USR2, QUIT | `Upgrade`, composed with the above in `Nightly` |
| nginx configuration (`nginx.conf.tpl`, `dl_lib_info.conf.tpl`) | none | what the models depend on: `error_page`, `client_body_buffer_size`, the location's `error_log`, the fields of a plugin line | parts of `GraphWorker`, `PluginSlot`, `Nightly`, `UrlText` |
| MySQLdb (`mysql_lib_26/MySQLdb`) | connection: wire, transaction, character set, conversions; cursor: result, position, warnings | `Connection` and the two kinds of cursor; conversions of values and of types | `Connections`, `Cursors`, `Converters`, `Times` |
| Monitoring, installation, build files | none | print counters, copy and compile files | not modelled: pure I/O |

### How they interact

- nginx's event loop calls the content handler; the handler registers a callback for the body
  and nginx calls it back, before the handler returns or much later. The callback downloads
  with `curl_easy_perform`, which calls the write callback; the two find each other through
  the location's configuration (`temp_file_vec`, `temp_file_cur_idx`), and so does the reply
  (`out_cl`). The configuration outlives requests and is the same for all of them.
- The callback calls a function in a plugin library, through the slot that the master filled
  before it forked the worker. The library keeps its model in its own global data, which
  belongs to the process and not to the slot.
- The reply is also logged (cpp:328, 596). At night cron moves the log, tells the master in
  `nginx.pid` to have it reopened, and nine minutes later starts the script on the moved file;
  it inserts rows into tables that all servers share. Another job removes old images from the
  directory into which workers write new ones.
- `ngx_restart.sh` puts two masters side by side, each with workers, log descriptors and a pid
  file. Nothing keeps it from running at 00:01.
- The statistics use `_mysql`, the compiled part of MySQLdb; the Python part beside it has
  cursors that share one connection, and connections that share one table of conversions.

### What is hard, and what makes each component correct

- *Worker.* One thread, but many requests: while bodies are read and replies are flushed they
  interleave over one shared configuration; every call may fail at a point where shared state
  is half updated; a reference count must come out right whether the callback runs inside the
  handler or later; a crash hits the requests of others. Correct is: one finalization on every
  path, counts equal to holders, each image in its own file, each client its own JSON, and
  nobody waits for ever.
- *Plugin slot.* The token loop reads its last token twice; a failing load closes libraries
  that others have open; reloads run handlers on the global data of a running configuration.
  Correct is: the slot is the list, every handler is mapped, a worker has the model its
  configuration names.
- *Statistics.* Rows are committed one by one by a process that may die at any point and is
  started again by hand; windows are cut by the times of lines that several workers wrote.
  Correct is: every row is one whole window, nothing is counted twice, what a run has put
  behind it is in the tables.
- *Nights and restarts.* Signals are sent without looking at who gets them; pid files are
  renamed and removed by masters that do not know of each other's end; workers write on into
  a file that has another name. Correct is: there is always an nginx, its pid files lead to it, a reply
  is counted in one night, an image is there as long as it should be.
- *MySQLdb.* The wire holds one thing at a time and any cursor may have left it there; a
  failing query, a nextset or a SHOW WARNINGS changes what the next call finds. Correct is: rows in
  order and of the query they are asked of, blocks that are atomic, closed cursors that leave a free
  connection, tables that no connection spoils for another.

All hazards, each at its line and with the properties that cover it, are in
`PROJECT.json` under `hazards`.

## 2. Plan

In the order of writing. All of it is done.

1. `GraphWorker`: the worker, because it is the product. `MCGraphWorker` instantiates it.
2. `ImageService`: the abstract service that clients see; `GraphWorker` is shown to implement
   it, as a PROPERTY of a run and as a theorem. `GraphWorker_proofs`.
3. `PluginSlot` with `MCPluginSlot`: what the configuration phase and reloads leave to workers.
4. `LogStatics` with `MCLogStatics`: the nightly count, the parse functions included.
5. `Upgrade` and `Nightly`: two masters, their pid files and logs; rotation, statistics and
   removal of images composed with restarts.
6. `Texts`, `UrlText`: the texts that the nginx module takes apart, as functions checked
   against reference definitions.
7. MySQLdb: `Connections` and `Cursors` with `MCCursors`; `Converters` and `Times`; `Values`, whose inputs
   go to `UrlText` and `Times`, and which `MCValues` instantiates together with `Converters`.
8. `PluginSlot_proofs`, `Nightly_proofs`, `LogStatics_proofs`, `Converters_proofs`, `Cursors_proofs`: every
   safety property of the runs of these components, for all values of the constants; with `Induction`,
   which the loops, folds and sums need.
9. `Texts_proofs`: the properties of `UrlText` for every text, those of `Times` for every duration
   and every date, and with them those of `Values`.

`GraphWorker` takes the content of the slot as the constants `Loaded` and `NeedsExt`, and the
addresses of a body as `query[r].urls`; a run of `PluginSlot` shows which slots there are, and
`UrlList` which addresses. `Nightly` takes a request as one step, and gives `LogStatics` what its
`Logs` assume: that the file of a night is complete and its replies are in no other. `LogStatics` sees of
MySQLdb that a query succeeds or raises.

## 3. The modules

### GraphWorker

One worker process and the location of the `fp` directive. An action is a stretch of code in
which nothing else can run and at whose ends something is decided outside: by nginx, by curl,
by a plugin.

| in the model | in the code |
|---|---|
| `phase[r]`, `refs[r]`, `out[r]`, `got[r]` | nginx: life of a request, `r->main->count`, output that the client has not read, what it received |
| `type`, `out_cl`, `temp_file_vec`, `temp_file_cur_idx` | the fields of `ngx_http_graph_loc_conf_t`; `type` and `out_cl` name the request whose memory they point into |
| `cur`, `pc`, `inline` | the running callback, and whether it was called inside the content handler |
| `todo`, `pieces`, `image_name_vec` | locals of `handler2` and the progress of curl |
| `disk`, `called`, `torn` | the temporary files; history: the plugin call made for a request, requests with a failed write |
| `Refuse`, `WildSrc`, `ReadAtOnce`, `ReadLater`, `ReadFails` | `ngx_http_graph_handler` (cpp:172-225), by the outcome of reading the body |
| `BodyComplete`, `BodyFails` | nginx: the rest of the body |
| `Push` | `handler1` up to the call (cpp:280-309) |
| `Pull`, `PullRefused`, `NextImage`, `CreateFails`, `FetchDone`, `FetchFails` | `handler2` (cpp:467-561), `create_temp_file`, `curl_get` |
| `Receive`, `WriteFails`, `ReceiveAfterFinalize` | the write callback (cpp:357-384) |
| `NoPlugin`, `CallFails`, `CallPlugin`, `PluginReturns`, `PluginFails`, `AllocFails`, `ClientSend` | the common end of both callbacks (cpp:296-353, 565-621) with `run_process_by_name` |
| `UseAfterFinalize`, `NoBody`, `PluginCrashes`, `WildSrc` | ways in which the worker dies; `WorkerDies` is what nginx does then |
| `Return`, `Flush`, `ClientGone` | back to the event loop; nginx's writer |

Data is abstracted: the JSON computed for `r` is `r`; an image is a sequence of pieces
`<<url, i>>`; a body is one of the shapes that the code tells apart (`Bodies`); a `src` that
begins with `pull` or `push` is that value, because the code compares four characters. Undefined behaviour is a choice: the uninitialized `value` (cpp:185) reads as any
value or as a wild pointer, `glcf->type` into freed memory reads as any name, a request that
the write callback finalized is used until the first step that must fault. (A program that
writes behind freed memory could do anything; the model has it die or go on.)

### ImageService

The abstract service: `Ask`, `Refuse`, `Compute`, `Reply`, `Lose`, `Spoil` on what clients
can see. At most one answer; an error or the JSON for the plugin and the images named, in
their order; a crash answers all open requests with `lost`. `ImplementsService` in
`GraphWorker` is the refinement mapping.

A request whose temporary file could not be written is `spoiled`: the code then runs a
finalized request (cpp:376-382). The service promises only that its answer is an error. The
same requests (`torn`) are left out of `ReferencesCounted`, `FinalizedOnce` and
`PluginSeesItsImages`; they are not left out of `TypeOK`, `ReplyIsOwn`, `ArrivedIsClosed`.

### PluginSlot

The master and some of its workers. `Open`, `Skip`, `LineFails`, `SymbolFails` and `LoadPlugin`
are `PluginSlot::load`, one token each; `InitPlugin`, `InitFails`, `InitDone` are `run_all_init` and
nginx taking the new cycle; `Reject` is a failing directive at a start (nginx exits) or at a reload
(it goes on with the old cycle). `dl` counts how often a library is open, `model` is what its
last init handler was given. `Edit` changes the list on disk at any time. The workers of the
model are watched ones among the workers of nginx: after a reload they may belong to the old cycle,
the new one, or neither.

### LogStatics

One process per server over its log, and the shared tables. `Count` and `ParseRaises` are the loop over
lines, `Flush` the call of `insert_db`, `InsertPlugin` and `InsertHttp` one INSERT each, `Start`,
`Kill`, `End` and `Finish` the process. A log line is abstracted to its time, its plugin and src, and the
structure of its JSON; lines that match no regular expression do not occur in
`Logs`, as the script skips them. `(dt-start_dt).seconds` is modelled modulo a day (`Elapsed`).
The parse functions (py:42-125) work on values tagged with their kind, and give "found",
"nothing" or "raises": a null, a number or a text where they expect an object ends the script.
`lost` is history: where the table refused a row, or the insert failed, `CompleteRun` and `CompleteHttp`
promise nothing.

### Upgrade and Nightly

`Upgrade`: `SendUSR2` and `SendQUIT` are the two lines of `ngx_restart.sh`; the other actions
are nginx, as far as the script meets it (nginx is not in the repository: these definitions are marked
external, after nginx 1.9's `ngx_process_cycle.c`). A master sees a signal when it wakes (`Wake`),
with QUIT before USR1 before USR2; it renames its pid file then, so the QUIT of the script may
come too early. A new binary opens its files (`Load`), then writes `nginx.pid` (`Up`), or ends
(`Fail`), which its parent notices later (`Reap`). `Exit` removes a pid file, `Start` is the operator.

`Nightly` EXTENDS it: each action of a master takes its log descriptors along, `MoveLogs` and
`SendUSR1` are `log_rotate.sh`, `Statistics` is `run_statics.sh` with the file it names, `FindTemp`
the removal. Cron's three jobs are minutes apart and are taken in their order; everything else may
come between them, or in the middle of one. Files are numbered by the night before which they
were made; time, for find, is the number of nights. The workers of a master stand for one, and each
request leaves an image and a line.

### Connections and Cursors

A connection serves one call at a time, so a method is an operator from what it finds, `s`
(connection, cursors, whether it raised, what it returns), to what it leaves; `Then` is the
sequence of two steps, of which an exception skips the second. `query`, `next_result` and the
other externals are `_mysql` and the server: one query has several statements, which the server
runs at once and whose results the client takes one by one. `Cursors` has an action for each
call: `Execute`, `ExecuteMany`, `ExecuteInsert` (a batch that becomes one INSERT), `CallProc`, `Fetch`,
`Scroll`, `NextSet`, `Close`, `Collect` (`__del__`), `Session`, `Enter` and `Exit` of a block.
Rows are named by query, set and number. History is `stored` and `written` on the server, `ended`, and for each
cursor what its client has of the current set: the rows `got`, put together from all fetches, from row `from` on (0
when the set is taken, see `_do_get_result`; the target after `scroll`), and whether rows were thrown away
(`skipped`). `From`, `Hand` and `Skip` keep it; no step depends on it. So what a fetch returns is compared with all
that was handed out before, whatever came between, and not with the cursor's own position.

### Converters, Times, UrlText, Texts, Values

Pure functions, and the tables they stand in. `Texts` is what Python and the C library do with
texts, a text being a sequence of characters. `UrlText` has the loop over addresses
(cpp:525-542), `split` and the test of a line (PluginSlot.cpp:26-42, 87-100), and `url_decode` with
the variable `ii` that keeps its value (PluginSlot.cpp:44-63). `Times` has times.py, with the texts
that MySQL prints as reference. `Converters` has the table `conversions`, the copy that each connection makes of
it and the lists it appends to, as a heap; `Instance2Str`, with the order of a dictionary's keys as a
choice; and the type objects of `__init__.py`. `Values` puts texts and values together piece by piece, from sets of pieces
that are constants, and states of each input what `UrlText` and `Times` promise of one.

### Why the mutants are in the modules

Each property names a plausible bug: an operator such as `ResetFiles_KeepsIndex`
stands before `ResetFiles` and is used nowhere. With it in place of the original the property
must fail. `PROJECT.json` lists the pairs.

## 4. The runs

| run | instance | shows |
|---|---|---|
| `worker_safety` | 2 requests, 14 kinds of request, 3 plugin names, 2 images (2 pieces and 1), all faults, symmetric requests | `TypeOK`, `ReferencesCounted`, `FinalizedOnce`, `CurrentFileIsOwn`, `PluginSeesItsImages`, `ReplyIsOwn`, and `ImplementsService` |
| `worker_live` | 2 requests, 4 kinds, all faults, FairSpec | `ArrivedIsClosed` |
| `plugin_load` | 9 lists, 3 loads, edits, 2 plugins, 3 libraries of which one is missing, 1 watched worker | `TypeOK`, `SlotIsList`, `HandlersMapped`, `ModelAsConfigured`, `LoadEnds` |
| `statistics` | 2 servers, 6 logs and 1, 7 plugins, 11 replies, one server runs twice, all faults | `TypeOK`, `RowsAreWindows`, `NoReplyTwice`, `CompleteRun`, `CompleteHttp`, `WindowsApart` |
| `nightly` | 3 masters, 4 nights, 3 requests or restarts, either log of the configuration | `ServiceGoesOn`, `FilesNameMasters`, `RepliesCounted`, `ImagesKept` |
| `mysqldb` | 2 clients: two cursors and 2 queries of 7 kinds; one cursor, 3 queries, transactions and 3 character sets | `TypeOK`, `WireOwned`, `FetchIsNext`, `FetchedAll`, `RowsOfExecuted`, `CloseFrees`, `CloseRaises`, `WarningsShown`, `AtomicBlocks`, `CharsetInSync` |
| `values` | texts of up to 7, 9 and 6 characters, 756 durations, 24696 dates; 2 connections, 4 instances of 5 classes | `UrlsInOrder`, `FieldsOfLine`, `ExtDecoded`, `DurationsSurvive`, `DatesSurvive`, `OwnDecoders`, `SameConversion` |
| `silent_origin` | no faults, origins unfair | violation of `BodyIsServed` |
| `split_body` | no faults, well-formed requests | violation of `LinksAnswered` |
| `no_args` | no faults, one request kind without arguments | violation of `SrcRequired` |
| `late_lines` | one log with a line one second late | violation of `WindowsApart` |
| `same_key` | two servers, windows from the same second | violation of `RowsPerServer` |

### Bounds, and why they are enough

- *Requests.* What requests share is one configuration and one thread; each property relates
  one request to itself or to the one that left its traces. Two
  requests give every order of read, callback and pending reply of the two; a third meets the
  same configuration as the second. The theorems remove this bound.
- *Images.* Two addresses of two and one pieces make the index move, a second piece follow a
  first, and a failure strike before, in and after an image. A body may list none, or one twice.
- *Plugin lists.* The nine lists have a comment, a doubled name, a library shared by two
  plugins, a bad token, a missing library, a missing symbol, an empty file, no file and a directory,
  with and without a last newline. Three loads are a start and two reloads, so a failed one
  between two others. `MaxLoads` is the only counter that is cut.
- *Logs.* Windows of 3 seconds in days of 12 put lines inside, on and behind the end of a
  window; one window has no plugin, one request has a src the script does not know, one a
  plugin it does not know, parse functions meet replies they find something in, nothing in, and
  raise on. The second server may have a row of the key of
  the first one's, which makes it lose rows and the first one's rerun meet foreign rows. `MaxRuns` bounds
  repetitions: the second run meets each possible rest of the first, a third would too.
  Logs of `statistics` are in the order of time; `late_lines` is the run for those that are not.

- *Nights and restarts.* Three masters, because the properties say that there are never more than
  two alive: a third one would show (numbers of masters that have gone are used again). `MaxEvents`
  = 3 is a request or a restart before, in and after another one; restarts that overlap a
  rotation, and two in a row of which the first lost its QUIT, are among them. `MaxDays` = 4 is as long as find
  waits: a file of the first day goes in the fourth night.
- *Cursors.* What two cursors can do to each other is done over one wire, and a third would find
  it in the same states. The queries have one set, two and three; with and without rows,
  warnings, a failing statement first and last. `client.queries` bounds the queries and
  `client.cursors` the cursors: two queries are one to be read and one that comes between; three are writes
  before, in and after a block. Symmetry exchanges cursors.
- *Values.* Each letter stands for a class that the code tells apart (`MCValues!MCLetters`): separator,
  NUL, any other; `%`, hexadecimal digits, a sign, no digit. The lengths give an escape behind an
  escape, and lines of more than six fields. Dates and durations have the edges of each piece:
  February of four kinds of year, the first and last hour of a day, durations on both sides of
  zero and of a day, fractions with zeros in front and behind. `MaxConns` and `MaxUses` bound connections and
  conversions: a class and its ancestor, on two connections, in either order.

`nightly` and `values` stop when their bounds are reached, and do not check for deadlock; elsewhere
`AllServed` and `AllRun` say that an instance has come to its end, so that TLC can check for
deadlock.

### Fairness

`GraphWorker.FairSpec`: weak fairness of the callback (its thread runs on), of the body (bytes
come, or `client_body_timeout`), of the writer (the client reads, or `send_timeout`), and of
origins and plugins. The last two are an assumption, and `ArrivedIsClosed` depends on it: the
code limits only the connection phase of a download (cpp:404) and plugins not at all.
`SilentOriginSpec` is the same without the fairness of origins, and `silent_origin` shows what
follows. Arrivals are not fair. `PluginSlot.FairSpec`: the master
runs on, and a worker that is told to quit does, or a dead one is forked again. Editors, reloads and crashes are not fair.

### Disagreements met

1. *silent_origin.* A download stops the whole worker, and nothing ends it
   (cpp:411, only CURLOPT_CONNECTTIMEOUT). README.md:27 calls the module fully asynchronous.
2. *split_body.* A list of links whose first bytes came with the header is answered with 500:
   cpp:481-494 copies only `memory` buffers, nginx's are `temporary`. README.md:23 promises the result.
3. *no_args.* Without a query string `src` is not required (cpp:186) but read uninitialized
   (cpp:205); a plugin may run, the one that an earlier request named.
4. *late_lines.* `.seconds` of a negative difference is nearly a day (py:205): a line one
   second late ends the window. Lines are late in practice, since a worker logs with the clock
   of the start of its callback.
5. *same_key.* The unique key of `log_statics` has no server (sql:12): of two servers with the
   same window start one loses its row.

Not counted as disagreements, because nothing in the repository says otherwise; the properties
name them as exceptions, or are stated so that they hold beside them:

- *Statistics.* An HTTP row is lost for every window without a `plugin=..&src=..` line, because names
  are unbound at py:150. One reply with unexpected JSON ends the script (py:247), and so every run over the same log.
- *Nights.* The location logs to `err_info.log` (nginx.conf.tpl:57) while the scripts read
  `error.log`: with the templates as they are no reply is counted. During a restart only the
  master in `nginx.pid` gets USR1; the other one's replies go on into the moved file, and
  those that come after the statistics are never counted. After three nights without a request, find removes
  `client_body_temp` itself, and every request fails until nginx is started again.
- *Restarts.* A QUIT that comes before the pid file is renamed is lost: two masters run, until the
  next restart, whose USR2 is ignored and whose QUIT ends the older one. If the new binary ends after the
  old one got its QUIT there is no nginx until an operator starts one.
- *Cursors.* An SSCursor whose set has warnings cannot advance or close while more sets are
  pending, and its `nextset` raises when the new set has them; a default cursor's `execute`
  raises if the first of several statements has warnings. An SSCursor that never executed
  can take another cursor's pending set when it is closed, and
  closing or collecting an idle cursor drains it. Deferred warnings of a stream may be another
  statement's. `executemany` with INSERT does not count as executed. An `__exit__` that raises
  leaves its writes to be committed by the next block. Rows are lost, which `FetchedAll` names: `nextset` and `close` throw away
  the rest of a set, also when they fail or no set follows (cursors.py:127-128), and `fetchall` of an SSCursor has
  read all rows when `_warning_check` raises because sets are pending (cursors.py:450-452).
- *Values.* A last address of one character is dropped (cpp:508, 525). A `%xx` that is no number decodes to what
  `ii` held before. Durations between minus one hour and zero are read without their sign, and negative ones
  that are no whole days are written as other ones. The codes of SHORT, NEWDECIMAL, BIT and
  GEOMETRY equal no type object; `==` of type objects is a subset test, so the empty ROWID equals all.
  A conversion kept for a class can hide one that is registered for a parent (converters.py:123).

## 5. The proofs

Each `X_proofs` module EXTENDS the modules of its component, states an invariant that is inductive,
proves it one action at a time, and takes the properties from it.

| module | theorem | property |
|---|---|---|
| `GraphWorker_proofs` | `TypeCorrect` | `TypeOK` |
| | `CountIsRight` | `ReferencesCounted` |
| | `OneFinalize` | `FinalizedOnce` |
| | `WritesToOwnFile` | `CurrentFileIsOwn` |
| | `RightImages` | `PluginSeesItsImages` |
| | `OwnReply` | `ReplyIsOwn` |
| | `WorkerImplementsService` | `ImplementsService` |
| `PluginSlot_proofs` | `Typing` | `TypeOK` |
| | `RightSlot` | `SlotIsList` |
| | `MappedHandlers` | `HandlersMapped` |
| | `RightModels` | `ModelAsConfigured` |
| `LogStatics_proofs` | `Typing` | `TypeOK` |
| | `WholeWindows` | `RowsAreWindows` |
| | `RowsOfRun`, `HttpOfRun` | `CompleteRun`, `CompleteHttp` |
| | `StepsApart` | `WindowsApart`, if the logs are in the order of time |
| | `OnceInRows` | `NoReplyTwice` |
| `Nightly_proofs` | `AlwaysServed`, `PidFiles` | `ServiceGoesOn`, `FilesNameMasters` |
| | `OnceAndInTime` | `RepliesCounted` |
| | `KeptInTime` | `ImagesKept` |
| `Cursors_proofs` | `Typing` | `TypeOK` |
| | `OneReader` | `WireOwned` |
| | `RowsInOrder`, `NothingLeft` | `FetchIsNext`, `FetchedAll` |
| | `OwnRows` | `RowsOfExecuted` |
| | `CloseRests`, `CloseReasons` | `CloseFrees`, `CloseRaises` |
| | `NotInSilence` | `WarningsShown` |
| | `AllOrNothing` | `AtomicBlocks` |
| | `SameCharset` | `CharsetInSync` |
| `Converters_proofs` | `DecodedByOwner` | `OwnDecoders` |
| | `ConvertedAlike` | `SameConversion` |
| | `TypesTell` | `TypesAgree`, which no run checks |
| `Texts_proofs` | `UrlsTakenInOrder` | `UrlsInOrder` |
| | `LineTakenApart` | `FieldsOfLine` |
| | `ExtIsDecoded` | `ExtDecoded` |
| | `DurationsComeBack` | `DurationsSurvive` |
| | `DatesComeBack` | `DatesSurvive` |

### GraphWorker

For every set of requests, queries, names, plugins, addresses and sizes, and every choice of faults.
*Assumptions:* `NoneAssumption` and `AnswerAssumption` (None and the
answers are no requests or names), `PluginAssumption` (plugins with `ext` are loaded, loaded ones
have names), `QueryAssumption`, `SizeAssumption` (sizes are naturals, 0 included), `FaultAssumption`.
Requests need not be finite.

*Argument.* The properties are not inductive: that a callback finalizes once needs what every
phase knows of its count and its answers. `IInv` is the conjunction of

- `ControlInv`: per phase, the values of `refs`, `got`, `out` and who runs (`PhaseInv`); for
  the running callback, its phase, what `torn` allows, `pc = "reply" => out_cl = cur`
  (`CallbackInv`). It gives `ReferencesCounted`, `FinalizedOnce` and, with `CalledInv`, `ReplyIsOwn`.
- `PullInv`: in the loop of `handler2`, vector, index, `todo` and `image_name_vec` advance together:
  the index is the number of finished images, the vector is one longer during a download, what
  is finished is whole and the current file holds the first `pieces` pieces. It gives `CurrentFileIsOwn`.
- `PushInv`, `UntouchedInv`: the file of a pushed image; a request whose callback has not begun
  has no file and no call. With `PullInv` they give `PluginSeesItsImages` at the call, and,
  as no later request writes into its files, ever after.

It is proved one action at a time, the control part first, since the data part needs it.
The refinement uses `RInv == IInv /\ CallNamed` and one lemma per group of actions
(`ArriveMaps`, `BodyMaps`, `OriginMaps`, `PluginMaps`, `CallMaps`, `CallbackMaps`, `WriterMaps`):
each maps to one step of the service or to a stutter, `CallPlugin` to `Compute`, `Return`
to nothing, `WorkerDies` to `Lose`.

### PluginSlot

For every set of lists, libraries, plugins and workers, and any number of loads. *Assumptions:* `NoneIsNew` (None is
no name, library or configuration), `RankIsOrder` (the names are ordered, as the keys of the map are), `TextsTyped`, `AbsentLibs`,
`LoadsBounded`. *Argument.* `ReadingInv` follows
the loop: the slot holds the first lines of the prefix read so far (`ReadSoFar`), and `line` is the
token before `pos`, so that the last token, which is extracted twice, is in the slot already. `MasterInv`
says what is left between loads, `ModelInv` that the handlers that have run have left their own model, unless a
later plugin of the same library (in the order of the map) or a failed reload came over it.
`HandlersMapped` needs that a library is open as often as slots use it, which is a statement about cardinalities.

### LogStatics

For every set of servers, plugins and logs, any step and any number of runs. *Assumptions:* `NonePlugin` (None is no
plugin and no time), `RepliesTagged`, `LogsTyped`, `StepInDay` (the step is less than a day), `FaultsNamed`,
`RunsBounded`. *Argument.* `ServerInv` says what the variables of the script are: in the lines, the counters are those of the
lines from the start of a window to `pos` (`Current`), and the tables have all earlier windows (`Done`);
while rows are inserted, also the rows that are not in `todo` any more (`Inserting`). `TableInv` says that every row is a
window, and that no two have one key. `WindowStart` is a recursive function: that its recursion has a
solution is proved from `Induction`. `NoReplyTwice` follows by a sum over disjoint windows.
`StepsApart` has the hypothesis `LogsInOrder`, which holds of the logs of the run `statistics`;
those of `late_lines` do not satisfy it, and there TLC shows the property violated.

### Upgrade and Nightly

For every number of masters, nights and events (`MaxMastersAssumption` and the like only say that they are
numbers). *Argument.* `Stages` lists what a restart can be in:
`Nobody`, `One` master, or `Two` of which one is the other's parent; each stage knows the pid files, and
which signals cannot be waiting. So a QUIT that comes too early, a binary that fails and a restart in the middle of another
one are transitions between stages, and there is no stage without a master but
after a failure. On it stand `FilesInv` (what is counted in a night is what was written into that night's file),
`ReopenInv` (who still has a moved log open will be told, and that USR1 is not lost in a QUIT) and `ImagesInv`.

### Connections and Cursors

For every set of cursors and programs, with queries of any number of statements and rows. *Assumptions:*
`CharsetsNamed`, `ClientsTyped`, and `NoneIsNoSet` (None is no result set). *Argument.* A method
is an operator, and each has a lemma: from a connection at rest (`Rest`) it leaves one at rest, also when it
raises half way; `FetchLeaves`, `NextSetLeaves`, `CloseLeaves`, `ExecuteLeaves` and so on. `Rest` is

- `Wire`: who reads has the wire, alone, and stands where it stands; otherwise the wire is free;
- `Rows` of every cursor: what it has stored is all of its set (`Full`), its position is inside, and what the client
  has are rows of the set in order (`Told`);
- `Later`: if all pending sets come, SHOW WARNINGS tells of the last of them;
- `Database`: `InSync` (character sets), `Written` and `Transaction` (what was written in a block is
  pending and not stored; a block that ended has left all or nothing).

`IInv` adds `Owned` and `Returned` (the last call's rows). `Owned` is `Belongs` (the set is of the cursor's last query, or was
taken over) and `At`: what the client has ends where the position is, or, once rows were thrown away, the position is at the
end of the set. With it the rows that a fetch returns continue those it has (`RowsJoin`), which is `RowsInOrder`; and a stored set is
fetched to its end, a stream read to its end, when nothing comes (`NothingLeft`). Between query and cursor
the connection is not at rest: `Announced` is what holds there. `close` is a loop of
`nextset` with as many rounds as there are sets, `executemany` a fold over a batch: both are unfolded
by induction, over the number of sets and over the batch.

### Converters

For every set of classes, ancestors, tables and connections; `ConvsAssumption` types the tables,
`AncestorsAssumption` the classes. *Argument.* `HeapInv` says that the four lists of `conversions` are as
they were and each connection has four lists of its own. `TableInv` says that the table of a connection is the one it was opened
with and the classes that were converted since (`Learned`), and that what an instance was converted by
is kept for its class, or it was taken for a string and nothing that fits has come since (`Kept`).

### Texts, UrlText, Times, Values

For every set of characters and texts of any length, and every choice of durations and dates. *Assumptions:*
`DurationsAssumption` and `DatesAssumption` (the parts are numbers, in the ranges that Python's and the server's types
have). *Argument.* The inputs of `Values` are made of the pieces that may come (`InputOK`), and each property
follows from a theorem about any one value: `EveryListTaken`, `EveryLineSplit`, `EveryExtRead`, `EveryDurationSurvives`,
`EveryDateSurvives`. These need no assumption and no state. A recursive function, and a fold, is
a CHOOSE of something that solves its equations, so each is first shown to have a solution: `FoldExists`,
`CutExists`, `SplitExists`, `DecimalSteps`, `NumberExists`. The equations run from the end of the text, hence
`Backwards`: a set of positions that has each one whose followers it has, has them all. Then

- `EveryLineSplit`: the fields found from a position on, put together again with their bars, are the text
  from there on (`Fields`), and no field has a bar.
- `EveryListTaken`: from a position on, the loop takes the first of the fields that are there, and leaves
  no more than one character (`Taken`).
- `EveryExtRead`: a position is inside an escape, which the loop has jumped over, or it is one of the decoded ones, in
  their order; so position `k` of the result is the `k`-th of those.
- `EveryDurationSurvives`, for any number of seconds in `Int` and any microseconds: digits are `Said` and read
  back (`PaddedSays`), three fields put together with colons are split into the same three (`ThreeFields`), a
  fraction fits a column of `n` digits if and only if it is a multiple of `Unit[n + 1]` (`FitsIs`), and
  hours, minutes and seconds are the parts of a number of seconds (`PartsOf`). The server's rounding down of a negative
  duration is `Opposite`.
- `EveryDateSurvives`, for years of up to four digits, months and days of up to two, whether a calendar has them
  or not, since MySQL has 0000-00-00: a text that says a day and a clock is read as those numbers (`StampRead`), all that
  is written says its value (`IsoSays`), the dash behind the year is what tells the forms apart
  (`AfterYear`), fourteen digits are six pieces (`SixPieces`), and eight are filled up to midnight
  (`MidnightRead`).

### Induction

The library's induction theorems take an operator as a parameter, which the provers cannot instantiate.
`Induction` states induction as facts about sets: a set of numbers that has 0 and every successor is all
numbers (`Numbers`), a set of finite sets that has the empty one and grows by one element has them all (`FiniteSubsets`),
and from them that a function applied n times exists (`Iterated`). They come from the theorem that no finite
set has an endless chain of smaller ones. `Minimum` and `Maximum` say what Min and Max choose.

### Only model-checked

Liveness (`ArrivedIsClosed`, `LoadEnds`), which is out of the prover's reach. The five violations are counterexamples of
TLC. Every safety property of the seven passing runs is a theorem. `TypesAgree` is only proved: it is about tables and
the copy that each connection has of one, and has no instance that is smaller than the tables.

## 6. What is not modelled, and what the properties leave out

Hazards that the models have and no property catches, because the behaviour is what the code does and nothing
in the repository promises another one; in `PROJECT.json` they have a note:

- A directory in place of the plugin list hangs nginx. `LoadEnds` is about regular files.
- A window without a plugin loses its HTTP row. `CompleteHttp` leaves it out; that no wrong row comes instead is in `RowsAreWindows`.
- A new binary that fails after the old one got its QUIT. `ServiceGoesOn` promises nothing from there on, and takes a master
  that is starting for a running one.
- What a `%xx` that is no number decodes to, and addresses behind a NUL: `ExtDecoded` bounds the length only, `UrlsInOrder` is about texts
  without NUL.
- The sign of durations between minus one hour and zero, and negative ones that are no whole days: `DurationsSurvive` names them.

`ReplyIsOwn` is about a request that sends what another one left in `out_cl`. It is not about a pending reply that is overwritten: nginx's
write filter copies the links of a chain, so in the model a reply that is sent is a value.

Not modelled:


- `erase_plugin` and the release of a slot, which nothing calls.
- The length of a log line: nginx cuts it at 2048 bytes, and a longer reply is skipped by the script's regular
  expression (cpp:596). One byte is written behind the buffer (cpp:509).
- nginx as a whole: only what the module and the scripts meet of it. In `Nightly`: more than one worker per master,
  process ids that are used again by other programs, a pid file that is still empty, `access.log`, and the removal
  of logs after thirty days (cron.lst.tpl:3).
- Chunked bodies, pipelining, HEAD requests, subrequests: nginx takes them the same way for this module,
  or refuses them before it.
- More than one worker: they share nothing but the temporary directory, where nginx makes
  names unique, and the log.
- The content of images, the regular expressions and the formats of log lines.
- Of MySQLdb: rows as dictionaries (cursors.py:465-541) and iterators, which fetch as the methods
  that are modelled do; names for constants other than FIELD_TYPE; the exception classes; servers before 4.1; literals of values
  that are no instances, except durations and times; instances of new-style classes and
  `object()` itself, for which `Instance2Str` calls itself without end.
- In the worker: a failed allocation in `client_send`, whose 500 the callers ignore (cpp:242-248, 351, 618), so
  that the request is finalized with NGX_OK and without a reply; `ngx_pcalloc` results that are not looked at (cpp:342, 365,
  474, 486, 609), where a failure is a crash; `create_temp_file` that fails before it appends to the vector (cpp:430-444: the model
  always appends, and nothing reads the entry after it); pending output of an error answer.
- In the configuration: a directive of another module that fails after all init handlers have run; more than one `fp`.
- The fallback of `set_character_set` for clients without it (connections.py:313-317), where `SET NAMES` is sent
  and `character_set_name()` goes on giving the old name: `CharsetInSync` is about clients that have it.
- The diagnostics of the server after a statement that failed (the model keeps those of the last one that did not).
- The nginx tarball, `ngx_monitor.sh`, `install.sh`, the copying in `upgrade_ngx.sh`.
