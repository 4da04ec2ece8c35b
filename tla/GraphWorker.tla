----------------------------- MODULE GraphWorker -----------------------------
(***************************************************************************)
(* One nginx worker process serving the location that holds the `fp'       *)
(* directive: ngx_http_graph_handler, the two request body callbacks       *)
(* (handler1 for `push', handler2 for `pull'), the curl download of the    *)
(* pulled images and the sending of the reply, with the part of nginx that *)
(* they drive: the request body, the reference count of a request, its     *)
(* finalization and the output that a slow client leaves pending.          *)
(*                                                                         *)
(* The worker is one thread.  A callback runs to its end, the downloads    *)
(* and the plugin included, before the event loop looks at another         *)
(* request; `cur' and `pc' say whose callback runs and where it is.        *)
(* Requests interleave whenever cur = None: while their bodies are read    *)
(* and while their replies are flushed.  All of them share the location    *)
(* configuration: type, out_cl, temp_file_vec, temp_file_cur_idx.  (Its    *)
(* `ext' is only read right after it was written, so it is no state.)      *)
(***************************************************************************)
EXTENDS Naturals, Sequences

CONSTANTS
  Requests,   \* identities of the requests that clients send
  Queries,    \* what a request may ask for: a set of records, see QueryType
  Names,      \* plugin names a client may write
  Loaded,     \* the keys of _pinfo_list
  NeedsExt,   \* the loaded plugins with _has_ext_in
  Urls,       \* image addresses
  Size,       \* Size[u]: in how many pieces the origin of u sends its image
  Faults,     \* which calls may fail, see FaultNames
  None

FaultNames == {"body", "create", "write", "fetch", "plugin", "alloc", "client"}

Bodies ==
  { "empty",     \* Content-Length: 0
    "absent",    \* neither Content-Length nor chunked: no buffer, no file
    "whole",     \* one buffer in memory that begins with "imgurl:"
    "garbled",   \* one buffer in memory that does not
    "split",     \* two buffers: a part of it came with the header
    "spilled" }  \* larger than client_body_buffer_size: in a file

QueryType ==
  [ args   : BOOLEAN,                          \* r->args.len # 0
    src    : {"push", "pull", "other", None},  \* the src argument
    plugin : Names \cup {None},                \* the plugin argument
    ext    : BOOLEAN,                          \* is there an ext argument
    body   : Bodies,
    urls   : Seq(Urls) ]                       \* the addresses in the body

ASSUME NoneAssumption   ==
  None \notin Requests \cup Names \cup {"push", "pull", "400", "500", "closed", "lost"}
ASSUME PluginAssumption == NeedsExt \subseteq Loaded /\ Loaded \subseteq Names
ASSUME QueryAssumption  == Queries \subseteq QueryType
ASSUME SizeAssumption   == Size \in [Urls -> Nat]
ASSUME FaultAssumption  == Faults \subseteq FaultNames
ASSUME AnswerAssumption == Requests \cap {"400", "500", "closed", "lost"} = {}

VARIABLES
  (* nginx, per request *)
  phase,     \* "new", "reading" its body, "running" its callback, "sending", "closed"
  query,     \* what it asks for
  handler,   \* rb->post_handler: the callback registered for its body
  refs,      \* r->main->count
  out,       \* an answer that the filters hold until the client reads it
  got,       \* what the client received
  (* ngx_http_graph_loc_conf_t, shared by all requests *)
  type,      \* the request in whose arguments glcf->type points
  out_cl,    \* the request whose JSON out_cl.buf holds
  temp_file_vec, temp_file_cur_idx,
  (* the running callback *)
  cur,       \* the request it serves
  pc,
  inline,    \* it was called from within ngx_http_graph_handler
  todo,      \* addresses left in the body
  pieces,    \* pieces received of the image being downloaded
  image_name_vec,
  (* the disk, and history *)
  disk,      \* disk[r][k]: content of the k-th temporary file made for r
  called,    \* called[r]: the arguments of the plugin call made for r
  torn       \* requests for which a write to a temporary file failed

requestVars  == <<phase, refs, out, got>>
fileVars     == <<temp_file_vec, temp_file_cur_idx>>
confVars     == <<type, out_cl>>
localVars    == <<todo, pieces, image_name_vec>>
historyVars  == <<disk, called, torn>>
vars == <<requestVars, query, handler, confVars, fileVars, cur, pc, inline,
          localVars, historyVars>>

Answers == Requests \cup {None, "400", "500"}   \* a request stands for its JSON
NoCall  == [plugin |-> None, ext |-> FALSE, images |-> <<>>]

Init ==
  /\ phase = [r \in Requests |-> "new"]
  /\ query \in [Requests -> Queries]
  /\ handler = [r \in Requests |-> None]
  /\ refs = [r \in Requests |-> 0]
  /\ out = [r \in Requests |-> None]
  /\ got = [r \in Requests |-> None]
  /\ type = None /\ out_cl = None
  /\ temp_file_vec = <<>> /\ temp_file_cur_idx = 0
  /\ cur = None /\ pc = "idle" /\ inline = FALSE
  /\ todo = <<>> /\ pieces = 0 /\ image_name_vec = <<>>
  /\ disk = [r \in Requests |-> <<>>]
  /\ called = [r \in Requests |-> NoCall]
  /\ torn = {}

-----------------------------------------------------------------------------
(* nginx: closing and finalizing a request; the end of a worker            *)

\* ngx_http_close_request: drop one reference; the last one frees the request.
Release(r) ==
  /\ refs'  = [refs EXCEPT ![r] = @ - 1]
  /\ phase' = [phase EXCEPT ![r] = IF refs[r] = 1 THEN "closed" ELSE @]

Answered(r) == got[r] # None \/ out[r] # None

\* The first ngx_http_finalize_request of r.  The answer goes out and the
\* reference is dropped, or the filters hold it and the reference stays, or
\* the client is gone.
Finalize(r, answer) ==
  \/ /\ got' = [got EXCEPT ![r] = answer]
     /\ Release(r) /\ UNCHANGED out
  \/ /\ out' = [out EXCEPT ![r] = answer]
     /\ UNCHANGED <<got, refs, phase>>
  \/ /\ "client" \in Faults
     /\ got' = [got EXCEPT ![r] = "closed"]
     /\ Release(r) /\ UNCHANGED out

\* Mutant: terminates a request that is freed already.
FinalizeAgain_Freed(r) ==
  /\ got' = [got EXCEPT ![r] = IF @ = None THEN "closed" ELSE @]
  /\ out' = [out EXCEPT ![r] = None]
  /\ Release(r)

\* A second one.  The header was sent, so nginx terminates what is left of
\* the request; if nothing is left it works on freed memory, to no effect.
FinalizeAgain(r) ==
  IF phase[r] = "closed"
  THEN UNCHANGED requestVars
  ELSE /\ got' = [got EXCEPT ![r] = IF @ = None THEN "closed" ELSE @]
       /\ out' = [out EXCEPT ![r] = None]
       /\ Release(r)

\* The callback finalizes its request with an error and returns.
Fail(r, answer) ==
  /\ IF Answered(r) THEN FinalizeAgain(r) ELSE Finalize(r, answer)
  /\ pc' = "return"
  /\ UNCHANGED <<query, handler, cur, inline>>

\* SIGSEGV: the connections of the worker close and the master forks another
\* one, with the configuration as the master has it.
WorkerDies(r) ==
  /\ LET held == {r} \cup {s \in Requests : phase[s] # "new"} IN
       /\ phase' = [s \in Requests |-> IF s \in held THEN "closed" ELSE "new"]
       /\ got'   = [s \in Requests |->
                      IF s \in held /\ got[s] = None THEN "lost" ELSE got[s]]
  /\ refs' = [s \in Requests |-> 0]
  /\ out'  = [s \in Requests |-> None]
  /\ type' = None /\ out_cl' = None
  /\ temp_file_vec' = <<>> /\ temp_file_cur_idx' = 0
  /\ cur' = None /\ pc' = "idle" /\ inline' = FALSE
  /\ todo' = <<>> /\ pieces' = 0 /\ image_name_vec' = <<>>
  /\ UNCHANGED <<query, handler, historyVars>>

-----------------------------------------------------------------------------
(* ngx_http_graph_handler and the reading of the body                      *)

IdleVars == <<confVars, fileVars, cur, pc, inline, localVars, historyVars>>

\* The event loop calls the callback of r, from the handler or after it.
CallHandler(r, within) ==
  /\ cur' = r /\ pc' = "start" /\ inline' = within
  /\ phase' = [phase EXCEPT ![r] = "running"]
  /\ UNCHANGED <<query, out, got, confVars, fileVars, localVars, historyVars>>

\* The value that the comparison with "pull" and "push" reads.  Without
\* arguments it is an uninitialized variable: any of them, or a wild pointer.
Src(r) ==
  IF query[r].args THEN {query[r].src} ELSE {"push", "pull", "other", "wild"}

\* 179-195, 215-217: the request is refused before its body is read.
Refuse(r) ==
  /\ cur = None /\ phase[r] = "new"
  /\ \/ query[r].body = "empty"
     \/ query[r].args /\ query[r].src = None
     \/ "other" \in Src(r)
  /\ got' = [got EXCEPT ![r] = "400"]
  /\ phase' = [phase EXCEPT ![r] = "closed"]
  /\ UNCHANGED <<query, handler, refs, out, IdleVars>>

Accepts(r, src) ==
  /\ cur = None /\ phase[r] = "new"
  /\ query[r].body # "empty"
  /\ src \in Src(r) \cap {"push", "pull"}
  /\ handler' = [handler EXCEPT ![r] = src]

\* 205-214: read_client_request_body takes a second reference.  The body is
\* there, or there is none: the callback runs before the handler returns.
ReadAtOnce(r, src) ==
  /\ Accepts(r, src)
  /\ refs' = [refs EXCEPT ![r] = 2]
  /\ CallHandler(r, TRUE)

\* Mutant: the handler returns NGX_OK, which drops no reference.
ReadLater_KeepsReference(r, src) ==
  /\ Accepts(r, src) /\ query[r].body # "absent"
  /\ refs' = [refs EXCEPT ![r] = 2]
  /\ phase' = [phase EXCEPT ![r] = "reading"]
  /\ UNCHANGED <<query, out, got, IdleVars>>

\* The body is still on its way: NGX_DONE drops the handler's reference.
ReadLater(r, src) ==
  /\ Accepts(r, src) /\ query[r].body # "absent"
  /\ refs' = [refs EXCEPT ![r] = 1]
  /\ phase' = [phase EXCEPT ![r] = "reading"]
  /\ UNCHANGED <<query, out, got, IdleVars>>

\* 219-221: the body cannot be read or stored.
ReadFails(r, src) ==
  /\ "body" \in Faults
  /\ Accepts(r, src) /\ query[r].body # "absent"
  /\ got' = [got EXCEPT ![r] = "500"]
  /\ phase' = [phase EXCEPT ![r] = "closed"]
  /\ UNCHANGED <<query, refs, out, IdleVars>>

\* The uninitialized value is no readable address.
WildSrc(r) ==
  /\ cur = None /\ phase[r] = "new"
  /\ query[r].body # "empty" /\ "wild" \in Src(r)
  /\ WorkerDies(r)

\* The last byte of the body arrives.
BodyComplete(r) ==
  /\ cur = None /\ phase[r] = "reading"
  /\ CallHandler(r, FALSE)
  /\ UNCHANGED <<handler, refs>>

\* Or the client leaves, stops sending, or its body cannot be stored.
BodyFails(r) ==
  /\ cur = None /\ phase[r] = "reading"
  /\ \/ "body" \in Faults /\ got' = [got EXCEPT ![r] = "500"]
     \/ "client" \in Faults /\ got' = [got EXCEPT ![r] = "closed"]
  /\ Release(r)
  /\ UNCHANGED <<query, handler, out, IdleVars>>

-----------------------------------------------------------------------------
(* The callbacks                                                           *)

Step(r, at) == cur = r /\ pc = at
Goto(at) == pc' = at /\ UNCHANGED <<query, handler, cur, inline, requestVars>>

\* 293: temp_file is NULL; 481: rb->bufs is NULL.
NoBody(r) ==
  /\ Step(r, "start") /\ query[r].body = "absent"
  /\ WorkerDies(r)

\* 287-294: nginx has put the pushed body in a file of its own.
Push(r) ==
  /\ Step(r, "start") /\ handler[r] = "push" /\ query[r].body # "absent"
  /\ disk' = [disk EXCEPT ![r] = Append(@, << <<"pushed", r>> >>)]
  /\ image_name_vec' = << [file |-> <<r, 1>>, name |-> "pushed_image"] >>
  /\ Goto("call")
  /\ UNCHANGED <<confVars, fileVars, todo, pieces, called, torn>>

\* 481-516: only a body in one buffer in memory is looked at.
PullRefused(r) ==
  /\ Step(r, "start") /\ handler[r] = "pull"
  /\ query[r].body \in {"garbled", "split", "spilled"}
  /\ Fail(r, "500")
  /\ UNCHANGED <<confVars, fileVars, localVars, historyVars>>

\* Mutant: the index is left where the last request stopped.
ResetFiles_KeepsIndex == temp_file_vec' = <<>> /\ UNCHANGED temp_file_cur_idx

\* 522-523
ResetFiles == temp_file_vec' = <<>> /\ temp_file_cur_idx' = 0

\* 474-523
Pull(r) ==
  /\ Step(r, "start") /\ handler[r] = "pull" /\ query[r].body = "whole"
  /\ ResetFiles
  /\ todo' = query[r].urls /\ image_name_vec' = <<>> /\ pieces' = 0
  /\ Goto("fetch")
  /\ UNCHANGED <<confVars, historyVars>>

\* 525-542, 423-463: one more temporary file for the next address.
NextImage(r) ==
  /\ Step(r, "fetch") /\ todo # <<>> /\ r \notin torn
  /\ temp_file_vec' = Append(temp_file_vec, <<r, Len(disk[r]) + 1>>)
  /\ disk' = [disk EXCEPT ![r] = Append(@, <<>>)]
  /\ pieces' = 0
  /\ Goto("curl")
  /\ UNCHANGED <<confVars, temp_file_cur_idx, todo, image_name_vec, called, torn>>

\* 454-459, 527-533: the entry is in the vector, the file is not made.
CreateFails(r) ==
  /\ "create" \in Faults
  /\ Step(r, "fetch") /\ todo # <<>> /\ r \notin torn
  /\ temp_file_vec' = Append(temp_file_vec, <<r, Len(disk[r]) + 1>>)
  /\ Fail(r, "500")
  /\ UNCHANGED <<confVars, temp_file_cur_idx, localVars, historyVars>>

\* Mutant: the index is never used.
CurrentFile_First == temp_file_vec[1]

CurrentFile == temp_file_vec[temp_file_cur_idx + 1]

MorePieces(r) == Step(r, "curl") /\ pieces < Size[Head(todo)]

\* 357-384: curl hands over a piece of the image.
Receive(r) ==
  /\ MorePieces(r) /\ r \notin torn
  /\ pieces' = pieces + 1
  /\ disk' = [disk EXCEPT ![CurrentFile[1]][CurrentFile[2]] =
                            Append(@, <<Head(todo), pieces + 1>>)]
  /\ Goto("curl")
  /\ UNCHANGED <<confVars, fileVars, todo, image_name_vec, called, torn>>

\* 376-382: the write fails.  The request is finalized, but curl is told that
\* the piece was taken, and the download goes on.
WriteFails(r) ==
  /\ "write" \in Faults
  /\ MorePieces(r) /\ r \notin torn
  /\ Finalize(r, "500")
  /\ pieces' = pieces + 1
  /\ torn' = torn \cup {r}
  /\ pc' = "curl"
  /\ UNCHANGED <<query, handler, cur, inline, confVars, fileVars, todo,
                 image_name_vec, disk, called>>

\* 365, 374: the next piece finds the request finalized.
ReceiveAfterFinalize(r) ==
  /\ MorePieces(r) /\ r \in torn
  /\ WorkerDies(r)

\* Mutant: the callback returns without finalizing.
FetchFails_NoFinalize(r) ==
  /\ "fetch" \in Faults
  /\ Step(r, "curl")
  /\ Goto("return")
  /\ UNCHANGED <<confVars, fileVars, localVars, historyVars>>

\* 544-551: no answer, a connection that breaks, too many redirections.
FetchFails(r) ==
  /\ "fetch" \in Faults
  /\ Step(r, "curl")
  /\ Fail(r, "500")
  /\ UNCHANGED <<confVars, fileVars, localVars, historyVars>>

\* 552-561: the image is complete.
FetchDone(r) ==
  /\ Step(r, "curl") /\ pieces = Size[Head(todo)]
  /\ image_name_vec' =
       Append(image_name_vec, [file |-> CurrentFile, name |-> Head(todo)])
  /\ temp_file_cur_idx' = temp_file_cur_idx + 1
  /\ todo' = Tail(todo)
  /\ Goto("fetch")
  /\ UNCHANGED <<confVars, temp_file_vec, pieces, historyVars>>

-----------------------------------------------------------------------------
(* The plugin and the reply                                                *)

ReadyToCall(r) == Step(r, "call") \/ (Step(r, "fetch") /\ todo = <<>>)

\* A request that was finalized by WriteFails is served further; its arguments
\* are those of the internal redirection to /50x.html, or freed memory.
HasArgs(r) == query[r].args /\ r \notin torn

\* Mutant: `return' is missing after the request was finalized.
NoPlugin_NoReturn(r) ==
  /\ ReadyToCall(r) /\ HasArgs(r) /\ query[r].plugin = None
  /\ IF Answered(r) THEN FinalizeAgain(r) ELSE Finalize(r, "400")
  /\ pc' = "call"
  /\ UNCHANGED <<query, handler, cur, inline>>
  /\ UNCHANGED <<confVars, fileVars, localVars, historyVars>>

\* 298-302, 567-571: there are arguments, but none is named plugin.
NoPlugin(r) ==
  /\ ReadyToCall(r) /\ HasArgs(r) /\ query[r].plugin = None
  /\ Fail(r, "400")
  /\ UNCHANGED <<confVars, fileVars, localVars, historyVars>>

\* 309, 577: without arguments glcf->type still points where an earlier request
\* left it, into memory that may have been freed since.
StaleNames ==
  IF type = None THEN {None}
  ELSE IF phase[type] = "closed" THEN Names \cup {None}
  ELSE {query[type].plugin}

\* Mutant: the type of the location, once set, is used again.
PluginNames_Cached(r) ==
  IF HasArgs(r) /\ type = None THEN {query[r].plugin} \ {None} ELSE StaleNames

PluginNames(r) ==
  IF HasArgs(r) THEN {query[r].plugin} \ {None} ELSE StaleNames

KeepType(r) == type' = IF HasArgs(r) THEN r ELSE type

\* PluginSlot::run_process_by_name: which of the plugins it runs for a request.
Runs(r, name) ==
  name \in Loaded /\ (name \in NeedsExt => query[r].ext /\ HasArgs(r))

\* 311-320, 580-589: there is no such plugin, or its ext parameter is missing.
CallFails(r) ==
  /\ ReadyToCall(r)
  /\ \E name \in PluginNames(r) : ~Runs(r, name)
  /\ KeepType(r)
  /\ Fail(r, "500")
  /\ UNCHANGED <<out_cl, fileVars, localVars, historyVars>>

CallPlugin(r) ==
  /\ ReadyToCall(r)
  /\ \E name \in PluginNames(r) :
       /\ Runs(r, name)
       /\ called' = [called EXCEPT ![r] =
            [plugin |-> name, ext |-> name \in NeedsExt, images |-> image_name_vec]]
  /\ KeepType(r)
  /\ Goto("plugin")
  /\ UNCHANGED <<out_cl, fileVars, localVars, disk, torn>>

\* The plugin returns an error or an empty JSON (311-326, 580-594).
PluginFails(r) ==
  /\ "plugin" \in Faults
  /\ Step(r, "plugin")
  /\ Fail(r, "500")
  /\ UNCHANGED <<confVars, fileVars, localVars, historyVars>>

\* The plugin takes the worker down.
PluginCrashes(r) ==
  /\ "plugin" \in Faults
  /\ Step(r, "plugin")
  /\ WorkerDies(r)

\* 334-340, 601-607
AllocFails(r) ==
  /\ "alloc" \in Faults
  /\ Step(r, "plugin") /\ r \notin torn
  /\ Fail(r, "500")
  /\ UNCHANGED <<confVars, fileVars, localVars, historyVars>>

\* Mutant: the buffer of the location is made once.
PluginReturns_Once(r) ==
  /\ Step(r, "plugin") /\ r \notin torn
  /\ out_cl' = IF out_cl = None THEN r ELSE out_cl
  /\ Goto("reply")
  /\ UNCHANGED <<type, fileVars, localVars, historyVars>>

\* 332-349, 599-616: the JSON becomes the reply of the location.
PluginReturns(r) ==
  /\ Step(r, "plugin") /\ r \notin torn
  /\ out_cl' = r
  /\ Goto("reply")
  /\ UNCHANGED <<type, fileVars, localVars, historyVars>>

\* 234-262, 351-353, 618-621: send it and finalize with NGX_OK.
ClientSend(r) ==
  /\ Step(r, "reply")
  /\ Finalize(r, out_cl)
  /\ pc' = "return"
  /\ UNCHANGED <<query, handler, cur, inline, confVars, fileVars, localVars,
                 historyVars>>

\* The callback of a request that WriteFails has finalized goes on to use its
\* pool, its configuration or, after the plugin, an out_cl that is NULL.
UseAfterFinalize(r) ==
  /\ r \in torn
  /\ (Step(r, "fetch") /\ todo # <<>>) \/ Step(r, "plugin")
  /\ WorkerDies(r)

\* Back in the event loop.  Under ngx_http_graph_handler its NGX_DONE drops
\* the other reference first.
Return(r) ==
  /\ Step(r, "return")
  /\ IF inline /\ phase[r] # "closed"
     THEN /\ refs'  = [refs EXCEPT ![r] = @ - 1]
          /\ phase' = [phase EXCEPT ![r] = IF refs[r] = 1 THEN "closed" ELSE "sending"]
     ELSE /\ phase' = [phase EXCEPT ![r] = IF @ = "closed" THEN @ ELSE "sending"]
          /\ UNCHANGED refs
  /\ cur' = None /\ pc' = "idle" /\ inline' = FALSE
  /\ UNCHANGED <<query, handler, out, got, confVars, fileVars, localVars,
                 historyVars>>

-----------------------------------------------------------------------------
(* nginx: the writer of a pending reply                                    *)

Flush(r) ==
  /\ cur = None /\ phase[r] = "sending" /\ out[r] # None
  /\ got' = [got EXCEPT ![r] = out[r]]
  /\ out' = [out EXCEPT ![r] = None]
  /\ Release(r)
  /\ UNCHANGED <<query, handler, IdleVars>>

\* The client leaves, or send_timeout passes.
ClientGone(r) ==
  /\ "client" \in Faults
  /\ cur = None /\ phase[r] = "sending" /\ out[r] # None
  /\ got' = [got EXCEPT ![r] = "closed"]
  /\ out' = [out EXCEPT ![r] = None]
  /\ Release(r)
  /\ UNCHANGED <<query, handler, IdleVars>>

-----------------------------------------------------------------------------
Arrive(r) ==
  \/ Refuse(r) \/ WildSrc(r)
  \/ \E src \in {"push", "pull"} :
       ReadAtOnce(r, src) \/ ReadLater(r, src) \/ ReadFails(r, src)

Body(r) == BodyComplete(r) \/ BodyFails(r)

Origin(r) ==
  \/ Receive(r) \/ WriteFails(r) \/ ReceiveAfterFinalize(r)
  \/ FetchDone(r) \/ FetchFails(r)

Plugin(r) ==
  PluginReturns(r) \/ PluginFails(r) \/ PluginCrashes(r) \/ AllocFails(r)

Callback(r) ==
  \/ NoBody(r) \/ Push(r) \/ PullRefused(r) \/ Pull(r)
  \/ NextImage(r) \/ CreateFails(r) \/ UseAfterFinalize(r)
  \/ NoPlugin(r) \/ CallFails(r) \/ CallPlugin(r)
  \/ ClientSend(r) \/ Return(r)

Writer(r) == Flush(r) \/ ClientGone(r)

\* Every request was served: nothing more happens in this instance.
AllServed == (\A r \in Requests : phase[r] = "closed") /\ UNCHANGED vars

Next ==
  \/ \E r \in Requests :
       Arrive(r) \/ Body(r) \/ Origin(r) \/ Plugin(r) \/ Callback(r) \/ Writer(r)
  \/ AllServed

Spec == Init /\ [][Next]_vars

\* What the scheduling of the code gives: a callback runs on, nginx times out
\* bodies and replies, and here also origins and plugins come to an end.
Fairness ==
  \A r \in Requests :
    /\ WF_vars(Body(r)) /\ WF_vars(Callback(r))
    /\ WF_vars(Plugin(r)) /\ WF_vars(Writer(r))

FairSpec == Spec /\ Fairness /\ \A r \in Requests : WF_vars(Origin(r))

\* curl is given a limit for the connection only (404): an origin may be silent.
SilentOriginSpec == Spec /\ Fairness

-----------------------------------------------------------------------------
(* Properties                                                              *)

Files  == Requests \X (Nat \ {0})
Pieces == (Urls \X (Nat \ {0})) \cup ({"pushed"} \X Requests)
Images == [file : Files, name : Urls \cup {"pushed_image"}]
Calls  == [plugin : Loaded \cup {None}, ext : BOOLEAN, images : Seq(Images)]

(* Every variable has a value of the type that its declaration in the code *)
(* or in nginx gives it.                                                   *)
TypeOK ==
  /\ phase \in [Requests -> {"new", "reading", "running", "sending", "closed"}]
  /\ query \in [Requests -> Queries]
  /\ handler \in [Requests -> {None, "push", "pull"}]
  /\ refs \in [Requests -> 0..2]
  /\ out \in [Requests -> Answers]
  /\ got \in [Requests -> Answers \cup {"closed", "lost"}]
  /\ type \in Requests \cup {None} /\ out_cl \in Requests \cup {None}
  /\ temp_file_vec \in Seq(Files) /\ temp_file_cur_idx \in Nat
  /\ cur \in Requests \cup {None}
  /\ pc \in {"idle", "start", "fetch", "curl", "call", "plugin", "reply", "return"}
  /\ inline \in BOOLEAN
  /\ todo \in Seq(Urls) /\ pieces \in Nat /\ image_name_vec \in Seq(Images)
  /\ disk \in [Requests -> Seq(Seq(Pieces))]
  /\ called \in [Requests -> Calls]
  /\ torn \subseteq Requests

(* The reference count of a request is the number of those that still use  *)
(* it: its body or callback or pending reply, and the handler under which  *)
(* the callback may run.  Only a failed write breaks this (376-382).       *)
Holders(r) ==
  (IF phase[r] \notin {"new", "closed"} /\ got[r] = None THEN 1 ELSE 0)
  + (IF cur = r /\ inline THEN 1 ELSE 0)

ReferencesCounted ==
  \A r \in Requests \ torn :
    /\ refs[r] = Holders(r)
    /\ phase[r] = "closed" <=> got[r] # None /\ ~(cur = r /\ inline)

(* A callback works only on a request that is alive and unanswered; every  *)
(* path through it finalizes the request exactly once, as its last act.    *)
FinalizedOnce ==
  \A r \in Requests \ torn :
    /\ cur = r /\ pc # "return" => phase[r] = "running" /\ ~Answered(r)
    /\ cur = r /\ pc = "return" => Answered(r)
    /\ cur # r /\ phase[r] = "sending" => out[r] # None

(* temp_file_vec.at(temp_file_cur_idx) is, for the write callback of curl  *)
(* (373), the last file made for the request being served, and the vector  *)
(* that all requests of the location share holds only files of this one.   *)
CurrentFileIsOwn ==
  pc \in {"fetch", "curl"} =>
    /\ temp_file_cur_idx = Len(image_name_vec)
    /\ Len(temp_file_vec) = temp_file_cur_idx + (IF pc = "curl" THEN 1 ELSE 0)
    /\ \A i \in DOMAIN temp_file_vec : temp_file_vec[i] = <<cur, i>>
    /\ Len(disk[cur]) = Len(temp_file_vec)

Download(u) == [i \in 1..Size[u] |-> <<u, i>>]

(* The plugin gets one file per address of the body, in their order, each  *)
(* with the whole image and nothing else, at the time of the call and ever *)
(* after; for a pushed image, the file of the body.                        *)
PluginSeesItsImages ==
  \A r \in Requests \ torn :
    called[r] # NoCall =>
      IF handler[r] = "pull"
      THEN /\ called[r].images =
                [i \in DOMAIN query[r].urls |-> [file |-> <<r, i>>, name |-> query[r].urls[i]]]
           /\ disk[r] = [i \in DOMAIN query[r].urls |-> Download(query[r].urls[i])]
      ELSE /\ called[r].images = << [file |-> <<r, 1>>, name |-> "pushed_image"] >>
           /\ disk[r] = << << <<"pushed", r>> >> >>

(* The JSON that a client receives, or that waits for it, was computed for *)
(* its own request, although all replies go through the one out_cl of the  *)
(* location.                                                               *)
ReplyIsOwn ==
  \A r \in Requests :
    {got[r], out[r]} \cap Requests # {} =>
      /\ {got[r], out[r]} \cap Requests = {r}
      /\ called[r] # NoCall /\ r \notin torn

(* The service that clients see: see ImageService.                         *)
Service == INSTANCE ImageService WITH
  asked   <- {r \in Requests : phase[r] # "new"},
  call    <- [r \in Requests |->
               [plugin |-> called[r].plugin,
                names  |-> [i \in DOMAIN called[r].images |-> called[r].images[i].name]]],
  answer  <- got,
  spoiled <- torn

(* The worker implements it: no other answer, no second answer, no plugin  *)
(* but the one asked for, no image out of order.                           *)
ImplementsService == Service!Spec

(* No request waits for ever: once it has arrived it is closed at last,    *)
(* whatever fails on the way and whatever the others do.                   *)
ArrivedIsClosed ==
  \A r \in Requests : (phase[r] # "new") ~> (phase[r] = "closed")

(* README.md:27 has the module `based on the excellent fully asynchronous  *)
(* processing of nginx': a request whose body is being read would come to  *)
(* its callback whatever the others wait for.                              *)
BodyIsServed ==
  \A r \in Requests : (phase[r] = "reading") ~> (phase[r] # "reading")

(* README.md:23: a client that posts its image or links and names a plugin *)
(* gets the result as JSON (stated for instances where nothing fails).     *)
LinksAnswered ==
  \A r \in Requests :
    /\ query[r].body \notin {"empty", "absent", "garbled"}
    /\ query[r].args /\ query[r].src \in {"push", "pull"}
    /\ Runs(r, query[r].plugin)
    => got[r] \in {None, r}

(* 191-193: a request that lacks its src=pull/push argument is a bad       *)
(* request.                                                                *)
SrcRequired ==
  \A r \in Requests : query[r].src = None => called[r] = NoCall

=============================================================================
