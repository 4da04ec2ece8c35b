------------------------- MODULE GraphWorker_proofs -------------------------
(***************************************************************************)
(* Proofs about GraphWorker, for any requests, queries, plugins, images    *)
(* and faults.                                                             *)
(***************************************************************************)
EXTENDS GraphWorker, SequenceTheorems, TLAPS

(* What holds of a request in each of its phases.                          *)
PhaseInv(r) ==
  /\ phase[r] = "new" =>
       refs[r] = 0 /\ got[r] = None /\ out[r] = None /\ cur # r /\ r \notin torn
  /\ phase[r] = "reading" =>
       refs[r] = 1 /\ got[r] = None /\ out[r] = None /\ cur # r /\ r \notin torn
  /\ phase[r] = "running" =>
       /\ cur = r /\ (got[r] # None => out[r] = None /\ inline)
       /\ refs[r] = (IF got[r] = None THEN 1 ELSE 0) + (IF inline THEN 1 ELSE 0)
  /\ phase[r] = "sending" =>
       refs[r] = 1 /\ got[r] = None /\ out[r] # None /\ cur # r /\ r \notin torn
  /\ phase[r] = "closed" =>
       refs[r] = 0 /\ got[r] # None /\ out[r] = None /\ (cur = r /\ inline => r \in torn)

(* What holds of the running callback.                                     *)
CallbackInv ==
  /\ cur = None <=> pc = "idle"
  /\ cur = None => inline = FALSE
  /\ cur # None => phase[cur] \in {"running", "closed"}
  /\ cur # None /\ pc # "return" /\ cur \notin torn =>
       phase[cur] = "running" /\ got[cur] = None /\ out[cur] = None
  /\ cur # None /\ (pc = "return" \/ cur \in torn) => Answered(cur)
  /\ cur \in torn => pc \in {"fetch", "curl", "plugin", "return"}
  /\ cur \in torn /\ pc = "return" => got[cur] # None
  /\ pc = "curl" => todo # <<>>
  /\ pc = "reply" => out_cl = cur

ControlInv == (\A r \in Requests : PhaseInv(r)) /\ CallbackInv

(* What is known of the images of the request being served.                *)
WholeImages(r, n) ==
  \A i \in 1..n : disk[r][i] = Download(query[r].urls[i])

PullInv ==
  cur # None /\ pc \in {"fetch", "curl"} =>
    /\ handler[cur] = "pull" /\ query[cur].body = "whole"
    /\ called[cur] = NoCall
    /\ temp_file_cur_idx = Len(image_name_vec)
    /\ Len(todo) + temp_file_cur_idx = Len(query[cur].urls)
    /\ \A i \in 1..Len(todo) : todo[i] = query[cur].urls[temp_file_cur_idx + i]
    /\ \A i \in 1..temp_file_cur_idx :
         image_name_vec[i] = [file |-> <<cur, i>>, name |-> query[cur].urls[i]]
    /\ Len(temp_file_vec) = temp_file_cur_idx + (IF pc = "curl" THEN 1 ELSE 0)
    /\ \A i \in 1..Len(temp_file_vec) : temp_file_vec[i] = <<cur, i>>
    /\ Len(disk[cur]) = Len(temp_file_vec)
    /\ cur \notin torn => WholeImages(cur, temp_file_cur_idx)
    /\ cur \notin torn /\ pc = "curl" =>
         /\ pieces <= Size[todo[1]]
         /\ disk[cur][temp_file_cur_idx + 1] = [i \in 1..pieces |-> <<todo[1], i>>]

PushInv ==
  cur # None /\ pc = "call" =>
    /\ handler[cur] = "push" /\ query[cur].body \notin {"absent", "empty"}
    /\ called[cur] = NoCall
    /\ image_name_vec = << [file |-> <<cur, 1>>, name |-> "pushed_image"] >>
    /\ disk[cur] = << << <<"pushed", cur>> >> >>

(* A request whose callback has not started has no file and no call.       *)
UntouchedInv ==
  \A r \in Requests :
    /\ phase[r] \in {"new", "reading"} \/ (cur = r /\ pc = "start") =>
         called[r] = NoCall /\ disk[r] = <<>>
    /\ phase[r] \in {"reading", "running", "sending"} =>
         /\ handler[r] \in {"push", "pull"} /\ query[r].body # "empty"
         /\ query[r].args => query[r].src = handler[r]

CalledInv == pc \in {"plugin", "reply"} => called[cur] # NoCall

IInv ==
  /\ TypeOK /\ ControlInv /\ PullInv /\ PushInv /\ UntouchedInv /\ CalledInv
  /\ PluginSeesItsImages /\ ReplyIsOwn

-----------------------------------------------------------------------------
USE NoneAssumption, PluginAssumption, QueryAssumption, SizeAssumption,
    FaultAssumption, AnswerAssumption

LEMMA InitInv == Init => IInv
<1>1. Init => TypeOK
  <2>1. NoCall \in Calls
    BY DEF NoCall, Calls
  <2> SUFFICES ASSUME Init PROVE TypeOK
    OBVIOUS
  <2>2. /\ phase \in [Requests -> {"new", "reading", "running", "sending", "closed"}]
        /\ handler \in [Requests -> {None, "push", "pull"}]
        /\ refs \in [Requests -> 0..2]
    BY DEF Init
  <2>3. /\ out \in [Requests -> Answers]
        /\ got \in [Requests -> Answers \cup {"closed", "lost"}]
    BY DEF Init, Answers
  <2>4. /\ temp_file_vec \in Seq(Files)
        /\ todo \in Seq(Urls) /\ image_name_vec \in Seq(Images)
        /\ disk \in [Requests -> Seq(Seq(Pieces))]
    BY DEF Init
  <2>5. called \in [Requests -> Calls]
    BY <2>1 DEF Init
  <2> QED BY <2>2, <2>3, <2>4, <2>5 DEF Init, TypeOK
<1>2. Init => ControlInv
  BY DEF Init, ControlInv, PhaseInv, CallbackInv
<1>3. Init => PullInv /\ PushInv /\ UntouchedInv /\ CalledInv
  BY DEF Init, PullInv, PushInv, UntouchedInv, CalledInv
<1>4. Init => PluginSeesItsImages /\ ReplyIsOwn
  BY DEF Init, PluginSeesItsImages, ReplyIsOwn
<1> QED
  BY <1>1, <1>2, <1>3, <1>4 DEF IInv

LEMMA ControlStep == IInv /\ [Next]_vars => ControlInv'
<1> SUFFICES ASSUME TypeOK, ControlInv, [Next]_vars PROVE ControlInv'
  BY DEF IInv
<1> USE DEF ControlInv
<1>u. CASE UNCHANGED vars
  BY <1>u DEF PhaseInv, CallbackInv, vars, requestVars, Answered, confVars, localVars, historyVars
<1> SUFFICES ASSUME NEW r \in Requests,
      Arrive(r) \/ Body(r) \/ Origin(r) \/ Plugin(r) \/ Callback(r) \/ Writer(r)
    PROVE ControlInv'
  BY <1>u DEF Next, AllServed
<1>d. ASSUME WorkerDies(r) PROVE ControlInv'
  BY <1>d DEF WorkerDies, PhaseInv, CallbackInv, TypeOK, historyVars
<1>1. CASE Arrive(r)
  <2>1. CASE Refuse(r)
    BY <2>1 DEF Refuse, PhaseInv, CallbackInv, TypeOK, IdleVars, confVars, localVars, historyVars, Answered
  <2>2. CASE WildSrc(r)
    BY <1>d, <2>2 DEF WildSrc
  <2> SUFFICES ASSUME NEW src \in {"push", "pull"},
        ReadAtOnce(r, src) \/ ReadLater(r, src) \/ ReadFails(r, src)
      PROVE ControlInv'
    BY <1>1, <2>1, <2>2 DEF Arrive
  <2>3. CASE ReadAtOnce(r, src)
    BY <2>3 DEF ReadAtOnce, Accepts, CallHandler, PhaseInv, CallbackInv, TypeOK, localVars, historyVars, Answered, confVars
  <2>4. CASE ReadLater(r, src)
    BY <2>4 DEF ReadLater, Accepts, PhaseInv, CallbackInv, TypeOK, IdleVars, localVars, historyVars, Answered, confVars
  <2>5. CASE ReadFails(r, src)
    BY <2>5 DEF ReadFails, Accepts, PhaseInv, CallbackInv, TypeOK, IdleVars, localVars, historyVars, Answered, confVars
  <2> QED BY <2>3, <2>4, <2>5
<1>2. CASE Body(r)
  <2>1. CASE BodyComplete(r)
    BY <2>1 DEF BodyComplete, CallHandler, PhaseInv, CallbackInv, TypeOK, localVars, historyVars, Answered, confVars
  <2>2. CASE BodyFails(r)
    BY <2>2 DEF BodyFails, Release, PhaseInv, CallbackInv, TypeOK, IdleVars, localVars, historyVars, Answered, confVars
  <2> QED BY <1>2, <2>1, <2>2 DEF Body
<1>f. ASSUME Fail(r, "400") \/ Fail(r, "500"), cur = r, pc # "return", torn' = torn
      PROVE  ControlInv'
  <2> USE DEF Fail, Release, Answered, TypeOK, requestVars
  <2>1. CASE Answered(r)
    <3>1. r \in torn /\ got'[r] # None
      BY <1>f, <2>1 DEF PhaseInv, CallbackInv, FinalizeAgain
    <3>2. CallbackInv'
      BY <1>f, <2>1, <3>1 DEF FinalizeAgain, PhaseInv, CallbackInv
    <3>3. ASSUME NEW s \in Requests PROVE PhaseInv(s)'
      BY <1>f, <2>1, <3>1, <3>3 DEF FinalizeAgain, PhaseInv, CallbackInv
    <3> QED BY <3>2, <3>3
  <2>2. CASE ~Answered(r)
    <3>1. r \notin torn /\ phase[r] = "running"
      BY <1>f, <2>2 DEF CallbackInv
    <3>2. CallbackInv'
      BY <1>f, <2>2, <3>1 DEF Finalize, PhaseInv, CallbackInv
    <3>3. ASSUME NEW s \in Requests PROVE PhaseInv(s)'
      <4>1. CASE s = r
        <5>1. /\ refs[r] = 1 + (IF inline THEN 1 ELSE 0)
              /\ got[r] = None /\ out[r] = None
          BY <3>1, <2>2 DEF PhaseInv
        <5> QED BY <1>f, <2>2, <3>1, <4>1, <5>1 DEF Finalize, PhaseInv
      <4>2. CASE s # r
        BY <1>f, <2>2, <3>3, <4>2 DEF Finalize, PhaseInv
      <4> QED BY <4>1, <4>2
    <3> QED BY <3>2, <3>3
  <2> QED BY <2>1, <2>2
<1>3. CASE Origin(r)
  <2>1. CASE Receive(r)
    BY <2>1 DEF Receive, MorePieces, Step, Goto, Answered, PhaseInv, CallbackInv, TypeOK, requestVars
  <2>2. CASE WriteFails(r)
    BY <2>2, SMTT(30) DEF WriteFails, MorePieces, Step, Finalize, Release, Answered, PhaseInv, CallbackInv, TypeOK, confVars
  <2>3. CASE ReceiveAfterFinalize(r)
    BY <1>d, <2>3 DEF ReceiveAfterFinalize
  <2>4. CASE FetchDone(r)
    BY <2>4 DEF FetchDone, Step, Goto, Answered, PhaseInv, CallbackInv, TypeOK, requestVars, historyVars
  <2>5. CASE FetchFails(r)
    BY <1>f, <2>5 DEF FetchFails, Step, historyVars
  <2> QED BY <1>3, <2>1, <2>2, <2>3, <2>4, <2>5 DEF Origin
<1>4. CASE Plugin(r)
  <2>1. CASE PluginReturns(r)
    BY <2>1 DEF PluginReturns, Step, Goto, Answered, PhaseInv, CallbackInv, TypeOK, requestVars, historyVars, localVars
  <2>2. CASE PluginCrashes(r)
    BY <1>d, <2>2 DEF PluginCrashes
  <2>3. CASE PluginFails(r) \/ AllocFails(r)
    BY <1>f, <2>3 DEF PluginFails, AllocFails, Step, historyVars
  <2> QED BY <1>4, <2>1, <2>2, <2>3 DEF Plugin
<1>5. CASE Callback(r)
  <2>1. CASE NoBody(r) \/ UseAfterFinalize(r)
    BY <1>d, <2>1 DEF NoBody, UseAfterFinalize
  <2>2. CASE PullRefused(r) \/ CreateFails(r) \/ NoPlugin(r) \/ CallFails(r)
    BY <1>f, <2>2 DEF PullRefused, CreateFails, NoPlugin, CallFails, ReadyToCall, Step, historyVars
  <2>3. CASE Push(r) \/ Pull(r)
    BY <2>3 DEF Push, Pull, Step, Goto, Answered, PhaseInv, CallbackInv, TypeOK, requestVars, historyVars
  <2>4. CASE NextImage(r)
    BY <2>4 DEF NextImage, Step, Goto, Answered, PhaseInv, CallbackInv, TypeOK, requestVars
  <2>5. CASE CallPlugin(r)
    BY <2>5 DEF CallPlugin, ReadyToCall, Step, Goto, Answered, PhaseInv, CallbackInv, TypeOK, requestVars
  <2>6. CASE ClientSend(r)
    <3>1. out_cl = r /\ r # "closed" /\ r # None /\ r \notin torn
      BY <2>6 DEF ClientSend, Step, CallbackInv
    <3> USE DEF ClientSend, Step, Finalize, Release, Answered, TypeOK, historyVars, confVars
    <3>2. CallbackInv'
      BY <2>6, <3>1 DEF PhaseInv, CallbackInv
    <3>3. ASSUME NEW s \in Requests PROVE PhaseInv(s)'
      <4>1. CASE s = r
        <5>1. /\ refs[r] = 1 + (IF inline THEN 1 ELSE 0)
              /\ got[r] = None /\ out[r] = None /\ phase[r] = "running"
          BY <2>6, <3>1 DEF PhaseInv, CallbackInv
        <5> QED BY <2>6, <3>1, <4>1, <5>1 DEF PhaseInv
      <4>2. CASE s # r
        BY <2>6, <3>1, <3>3, <4>2 DEF PhaseInv
      <4> QED BY <4>1, <4>2
    <3> QED BY <3>2, <3>3
  <2>7. CASE Return(r)
    BY <2>7 DEF Return, Step, Answered, PhaseInv, CallbackInv, TypeOK, historyVars
  <2> QED BY <1>5, <2>1, <2>2, <2>3, <2>4, <2>5, <2>6, <2>7 DEF Callback
<1>6. CASE Writer(r)
  <2> USE DEF Writer, Flush, ClientGone, Release, TypeOK, IdleVars, confVars, localVars, historyVars
  <2>1. CallbackInv'
    BY <1>6 DEF Answered, PhaseInv, CallbackInv
  <2>2. ASSUME NEW s \in Requests PROVE PhaseInv(s)'
    <3>1. PhaseInv(r) /\ phase[r] = "sending" /\ cur = None
      BY <1>6
    <3>2. CASE s = r
      BY <1>6, <3>1, <3>2 DEF PhaseInv
    <3>3. CASE s # r
      BY <1>6, <2>2, <3>3 DEF PhaseInv
    <3> QED BY <3>2, <3>3
  <2> QED BY <2>1, <2>2
<1> QED
  BY <1>1, <1>2, <1>3, <1>4, <1>5, <1>6

-----------------------------------------------------------------------------
(* Typing, in two halves: what nginx keeps of a request, and the rest.     *)

RequestTypeOK ==
  /\ phase \in [Requests -> {"new", "reading", "running", "sending", "closed"}]
  /\ refs \in [Requests -> 0..2]
  /\ out \in [Requests -> Answers]
  /\ got \in [Requests -> Answers \cup {"closed", "lost"}]

CallbackTypeOK ==
  /\ type \in Requests \cup {None} /\ out_cl \in Requests \cup {None}
  /\ cur \in Requests \cup {None}
  /\ pc \in {"idle", "start", "fetch", "curl", "call", "plugin", "reply", "return"}
  /\ inline \in BOOLEAN
  /\ handler \in [Requests -> {None, "push", "pull"}]
  /\ query \in [Requests -> Queries]
  /\ torn \subseteq Requests

ImageTypeOK ==
  /\ temp_file_vec \in Seq(Files) /\ temp_file_cur_idx \in Nat
  /\ todo \in Seq(Urls) /\ pieces \in Nat /\ image_name_vec \in Seq(Images)
  /\ disk \in [Requests -> Seq(Seq(Pieces))]
  /\ called \in [Requests -> Calls]

LEMMA TypeOKParts == TypeOK <=> RequestTypeOK /\ CallbackTypeOK /\ ImageTypeOK
  BY DEF TypeOK, RequestTypeOK, CallbackTypeOK, ImageTypeOK

LEMMA FinalizeType ==
  ASSUME RequestTypeOK, NEW r \in Requests, NEW answer \in Answers,
         refs[r] > 0, Finalize(r, answer)
  PROVE  RequestTypeOK'
  BY DEF RequestTypeOK, Finalize, Release

LEMMA FailType ==
  ASSUME RequestTypeOK, CallbackTypeOK, ControlInv, NEW r \in Requests, cur = r,
         NEW answer \in {"400", "500"}, Fail(r, answer)
  PROVE  RequestTypeOK'
<1>1. CASE ~Answered(r)
  <2>1. refs[r] > 0
    BY <1>1 DEF ControlInv, PhaseInv, CallbackInv, Answered, RequestTypeOK
  <2> QED
    BY <1>1, <2>1, FinalizeType DEF Fail, Answers
<1>2. CASE Answered(r) /\ phase[r] = "closed"
  BY <1>2 DEF Fail, FinalizeAgain, requestVars, RequestTypeOK
<1>3. CASE Answered(r) /\ phase[r] # "closed"
  <2>1. refs[r] > 0
    BY <1>3 DEF ControlInv, PhaseInv, CallbackInv, Answered, RequestTypeOK
  <2> QED
    BY <1>3, <2>1 DEF Fail, FinalizeAgain, Release, RequestTypeOK, Answers
<1> QED
  BY <1>1, <1>2, <1>3

LEMMA WorkerDiesType ==
  ASSUME TypeOK, NEW r \in Requests, WorkerDies(r)
  PROVE  TypeOK'
<1>1. RequestTypeOK'
  BY DEF WorkerDies, TypeOK, RequestTypeOK, Answers
<1>2. CallbackTypeOK'
  BY DEF WorkerDies, TypeOK, CallbackTypeOK, historyVars
<1>3. ImageTypeOK'
  BY DEF WorkerDies, TypeOK, ImageTypeOK, historyVars
<1> QED
  BY <1>1, <1>2, <1>3 DEF TypeOK, RequestTypeOK, CallbackTypeOK, ImageTypeOK

LEMMA RequestTypeStep ==
  ASSUME TypeOK, ControlInv, NEW r \in Requests,
         Arrive(r) \/ Body(r) \/ Origin(r) \/ Plugin(r) \/ Callback(r) \/ Writer(r)
  PROVE  RequestTypeOK'
<1> USE TypeOKParts
<1>d. ASSUME WorkerDies(r) PROVE RequestTypeOK'
  BY <1>d, WorkerDiesType DEF TypeOK, RequestTypeOK
<1>f. ASSUME Fail(r, "400") \/ Fail(r, "500"), cur = r PROVE RequestTypeOK'
  BY <1>f, FailType
<1>k. ASSUME NEW at, Goto(at) PROVE RequestTypeOK'
  BY <1>k DEF Goto, requestVars, RequestTypeOK
<1>p. ASSUME phase[r] \in {"reading", "running", "sending"} PROVE refs[r] > 0
  BY <1>p DEF ControlInv, PhaseInv, CallbackInv, RequestTypeOK
<1>r. ASSUME Release(r), refs[r] > 0, out' \in [Requests -> Answers],
             got' \in [Requests -> Answers \cup {"closed", "lost"}]
      PROVE  RequestTypeOK'
  BY <1>r DEF Release, RequestTypeOK
<1>1. CASE Arrive(r)
  BY <1>1, <1>d DEF Arrive, Refuse, WildSrc, ReadAtOnce, ReadLater, ReadFails, Accepts,
     CallHandler, RequestTypeOK, Answers
<1>2. CASE Body(r)
  <2>1. CASE BodyComplete(r)
    BY <2>1 DEF BodyComplete, CallHandler, RequestTypeOK
  <2>2. CASE BodyFails(r)
    BY <1>p, <1>r, <2>2 DEF BodyFails, RequestTypeOK, Answers
  <2> QED BY <1>2, <2>1, <2>2 DEF Body
<1>3. CASE Origin(r)
  <2>1. CASE WriteFails(r)
    <3>1. refs[r] > 0
      BY <1>p, <2>1 DEF WriteFails, MorePieces, Step, ControlInv, CallbackInv
    <3> QED
      BY <2>1, <3>1, FinalizeType DEF WriteFails, Answers
  <2> QED
    BY <1>3, <2>1, <1>d, <1>f, <1>k DEF Origin, Receive, ReceiveAfterFinalize, FetchDone,
       FetchFails, Step
<1>4. CASE Plugin(r)
  BY <1>4, <1>d, <1>f, <1>k DEF Plugin, PluginReturns, PluginFails, PluginCrashes,
     AllocFails, Step
<1>5. CASE Callback(r)
  <2>1. CASE ClientSend(r)
    <3>1. refs[r] > 0 /\ out_cl \in Answers
      BY <1>p, <2>1 DEF ClientSend, Step, ControlInv, CallbackInv, Answers
    <3> QED
      BY <2>1, <3>1, FinalizeType DEF ClientSend
  <2>2. CASE Return(r)
    BY <2>2 DEF Return, Step, ControlInv, PhaseInv, CallbackInv, RequestTypeOK
  <2>3. CASE NoBody(r) \/ UseAfterFinalize(r)
    BY <2>3, <1>d DEF NoBody, UseAfterFinalize
  <2>4. CASE Push(r) \/ Pull(r) \/ NextImage(r) \/ CallPlugin(r)
    BY <2>4, <1>k DEF Push, Pull, NextImage, CallPlugin
  <2>5. CASE PullRefused(r) \/ CreateFails(r) \/ NoPlugin(r) \/ CallFails(r)
    BY <2>5, <1>f DEF PullRefused, CreateFails, NoPlugin, CallFails, ReadyToCall, Step
  <2> QED BY <1>5, <2>1, <2>2, <2>3, <2>4, <2>5 DEF Callback
<1>6. CASE Writer(r)
  BY <1>6, <1>p, <1>r DEF Writer, Flush, ClientGone, RequestTypeOK, Answers
<1> QED
  BY <1>1, <1>2, <1>3, <1>4, <1>5, <1>6

LEMMA CallbackTypeStep ==
  ASSUME TypeOK, ControlInv, NEW r \in Requests,
         Arrive(r) \/ Body(r) \/ Origin(r) \/ Plugin(r) \/ Callback(r) \/ Writer(r)
  PROVE  CallbackTypeOK'
<1> USE TypeOKParts
<1>d. ASSUME WorkerDies(r) PROVE CallbackTypeOK'
  BY <1>d, WorkerDiesType DEF TypeOK, CallbackTypeOK
<1>f. ASSUME Fail(r, "400") \/ Fail(r, "500"), out_cl' = out_cl, torn' = torn,
             type' \in Requests \cup {None}
      PROVE  CallbackTypeOK'
  BY <1>f DEF Fail, CallbackTypeOK
<1>k. ASSUME NEW at \in {"fetch", "curl", "call", "plugin", "reply"}, Goto(at),
             torn' = torn, type' \in Requests \cup {None}, out_cl' \in Requests \cup {None}
      PROVE  CallbackTypeOK'
  BY <1>k DEF Goto, CallbackTypeOK
<1>t. ASSUME KeepType(r) PROVE type' \in Requests \cup {None}
  BY <1>t DEF KeepType, CallbackTypeOK
<1>1. CASE Arrive(r)
  BY <1>1, <1>d, ZenonT(30) DEF Arrive, Refuse, WildSrc, ReadAtOnce, ReadLater, ReadFails, Accepts,
     CallHandler, CallbackTypeOK, IdleVars, confVars, historyVars
<1>2. CASE Body(r)
  BY <1>2 DEF Body, BodyComplete, BodyFails, CallHandler, CallbackTypeOK, IdleVars,
     confVars, historyVars
<1>3. CASE Origin(r)
  <2>1. CASE WriteFails(r)
    BY <2>1 DEF WriteFails, CallbackTypeOK, confVars
  <2>2. CASE Receive(r) \/ FetchDone(r)
    <3>1. \E at \in {"fetch", "curl"} : Goto(at)
      BY <2>2 DEF Receive, FetchDone
    <3>2. torn' = torn /\ type' = type /\ out_cl' = out_cl
      BY <2>2 DEF Receive, FetchDone, historyVars, confVars
    <3> QED
      BY <3>1, <3>2, <1>k DEF CallbackTypeOK
  <2>3. CASE FetchFails(r) \/ ReceiveAfterFinalize(r)
    BY <2>3, <1>d, <1>f DEF FetchFails, ReceiveAfterFinalize, confVars, historyVars, CallbackTypeOK
  <2> QED BY <1>3, <2>1, <2>2, <2>3 DEF Origin
<1>4. CASE Plugin(r)
  <2>1. CASE PluginReturns(r)
    <3>1. Goto("reply") /\ torn' = torn /\ type' = type /\ out_cl' = r
      BY <2>1 DEF PluginReturns, historyVars
    <3> QED
      BY <3>1, <1>k DEF CallbackTypeOK
  <2>2. CASE PluginFails(r) \/ PluginCrashes(r) \/ AllocFails(r)
    BY <2>2, <1>d, <1>f DEF PluginFails, PluginCrashes, AllocFails, confVars, historyVars,
       CallbackTypeOK
  <2> QED BY <1>4, <2>1, <2>2 DEF Plugin
<1>5. CASE Callback(r)
  <2>1. CASE ClientSend(r) \/ Return(r)
    BY <2>1 DEF ClientSend, Return, CallbackTypeOK, confVars, historyVars
  <2>2. CASE NoBody(r) \/ UseAfterFinalize(r)
    BY <2>2, <1>d DEF NoBody, UseAfterFinalize
  <2>3. CASE Push(r) \/ Pull(r) \/ NextImage(r)
    <3>1. \E at \in {"fetch", "curl", "call"} : Goto(at)
      BY <2>3 DEF Push, Pull, NextImage
    <3>2. torn' = torn /\ type' = type /\ out_cl' = out_cl
      BY <2>3 DEF Push, Pull, NextImage, confVars, historyVars
    <3> QED
      BY <3>1, <3>2, <1>k DEF CallbackTypeOK
  <2>4. CASE CallPlugin(r)
    <3>1. Goto("plugin") /\ torn' = torn /\ KeepType(r) /\ out_cl' = out_cl
      BY <2>4 DEF CallPlugin
    <3> QED
      BY <3>1, <1>k, <1>t DEF CallbackTypeOK
  <2>5. CASE PullRefused(r) \/ CreateFails(r) \/ NoPlugin(r)
    BY <2>5, <1>f DEF PullRefused, CreateFails, NoPlugin, confVars, historyVars, CallbackTypeOK
  <2>6. CASE CallFails(r)
    BY <2>6, <1>f, <1>t DEF CallFails, historyVars
  <2> QED BY <1>5, <2>1, <2>2, <2>3, <2>4, <2>5, <2>6 DEF Callback
<1>6. CASE Writer(r)
  BY <1>6 DEF Writer, Flush, ClientGone, CallbackTypeOK, IdleVars, confVars, historyVars
<1> QED
  BY <1>1, <1>2, <1>3, <1>4, <1>5, <1>6

-----------------------------------------------------------------------------
(* The images                                                              *)

ImageInv ==
  /\ ImageTypeOK
  /\ PullInv /\ PushInv /\ UntouchedInv /\ CalledInv /\ PluginSeesItsImages

\* Nothing is to be shown of a step that ends a callback or runs between two.
LEMMA ImageFrame ==
  ASSUME TypeOK, ImageInv, ImageTypeOK',
         pc' \in {"return", "idle"}, cur' # None => pc' = "return",
         disk' = disk, called' = called, query' = query, torn' = torn,
         \A s \in Requests : handler'[s] # handler[s] => called[s] = NoCall,
         \A s \in Requests :
           phase'[s] \in {"new", "reading", "running", "sending"} =>
             /\ handler'[s] = handler[s]
             /\ phase'[s] = phase[s] \/ (phase[s] = "running" /\ phase'[s] = "sending")
  PROVE  ImageInv'
<1>1. PullInv' /\ PushInv' /\ CalledInv'
  BY DEF PullInv, PushInv, CalledInv
<1>2. UntouchedInv'
  BY DEF ImageInv, UntouchedInv
<1>3. PluginSeesItsImages'
  <2> SUFFICES ASSUME NEW s \in Requests \ torn, called[s] # NoCall
      PROVE  /\ handler'[s] = handler[s] /\ called'[s] = called[s] /\ disk'[s] = disk[s]
             /\ query'[s] = query[s]
    BY DEF ImageInv, PluginSeesItsImages
  <2> QED OBVIOUS
<1> QED
  BY <1>1, <1>2, <1>3 DEF ImageInv

LEMMA ImageWorkerDies ==
  ASSUME TypeOK, ImageInv, NEW r \in Requests, WorkerDies(r)
  PROVE  ImageInv'
<1>1. ImageTypeOK'
  BY WorkerDiesType, TypeOKParts DEF TypeOK, ImageTypeOK
<1>2. /\ pc' = "idle" /\ cur' = None
      /\ disk' = disk /\ called' = called /\ query' = query /\ torn' = torn /\ handler' = handler
  BY DEF WorkerDies, historyVars
<1>3. ASSUME NEW s \in Requests, phase'[s] \in {"new", "reading", "running", "sending"}
      PROVE  phase'[s] = phase[s]
  BY <1>3 DEF WorkerDies, TypeOK
<1> QED
  BY <1>1, <1>2, <1>3, ImageFrame

LEMMA ImageFinalize ==
  ASSUME TypeOK, ImageInv, NEW r \in Requests, ImageTypeOK',
         \/ \E answer \in Answers : Finalize(r, answer)
         \/ FinalizeAgain(r)
         \/ Release(r),
         pc' \in {"return", "idle"}, cur' # None => pc' = "return",
         query' = query, handler' = handler, disk' = disk, called' = called, torn' = torn
  PROVE  ImageInv'
<1>1. phase' = phase \/ phase' = [phase EXCEPT ![r] = "closed"]
  BY DEF Finalize, FinalizeAgain, Release, requestVars, TypeOK
<1> QED
  BY <1>1, ImageFrame DEF TypeOK

LEMMA ImageFail ==
  ASSUME TypeOK, ImageInv, NEW r \in Requests, ImageTypeOK',
         Fail(r, "400") \/ Fail(r, "500"), UNCHANGED historyVars
  PROVE  ImageInv'
<1>1. \/ \E answer \in Answers : Finalize(r, answer)
      \/ FinalizeAgain(r)
  BY DEF Fail, Answers
<1> QED
  BY <1>1, ImageFinalize DEF Fail, historyVars

LEMMA ImageArrive ==
  ASSUME TypeOK, ControlInv, ImageInv, NEW r \in Requests, Arrive(r)
  PROVE  ImageInv'
<1> USE DEF IdleVars, fileVars, localVars, historyVars
<1>1. CASE Refuse(r)
  <2>1. ImageTypeOK'
    BY <1>1 DEF Refuse, ImageInv, ImageTypeOK
  <2> QED
    BY <1>1, <2>1, ImageFrame DEF Refuse, TypeOK, ControlInv, CallbackInv
<1>2. CASE WildSrc(r)
  BY <1>2, ImageWorkerDies DEF WildSrc
<1> SUFFICES ASSUME NEW src \in {"push", "pull"},
      ReadAtOnce(r, src) \/ ReadLater(r, src) \/ ReadFails(r, src)
    PROVE ImageInv'
  BY <1>1, <1>2 DEF Arrive
<1>3. /\ ImageTypeOK' /\ disk' = disk /\ called' = called /\ query' = query /\ torn' = torn
      /\ handler' = [handler EXCEPT ![r] = src] /\ called[r] = NoCall /\ disk[r] = <<>>
      /\ cur = None /\ pc = "idle"
      /\ query[r].body # "empty" /\ (query[r].args => query[r].src = src)
  BY DEF ReadAtOnce, ReadLater, ReadFails, Accepts, Src, CallHandler, ImageInv, ImageTypeOK,
     UntouchedInv, ControlInv, CallbackInv
<1>4. PluginSeesItsImages'
  <2> SUFFICES ASSUME NEW s \in Requests \ torn, called[s] # NoCall
      PROVE  handler'[s] = handler[s]
    BY <1>3 DEF ImageInv, PluginSeesItsImages
  <2> QED
    BY <1>3 DEF TypeOK
<1>5. PullInv' /\ PushInv' /\ CalledInv'
  BY <1>3 DEF ReadAtOnce, ReadLater, ReadFails, CallHandler, PullInv, PushInv, CalledInv
<1>6. UntouchedInv'
  BY <1>3 DEF ReadAtOnce, ReadLater, ReadFails, CallHandler, ImageInv, UntouchedInv, TypeOK
<1> QED
  BY <1>3, <1>4, <1>5, <1>6 DEF ImageInv

LEMMA ImageBody ==
  ASSUME TypeOK, ControlInv, ImageInv, NEW r \in Requests, Body(r)
  PROVE  ImageInv'
<1> USE DEF IdleVars, fileVars, localVars, historyVars
<1>1. CASE BodyFails(r)
  <2>1. ImageTypeOK'
    BY <1>1 DEF BodyFails, ImageInv, ImageTypeOK
  <2> QED
    BY <1>1, <2>1, ImageFinalize DEF BodyFails, ControlInv, CallbackInv
<1>2. CASE BodyComplete(r)
  <2>1. ImageTypeOK'
    BY <1>2 DEF BodyComplete, CallHandler, ImageInv, ImageTypeOK
  <2>2. PullInv' /\ PushInv' /\ CalledInv'
    BY <1>2 DEF BodyComplete, CallHandler, PullInv, PushInv, CalledInv
  <2>3. UntouchedInv'
    BY <1>2 DEF BodyComplete, CallHandler, ImageInv, UntouchedInv, TypeOK
  <2>4. PluginSeesItsImages'
    BY <1>2 DEF BodyComplete, CallHandler, ImageInv, PluginSeesItsImages
  <2> QED
    BY <2>1, <2>2, <2>3, <2>4 DEF ImageInv
<1> QED
  BY <1>1, <1>2 DEF Body

(* What a download holds after one more piece.                             *)
LEMMA OneMorePiece ==
  ASSUME NEW u, NEW k \in Nat
  PROVE  Append([i \in 1..k |-> <<u, i>>], <<u, k + 1>>) = [i \in 1..(k + 1) |-> <<u, i>>]
<1> DEFINE S == {<<u, i>> : i \in Nat}
           s == [i \in 1..k |-> <<u, i>>]
           t == [i \in 1..(k + 1) |-> <<u, i>>]
<1>1. s \in Seq(S) /\ t \in Seq(S) /\ Len(s) = k /\ Len(t) = k + 1 /\ <<u, k + 1>> \in S
  OBVIOUS
<1>2. /\ Append(s, <<u, k + 1>>) \in Seq(S) /\ Len(Append(s, <<u, k + 1>>)) = k + 1
      /\ \A i \in 1..(k + 1) : Append(s, <<u, k + 1>>)[i] = t[i]
  BY <1>1, AppendProperties
<1> HIDE DEF s, t, S
<1> QED
  BY <1>1, <1>2, SeqEqual

(* The plugin calls of the other requests stand.                           *)
LEMMA ImageSeen ==
  ASSUME PluginSeesItsImages, NEW r \in Requests, query' = query, called'[r] = NoCall,
         \A s \in Requests \ {r} :
           s \notin torn' /\ called'[s] # NoCall =>
             /\ s \in Requests \ torn /\ called[s] # NoCall
             /\ disk'[s] = disk[s] /\ called'[s] = called[s] /\ handler'[s] = handler[s]
  PROVE  PluginSeesItsImages'
<1> SUFFICES ASSUME NEW s \in Requests \ torn', called'[s] # NoCall
    PROVE  /\ s \in Requests \ torn /\ called[s] # NoCall
           /\ disk'[s] = disk[s] /\ called'[s] = called[s] /\ handler'[s] = handler[s]
  BY DEF PluginSeesItsImages
<1> QED OBVIOUS

\* Files, calls and history of the requests other than the one served.
LEMMA ImageOthers ==
  ASSUME TypeOK, ControlInv, ImageInv, NEW r \in Requests, cur = r, cur' = r,
         pc \in {"start", "fetch", "curl", "call", "plugin", "reply"}, pc' # "start",
         phase[r] = "running" \/ r \in torn,
         handler' = handler, query' = query, torn \subseteq torn',
         \A s \in Requests \ {r} : disk'[s] = disk[s] /\ called'[s] = called[s],
         \A s \in Requests \ {r} : phase'[s] = phase[s],
         phase'[r] \in {phase[r], "closed"}
  PROVE  /\ UntouchedInv'
         /\ \A s \in Requests \ {r} :
              s \notin torn' /\ called'[s] # NoCall =>
                /\ s \in Requests \ torn /\ called[s] # NoCall
                /\ disk'[s] = disk[s] /\ called'[s] = called[s] /\ handler'[s] = handler[s]
<1>1. ASSUME NEW s \in Requests, phase'[s] \in {"reading", "running", "sending"}
      PROVE  phase[s] \in {"reading", "running", "sending"}
  BY <1>1 DEF ControlInv, PhaseInv, CallbackInv, TypeOK
<1>2. phase[r] \in {"running", "closed"}
  BY DEF ControlInv, CallbackInv
<1>3. UntouchedInv'
  <2> SUFFICES ASSUME NEW s \in Requests
      PROVE  /\ phase'[s] \in {"new", "reading"} =>
                   called'[s] = NoCall /\ disk'[s] = <<>>
             /\ phase'[s] \in {"reading", "running", "sending"} =>
                  /\ handler'[s] \in {"push", "pull"} /\ query'[s].body # "empty"
                  /\ query'[s].args => query'[s].src = handler'[s]
    BY DEF UntouchedInv
  <2>1. CASE s = r
    BY <1>1, <1>2, <2>1 DEF ImageInv, UntouchedInv
  <2>2. CASE s # r
    BY <1>1, <2>2 DEF ImageInv, UntouchedInv
  <2> QED BY <2>1, <2>2
<1> QED
  BY <1>3

LEMMA ImagePush ==
  ASSUME TypeOK, ControlInv, ImageInv, NEW r \in Requests, Push(r)
  PROVE  ImageInv'
<1> USE DEF Push, Step, Goto, requestVars, fileVars
<1> DEFINE file == << <<"pushed", r>> >>
           image == [file |-> <<r, 1>>, name |-> "pushed_image"]
<1>1. called[r] = NoCall /\ disk[r] = <<>> /\ r \notin torn /\ phase[r] = "running"
      /\ query[r].body \notin {"absent", "empty"}
  BY DEF ImageInv, UntouchedInv, ControlInv, CallbackInv
<1>2. disk' = [disk EXCEPT ![r] = <<file>>] /\ image_name_vec' = <<image>>
  BY <1>1
<1>3. file \in Seq(Pieces) /\ image \in Images
  <2>1. <<"pushed", r>> \in Pieces
    BY DEF Pieces
  <2>2. <<r, 1>> \in Files
    BY DEF Files
  <2> QED
    BY <2>1, <2>2 DEF Images
<1>4. ImageTypeOK'
  BY <1>2, <1>3 DEF ImageInv, ImageTypeOK
<1>5. PushInv' /\ PullInv' /\ CalledInv'
  BY <1>1, <1>2 DEF PushInv, PullInv, CalledInv, TypeOK
<1>6. /\ UntouchedInv'
      /\ \A s \in Requests \ {r} :
           s \notin torn' /\ called'[s] # NoCall =>
             /\ s \in Requests \ torn /\ called[s] # NoCall
             /\ disk'[s] = disk[s] /\ called'[s] = called[s] /\ handler'[s] = handler[s]
  BY <1>1, <1>2, ImageOthers DEF TypeOK
<1>7. PluginSeesItsImages'
  <2>1. called'[r] = NoCall /\ query' = query /\ PluginSeesItsImages
    BY <1>1 DEF ImageInv
  <2> QED BY <1>6, <2>1, ImageSeen
<1> QED
  BY <1>4, <1>5, <1>6, <1>7 DEF ImageInv

LEMMA ImagePull ==
  ASSUME TypeOK, ControlInv, ImageInv, NEW r \in Requests, Pull(r)
  PROVE  ImageInv'
<1> USE DEF Pull, Step, Goto, requestVars, ResetFiles, historyVars
<1>1. called[r] = NoCall /\ disk[r] = <<>> /\ r \notin torn /\ phase[r] = "running"
  BY DEF ImageInv, UntouchedInv, ControlInv, CallbackInv
<1>2. query[r].urls \in Seq(Urls)
  BY DEF TypeOK, QueryType
<1>3. ImageTypeOK'
  BY <1>2 DEF ImageInv, ImageTypeOK
<1>4. PullInv'
  BY <1>1, <1>2 DEF PullInv, WholeImages, TypeOK
<1>5. PushInv' /\ CalledInv'
  BY DEF PushInv, CalledInv
<1>6. /\ UntouchedInv'
      /\ \A s \in Requests \ {r} :
           s \notin torn' /\ called'[s] # NoCall =>
             /\ s \in Requests \ torn /\ called[s] # NoCall
             /\ disk'[s] = disk[s] /\ called'[s] = called[s] /\ handler'[s] = handler[s]
  BY <1>1, ImageOthers DEF TypeOK
<1>7. PluginSeesItsImages'
  <2>1. called'[r] = NoCall /\ query' = query /\ PluginSeesItsImages
    BY <1>1 DEF ImageInv
  <2> QED BY <1>6, <2>1, ImageSeen
<1> QED
  BY <1>3, <1>4, <1>5, <1>6, <1>7 DEF ImageInv

LEMMA ImageNext ==
  ASSUME TypeOK, ControlInv, ImageInv, NEW r \in Requests, NextImage(r)
  PROVE  ImageInv'
<1> USE DEF NextImage, Step, Goto, requestVars
<1> DEFINE n == temp_file_cur_idx
           f == <<r, Len(disk[r]) + 1>>
<1>1. /\ called[r] = NoCall /\ r \notin torn /\ phase[r] = "running"
      /\ Len(disk[r]) = n /\ Len(temp_file_vec) = n
      /\ disk[r] \in Seq(Seq(Pieces)) /\ n \in Nat
  BY DEF ImageInv, PullInv, ControlInv, CallbackInv, TypeOK
<1>2. disk' = [disk EXCEPT ![r] = Append(disk[r], <<>>)]
      /\ temp_file_vec' = Append(temp_file_vec, <<r, n + 1>>)
  BY <1>1
<1>3. ImageTypeOK'
  <2>1. <<r, n + 1>> \in Files /\ <<>> \in Seq(Pieces)
    BY <1>1 DEF Files
  <2> QED
    BY <1>1, <1>2, <2>1 DEF ImageInv, ImageTypeOK
<1>4. PullInv'
  <2>1. /\ disk'[r] = Append(disk[r], <<>>)
        /\ \A i \in 1..n : disk'[r][i] = disk[r][i]
        /\ disk'[r][n + 1] = <<>> /\ Len(disk'[r]) = n + 1
    BY <1>1, <1>2 DEF TypeOK
  <2>2. /\ Len(temp_file_vec') = n + 1
        /\ \A i \in 1..(n + 1) : temp_file_vec'[i] = <<r, i>>
    BY <1>1, <1>2 DEF ImageInv, PullInv, TypeOK
  <2>3. Len(todo) # 0 /\ todo[1] \in Urls /\ Size[todo[1]] \in Nat
    BY DEF TypeOK
  <2>4. [i \in 1..0 |-> <<todo[1], i>>] = <<>>
    OBVIOUS
  <2> QED
    BY <1>1, <2>1, <2>2, <2>3, <2>4 DEF ImageInv, PullInv, WholeImages
<1>5. PushInv' /\ CalledInv'
  BY DEF PushInv, CalledInv
<1>6. /\ UntouchedInv'
      /\ \A s \in Requests \ {r} :
           s \notin torn' /\ called'[s] # NoCall =>
             /\ s \in Requests \ torn /\ called[s] # NoCall
             /\ disk'[s] = disk[s] /\ called'[s] = called[s] /\ handler'[s] = handler[s]
  BY <1>1, ImageOthers DEF TypeOK
<1>7. PluginSeesItsImages'
  <2>1. called'[r] = NoCall /\ query' = query /\ PluginSeesItsImages
    BY <1>1 DEF ImageInv
  <2> QED BY <1>6, <2>1, ImageSeen
<1> QED
  BY <1>3, <1>4, <1>5, <1>6, <1>7 DEF ImageInv

LEMMA ImageReceive ==
  ASSUME TypeOK, ControlInv, ImageInv, NEW r \in Requests, Receive(r)
  PROVE  ImageInv'
<1> USE DEF Receive, MorePieces, Step, Goto, requestVars, fileVars
<1> DEFINE n == temp_file_cur_idx
           u == todo[1]
           piece == <<u, pieces + 1>>
<1>1. /\ called[r] = NoCall /\ r \notin torn /\ phase[r] = "running" /\ todo # <<>>
      /\ Len(disk[r]) = n + 1 /\ Len(temp_file_vec) = n + 1 /\ CurrentFile = <<r, n + 1>>
      /\ disk[r] \in Seq(Seq(Pieces)) /\ n \in Nat /\ pieces \in Nat
      /\ disk[r][n + 1] = [i \in 1..pieces |-> <<u, i>>]
  BY DEF ImageInv, PullInv, ControlInv, CallbackInv, TypeOK, CurrentFile
<1>2. Head(todo) = u /\ u \in Urls /\ Size[u] \in Nat /\ pieces < Size[u]
  BY <1>1 DEF TypeOK
<1>3. disk' = [disk EXCEPT ![r] = [disk[r] EXCEPT ![n + 1] = Append(disk[r][n + 1], piece)]]
  BY <1>1, <1>2
<1>4. piece \in Pieces
  BY <1>1, <1>2 DEF Pieces
<1>5. /\ disk'[r] \in Seq(Seq(Pieces)) /\ Len(disk'[r]) = n + 1
      /\ \A i \in 1..n : disk'[r][i] = disk[r][i]
      /\ disk'[r][n + 1] = Append(disk[r][n + 1], piece)
  BY <1>1, <1>3, <1>4 DEF TypeOK
<1>6. disk'[r][n + 1] = [i \in 1..(pieces + 1) |-> <<u, i>>]
  <2>1. Append([i \in 1..pieces |-> <<u, i>>], piece) = [i \in 1..(pieces + 1) |-> <<u, i>>]
    BY <1>1, OneMorePiece
  <2> HIDE DEF Receive, u, n, piece
  <2> QED
    BY <1>1, <1>5, <2>1
<1>7. ImageTypeOK'
  BY <1>1, <1>3, <1>5 DEF ImageInv, ImageTypeOK
<1>8. PullInv'
  <2>1. /\ handler[r] = "pull" /\ query[r].body = "whole"
        /\ n = Len(image_name_vec)
        /\ Len(todo) + n = Len(query[r].urls)
        /\ \A i \in 1..Len(todo) : todo[i] = query[r].urls[n + i]
        /\ \A i \in 1..n : image_name_vec[i] = [file |-> <<r, i>>, name |-> query[r].urls[i]]
        /\ \A i \in 1..Len(temp_file_vec) : temp_file_vec[i] = <<r, i>>
        /\ WholeImages(r, n)
    BY <1>1 DEF ImageInv, PullInv
  <2>2. WholeImages(r, n)'
    BY <1>5, <2>1 DEF WholeImages
  <2>3. pieces + 1 <= Size[u]
    BY <1>1, <1>2
  <2> QED
    BY <1>1, <1>5, <1>6, <2>1, <2>2, <2>3 DEF PullInv
<1>9. PushInv' /\ CalledInv'
  BY DEF PushInv, CalledInv
<1>10. /\ UntouchedInv'
       /\ \A s \in Requests \ {r} :
            s \notin torn' /\ called'[s] # NoCall =>
              /\ s \in Requests \ torn /\ called[s] # NoCall
              /\ disk'[s] = disk[s] /\ called'[s] = called[s] /\ handler'[s] = handler[s]
  BY <1>1, <1>3, ImageOthers DEF TypeOK
<1>11. PluginSeesItsImages'
  <2>1. called'[r] = NoCall /\ query' = query /\ PluginSeesItsImages
    BY <1>1 DEF ImageInv
  <2> QED BY <1>10, <2>1, ImageSeen
<1> QED
  BY <1>7, <1>8, <1>9, <1>10, <1>11 DEF ImageInv

LEMMA ImageWriteFails ==
  ASSUME TypeOK, ControlInv, ImageInv, NEW r \in Requests, WriteFails(r)
  PROVE  ImageInv'
<1> USE DEF WriteFails, MorePieces, Step, fileVars
<1>1. called[r] = NoCall /\ r \notin torn /\ phase[r] = "running"
  BY DEF ImageInv, PullInv, ControlInv, CallbackInv, TypeOK
<1>2. ImageTypeOK'
  BY DEF ImageInv, ImageTypeOK
<1>3. PullInv'
  BY DEF ImageInv, PullInv, WholeImages
<1>4. PushInv' /\ CalledInv'
  BY DEF PushInv, CalledInv
<1>5. /\ \A s \in Requests \ {r} : phase'[s] = phase[s]
      /\ phase'[r] \in {phase[r], "closed"}
  BY DEF Finalize, Release, TypeOK
<1>6. /\ UntouchedInv'
      /\ \A s \in Requests \ {r} :
           s \notin torn' /\ called'[s] # NoCall =>
             /\ s \in Requests \ torn /\ called[s] # NoCall
             /\ disk'[s] = disk[s] /\ called'[s] = called[s] /\ handler'[s] = handler[s]
  BY <1>1, <1>5, ImageOthers
<1>7. PluginSeesItsImages'
  <2>1. called'[r] = NoCall /\ query' = query /\ PluginSeesItsImages
    BY <1>1 DEF ImageInv
  <2> QED BY <1>6, <2>1, ImageSeen
<1> QED
  BY <1>2, <1>3, <1>4, <1>6, <1>7 DEF ImageInv

LEMMA ImageFetchDone ==
  ASSUME TypeOK, ControlInv, ImageInv, NEW r \in Requests, FetchDone(r)
  PROVE  ImageInv'
<1> USE DEF FetchDone, Step, Goto, requestVars, historyVars
<1> DEFINE n == temp_file_cur_idx
           u == todo[1]
           image == [file |-> <<r, n + 1>>, name |-> u]
<1>1. /\ called[r] = NoCall /\ (phase[r] = "running" \/ r \in torn) /\ todo # <<>>
      /\ Len(temp_file_vec) = n + 1 /\ CurrentFile = <<r, n + 1>>
      /\ n \in Nat /\ Len(image_name_vec) = n
  BY SMTT(30) DEF ImageInv, PullInv, ControlInv, CallbackInv, TypeOK, CurrentFile
<1>2. Head(todo) = u /\ u \in Urls /\ Size[u] = pieces /\ Len(todo) \in Nat \ {0}
  BY <1>1 DEF TypeOK
<1>3. image_name_vec' = Append(image_name_vec, image) /\ temp_file_cur_idx' = n + 1
  BY <1>1, <1>2
<1>4. image \in Images
  <2>1. <<r, n + 1>> \in Files
    BY <1>1 DEF Files
  <2> QED
    BY <1>2, <2>1 DEF Images
<1>5. /\ todo' \in Seq(Urls) /\ Len(todo') = Len(todo) - 1
      /\ \A i \in 1..Len(todo') : todo'[i] = todo[i + 1]
  BY <1>2 DEF TypeOK
<1>6. ImageTypeOK'
  BY <1>1, <1>3, <1>4, <1>5 DEF ImageInv, ImageTypeOK
<1>7. PullInv'
  <2>0. /\ cur = r /\ cur' = r /\ pc' = "fetch" /\ handler' = handler /\ query' = query
        /\ called' = called /\ disk' = disk /\ torn' = torn /\ temp_file_vec' = temp_file_vec
    BY DEF fileVars
  <2>1. /\ handler[r] = "pull" /\ query[r].body = "whole"
        /\ n = Len(image_name_vec)
        /\ Len(todo) + n = Len(query[r].urls)
        /\ \A i \in 1..Len(todo) : todo[i] = query[r].urls[n + i]
        /\ \A i \in 1..n : image_name_vec[i] = [file |-> <<r, i>>, name |-> query[r].urls[i]]
        /\ \A i \in 1..Len(temp_file_vec) : temp_file_vec[i] = <<r, i>>
        /\ Len(disk[r]) = Len(temp_file_vec)
        /\ r \notin torn => WholeImages(r, n) /\ disk[r][n + 1] = [i \in 1..pieces |-> <<u, i>>]
    BY DEF ImageInv, PullInv
  <2> HIDE DEF FetchDone, Step, Goto, requestVars, historyVars
  <2>2. u = query[r].urls[n + 1]
    BY <1>2, <2>1
  <2>3. \A i \in 1..(n + 1) :
          image_name_vec'[i] = [file |-> <<r, i>>, name |-> query[r].urls[i]]
    <3>1. /\ \A i \in 1..n : image_name_vec'[i] = image_name_vec[i]
          /\ image_name_vec'[n + 1] = image
      BY <1>1, <1>3, <1>4, AppendProperties DEF TypeOK
    <3> SUFFICES ASSUME NEW i \in 1..(n + 1)
        PROVE  image_name_vec'[i] = [file |-> <<r, i>>, name |-> query[r].urls[i]]
      OBVIOUS
    <3>2. CASE i = n + 1
      BY <2>2, <3>1, <3>2
    <3>3. CASE i \in 1..n
      BY <2>1, <3>1, <3>3
    <3> QED BY <1>1, <3>2, <3>3
  <2>4. \A i \in 1..Len(todo') : todo'[i] = query[r].urls[n + 1 + i]
    BY <1>1, <1>2, <1>5, <2>1 DEF TypeOK
  <2>5. r \notin torn => WholeImages(r, n + 1)
    <3> SUFFICES ASSUME r \notin torn, NEW i \in 1..(n + 1)
        PROVE  disk[r][i] = Download(query[r].urls[i])
      BY DEF WholeImages
    <3>1. CASE i = n + 1
      BY <1>2, <2>1, <2>2, <3>1 DEF Download
    <3>2. CASE i \in 1..n
      BY <2>1, <3>2 DEF WholeImages
    <3> QED BY <1>1, <3>1, <3>2
  <2>6. Len(image_name_vec') = n + 1
    BY <1>1, <1>3, <1>4, AppendProperties DEF TypeOK
  <2>7. Len(todo') + (n + 1) = Len(query[r].urls)
    BY <1>1, <1>2, <1>5, <2>1
  <2>8. r \notin torn =>
          \A i \in 1..(n + 1) : disk'[r][i] = Download(query'[r].urls[i])
    BY <2>0, <2>5 DEF WholeImages
  <2>9. Len(temp_file_vec') = n + 1 /\ n + 1 = temp_file_cur_idx'
    BY <1>1, <1>3, <2>0
  <2>10. /\ handler'[r] = "pull" /\ query'[r].body = "whole" /\ called'[r] = NoCall
         /\ temp_file_cur_idx' = Len(image_name_vec')
         /\ Len(todo') + temp_file_cur_idx' = Len(query'[r].urls)
         /\ Len(temp_file_vec') = temp_file_cur_idx' /\ Len(disk'[r]) = Len(temp_file_vec')
    BY <1>1, <2>0, <2>1, <2>6, <2>7, <2>9
  <2>11. \A i \in 1..Len(todo') : todo'[i] = query'[r].urls[temp_file_cur_idx' + i]
    BY <2>0, <2>4, <2>9
  <2>12. \A i \in 1..temp_file_cur_idx' :
           image_name_vec'[i] = [file |-> <<r, i>>, name |-> query'[r].urls[i]]
    BY <2>0, <2>3, <2>9
  <2>13. \A i \in 1..Len(temp_file_vec') : temp_file_vec'[i] = <<r, i>>
    BY <2>0, <2>1
  <2>14. r \notin torn' =>
           \A i \in 1..temp_file_cur_idx' : disk'[r][i] = Download(query'[r].urls[i])
    BY <2>0, <2>8, <2>9
  <2> HIDE DEF n
  <2> QED
    BY <2>0, <2>10, <2>11, <2>12, <2>13, <2>14 DEF PullInv, WholeImages
<1>8. PushInv' /\ CalledInv'
  BY DEF PushInv, CalledInv
<1>9. /\ UntouchedInv'
      /\ \A s \in Requests \ {r} :
           s \notin torn' /\ called'[s] # NoCall =>
             /\ s \in Requests \ torn /\ called[s] # NoCall
             /\ disk'[s] = disk[s] /\ called'[s] = called[s] /\ handler'[s] = handler[s]
  <2>1. phase'[r] \in {phase[r], "closed"}
    OBVIOUS
  <2> QED
    BY <1>1, <2>1, ImageOthers
<1>10. PluginSeesItsImages'
  <2>1. called'[r] = NoCall /\ query' = query /\ PluginSeesItsImages
    BY <1>1 DEF ImageInv
  <2> QED BY <1>9, <2>1, ImageSeen
<1> QED
  BY <1>6, <1>7, <1>8, <1>9, <1>10 DEF ImageInv

(* The plugin is called, and its JSON becomes the reply.                   *)

LEMMA ImageCall ==
  ASSUME TypeOK, ControlInv, ImageInv, NEW r \in Requests, CallPlugin(r)
  PROVE  ImageInv'
<1>0. PICK name \in PluginNames(r) :
        /\ name \in Loaded
        /\ called' = [called EXCEPT ![r] =
             [plugin |-> name, ext |-> name \in NeedsExt, images |-> image_name_vec]]
  BY DEF CallPlugin, Runs
<1>1. /\ cur = r /\ cur' = r /\ pc' = "plugin" /\ pc \in {"fetch", "call"}
      /\ disk' = disk /\ handler' = handler /\ query' = query /\ torn' = torn /\ phase' = phase
      /\ UNCHANGED localVars /\ UNCHANGED fileVars
      /\ (pc = "fetch" => todo = <<>>)
  BY DEF CallPlugin, ReadyToCall, Step, Goto, requestVars
<1>2. [plugin |-> name, ext |-> name \in NeedsExt, images |-> image_name_vec] \in Calls
  BY <1>0 DEF Calls, ImageInv, ImageTypeOK
<1>3. ImageTypeOK' /\ called'[r] # NoCall
      /\ called'[r].images = image_name_vec
      /\ \A s \in Requests \ {r} : called'[s] = called[s]
  BY <1>0, <1>1, <1>2 DEF ImageInv, ImageTypeOK, NoCall, localVars, fileVars
<1>4. PullInv' /\ PushInv' /\ CalledInv'
  BY <1>1, <1>3 DEF PullInv, PushInv, CalledInv
<1>5. /\ UntouchedInv'
      /\ \A s \in Requests \ {r} :
           s \notin torn' /\ called'[s] # NoCall =>
             /\ s \in Requests \ torn /\ called[s] # NoCall
             /\ disk'[s] = disk[s] /\ called'[s] = called[s] /\ handler'[s] = handler[s]
  <2>1. phase[r] = "running" \/ r \in torn
    BY <1>1 DEF ControlInv, CallbackInv
  <2> QED
    BY <1>1, <1>3, <2>1, ImageOthers
<1>6. ASSUME r \notin torn
      PROVE  IF handler[r] = "pull"
             THEN /\ image_name_vec =
                       [i \in DOMAIN query[r].urls |->
                          [file |-> <<r, i>>, name |-> query[r].urls[i]]]
                  /\ disk[r] = [i \in DOMAIN query[r].urls |-> Download(query[r].urls[i])]
             ELSE /\ image_name_vec = << [file |-> <<r, 1>>, name |-> "pushed_image"] >>
                  /\ disk[r] = << << <<"pushed", r>> >> >>
  <2>1. CASE pc = "call"
    BY <1>1, <2>1 DEF ImageInv, PushInv, TypeOK
  <2>2. CASE pc = "fetch"
    <3>1. query[r].urls \in Seq(Urls) /\ Len(todo) = 0
      BY <1>1, <2>2 DEF TypeOK, QueryType
    <3>2. /\ handler[r] = "pull"
          /\ Len(image_name_vec) = Len(query[r].urls) /\ Len(disk[r]) = Len(query[r].urls)
          /\ \A i \in 1..Len(query[r].urls) :
               /\ image_name_vec[i] = [file |-> <<r, i>>, name |-> query[r].urls[i]]
               /\ disk[r][i] = Download(query[r].urls[i])
      BY <1>1, <1>6, <2>2, <3>1 DEF ImageInv, PullInv, WholeImages, TypeOK
    <3>3. image_name_vec \in Seq(Images) /\ disk[r] \in Seq(Seq(Pieces))
      BY DEF TypeOK
    <3>4. /\ DOMAIN query[r].urls = 1..Len(query[r].urls)
          /\ image_name_vec \in [1..Len(query[r].urls) -> Images]
          /\ disk[r] \in [1..Len(query[r].urls) -> Seq(Pieces)]
      BY <3>1, <3>2, <3>3, LenProperties
    <3>5. image_name_vec =
            [i \in DOMAIN query[r].urls |-> [file |-> <<r, i>>, name |-> query[r].urls[i]]]
      BY <3>2, <3>4
    <3>6. disk[r] = [i \in DOMAIN query[r].urls |-> Download(query[r].urls[i])]
      BY <3>2, <3>4
    <3> QED
      BY <3>2, <3>5, <3>6
  <2> QED BY <1>1, <2>1, <2>2
<1>7. PluginSeesItsImages'
  <2> SUFFICES ASSUME NEW s \in Requests \ torn', called'[s] # NoCall
      PROVE  IF handler'[s] = "pull"
             THEN /\ called'[s].images =
                       [i \in DOMAIN query'[s].urls |->
                          [file |-> <<s, i>>, name |-> query'[s].urls[i]]]
                  /\ disk'[s] = [i \in DOMAIN query'[s].urls |-> Download(query'[s].urls[i])]
             ELSE /\ called'[s].images = << [file |-> <<s, 1>>, name |-> "pushed_image"] >>
                  /\ disk'[s] = << << <<"pushed", s>> >> >>
    BY DEF PluginSeesItsImages
  <2>1. CASE s = r
    BY <1>1, <1>3, <1>6, <2>1
  <2>2. CASE s # r
    BY <1>1, <1>5, <2>2 DEF ImageInv, PluginSeesItsImages
  <2> QED BY <2>1, <2>2
<1> QED
  BY <1>3, <1>4, <1>5, <1>7 DEF ImageInv

LEMMA ImagePluginReturns ==
  ASSUME TypeOK, ControlInv, ImageInv, NEW r \in Requests, PluginReturns(r)
  PROVE  ImageInv'
<1>1. /\ cur = r /\ cur' = r /\ pc' = "reply" /\ pc = "plugin"
      /\ disk' = disk /\ handler' = handler /\ query' = query /\ torn' = torn
      /\ phase' = phase /\ called' = called
      /\ UNCHANGED localVars /\ UNCHANGED fileVars /\ r \notin torn
  BY DEF PluginReturns, Step, Goto, requestVars, historyVars
<1>2. ImageTypeOK'
  BY <1>1 DEF ImageInv, ImageTypeOK, localVars, fileVars
<1>3. PullInv' /\ PushInv' /\ CalledInv'
  BY <1>1 DEF ImageInv, PullInv, PushInv, CalledInv
<1>4. UntouchedInv' /\ PluginSeesItsImages'
  BY <1>1 DEF ImageInv, UntouchedInv, PluginSeesItsImages
<1> QED
  BY <1>2, <1>3, <1>4 DEF ImageInv

LEMMA ImageStep ==
  ASSUME TypeOK, ControlInv, ImageInv, NEW r \in Requests,
         Arrive(r) \/ Body(r) \/ Origin(r) \/ Plugin(r) \/ Callback(r) \/ Writer(r)
  PROVE  ImageInv'
<1>t. ASSUME UNCHANGED <<localVars, historyVars>>, temp_file_cur_idx' = temp_file_cur_idx,
             temp_file_vec' \in Seq(Files)
      PROVE  ImageTypeOK'
  BY <1>t DEF ImageInv, ImageTypeOK, localVars, historyVars
<1>v. ASSUME UNCHANGED fileVars
      PROVE  temp_file_cur_idx' = temp_file_cur_idx /\ temp_file_vec' \in Seq(Files)
  BY <1>v DEF ImageInv, ImageTypeOK, fileVars
<1>d. ASSUME WorkerDies(r) PROVE ImageInv'
  BY <1>d, ImageWorkerDies
<1>f. ASSUME Fail(r, "400") \/ Fail(r, "500"), UNCHANGED <<localVars, historyVars>>,
             temp_file_cur_idx' = temp_file_cur_idx, temp_file_vec' \in Seq(Files)
      PROVE  ImageInv'
  BY <1>f, <1>t, ImageFail
<1>1. CASE Arrive(r) \/ Body(r)
  BY <1>1, ImageArrive, ImageBody
<1>2. CASE Origin(r)
  <2>1. CASE FetchFails(r)
    BY <2>1, <1>f, <1>v DEF FetchFails
  <2> QED
    BY <1>2, <2>1, <1>d, ImageReceive, ImageWriteFails, ImageFetchDone
       DEF Origin, ReceiveAfterFinalize
<1>3. CASE Plugin(r)
  BY <1>3, <1>d, <1>f, <1>v, ImagePluginReturns
     DEF Plugin, PluginFails, PluginCrashes, AllocFails
<1>4. CASE Callback(r)
  <2>1. CASE ClientSend(r)
    <3>1. ImageTypeOK'
      BY <2>1, <1>t, <1>v DEF ClientSend
    <3>2. out_cl \in Answers
      BY DEF TypeOK, Answers
    <3> QED
      BY <2>1, <3>1, <3>2, ImageFinalize DEF ClientSend, historyVars
  <2>2. CASE Return(r)
    <3>1. ImageTypeOK'
      BY <2>2, <1>t, <1>v DEF Return
    <3>2. phase[r] \in {"running", "closed"}
      BY <2>2 DEF Return, Step, ControlInv, CallbackInv
    <3> QED
      BY <2>2, <3>1, <3>2, ImageFrame DEF Return, historyVars, TypeOK
  <2>3. CASE CreateFails(r)
    <3>1. temp_file_vec' \in Seq(Files)
      <4>1. <<r, Len(disk[r]) + 1>> \in Files
        BY DEF TypeOK, Files
      <4> QED
        BY <2>3, <4>1 DEF CreateFails, TypeOK
    <3> QED
      BY <2>3, <3>1, <1>f DEF CreateFails
  <2>4. CASE PullRefused(r) \/ NoPlugin(r) \/ CallFails(r)
    BY <2>4, <1>f, <1>v DEF PullRefused, NoPlugin, CallFails
  <2>5. CASE NoBody(r) \/ UseAfterFinalize(r)
    BY <2>5, <1>d DEF NoBody, UseAfterFinalize
  <2> QED
    BY <1>4, <2>1, <2>2, <2>3, <2>4, <2>5, ImagePush, ImagePull, ImageNext, ImageCall
       DEF Callback
<1>5. CASE Writer(r)
  <2>1. ImageTypeOK'
    BY <1>5, <1>t, <1>v DEF Writer, Flush, ClientGone, IdleVars
  <2>2. /\ Release(r) /\ pc' = "idle" /\ cur' = None
        /\ query' = query /\ handler' = handler /\ UNCHANGED historyVars
    BY <1>5 DEF Writer, Flush, ClientGone, IdleVars, ControlInv, CallbackInv
  <2> QED
    BY <2>1, <2>2, ImageFinalize DEF historyVars
<1> QED
  BY <1>1, <1>2, <1>3, <1>4, <1>5

-----------------------------------------------------------------------------
(* The replies                                                             *)

\* r is the only request that a step answers, and with no JSON but its own.
LEMMA ReplyFrame ==
  ASSUME ReplyIsOwn, NEW r \in Requests,
         \A s \in Requests \ {r} :
           {got'[s], out'[s]} \cap Requests \subseteq {got[s], out[s]} \cap Requests,
         {got'[r], out'[r]} \cap Requests # {} =>
           {got'[r], out'[r]} \cap Requests = {r} /\ called[r] # NoCall /\ r \notin torn',
         \A s \in Requests : called[s] # NoCall => called'[s] # NoCall,
         torn' \subseteq torn \cup {r}
  PROVE  ReplyIsOwn'
<1> SUFFICES ASSUME NEW s \in Requests, {got'[s], out'[s]} \cap Requests # {}
    PROVE  /\ {got'[s], out'[s]} \cap Requests = {s}
           /\ called'[s] # NoCall /\ s \notin torn'
  BY DEF ReplyIsOwn
<1>1. CASE s = r
  BY <1>1
<1>2. CASE s # r
  BY <1>2 DEF ReplyIsOwn
<1> QED
  BY <1>1, <1>2

LEMMA ReplyStep ==
  ASSUME TypeOK, ControlInv, ImageInv, ReplyIsOwn, NEW r \in Requests,
         Arrive(r) \/ Body(r) \/ Origin(r) \/ Plugin(r) \/ Callback(r) \/ Writer(r)
  PROVE  ReplyIsOwn'
<1>s. ASSUME got' = got, out' = out, torn' = torn, called' = called PROVE ReplyIsOwn'
  BY <1>s DEF ReplyIsOwn
<1>d. ASSUME WorkerDies(r) PROVE ReplyIsOwn'
  <2>1. called' = called /\ torn' = torn
    BY <1>d DEF WorkerDies, historyVars
  <2>2. ASSUME NEW s \in Requests
        PROVE  {got'[s], out'[s]} \cap Requests \subseteq {got[s], out[s]} \cap Requests
    BY <1>d DEF WorkerDies
  <2> QED
    BY <2>1, <2>2 DEF ReplyIsOwn
<1>e. ASSUME NEW answer \in {"400", "500", "closed"}, called' = called, torn' = torn,
             \/ got' = [got EXCEPT ![r] = answer] /\ out' = out
             \/ got' = got /\ out' = [out EXCEPT ![r] = answer]
             \/ got' = [got EXCEPT ![r] = answer] /\ out' = [out EXCEPT ![r] = None]
             \/ got' = got /\ out' = [out EXCEPT ![r] = None]
      PROVE  ReplyIsOwn'
  <2>0. answer \notin Requests /\ None \notin Requests
    BY AnswerAssumption, NoneAssumption
  <2>t. got \in [Requests -> Answers \cup {"closed", "lost"}] /\ out \in [Requests -> Answers]
    BY DEF TypeOK
  <2>1. \A s \in Requests \ {r} : got'[s] = got[s] /\ out'[s] = out[s]
    BY <1>e, <2>t
  <2>2. got'[r] \in {got[r], answer} /\ out'[r] \in {out[r], answer, None}
    BY <1>e, <2>t
  <2>3. {got'[r], out'[r]} \cap Requests \subseteq {got[r], out[r]} \cap Requests
    BY <2>0, <2>2
  <2>4. \A s \in Requests :
          {got'[s], out'[s]} \cap Requests \subseteq {got[s], out[s]} \cap Requests
    BY <2>1, <2>3
  <2> QED
    BY <1>e, <2>4 DEF ReplyIsOwn
<1>f. ASSUME Fail(r, "400") \/ Fail(r, "500"), UNCHANGED historyVars
      PROVE  ReplyIsOwn'
  <2>0. torn' = torn /\ called' = called
    BY <1>f DEF historyVars
  <2>1. CASE Answered(r)
    <3>1. got' = [got EXCEPT ![r] = "closed"] \/ got' = got
      BY <1>f, <2>1 DEF Fail, FinalizeAgain, requestVars, TypeOK
    <3>2. out' = [out EXCEPT ![r] = None] \/ (out' = out /\ got' = got)
      BY <1>f, <2>1 DEF Fail, FinalizeAgain, requestVars
    <3> QED
      BY <2>0, <3>1, <3>2, <1>s, <1>e
  <2>2. CASE ~Answered(r)
    BY <1>f, <2>0, <2>2, <1>e DEF Fail, Finalize
  <2> QED BY <2>1, <2>2
<1>1. CASE Arrive(r)
  BY <1>1, <1>s, <1>d, <1>e DEF Arrive, Refuse, WildSrc, ReadAtOnce, ReadLater, ReadFails,
     CallHandler, IdleVars, historyVars
<1>2. CASE Body(r)
  BY <1>2, <1>s, <1>e DEF Body, BodyComplete, BodyFails, CallHandler, IdleVars, historyVars
<1>3. CASE Origin(r)
  <2>1. CASE WriteFails(r)
    <3>1. got[r] = None /\ out[r] = None
      BY <2>1 DEF WriteFails, MorePieces, Step, ControlInv, CallbackInv
    <3>2. \A s \in Requests \ {r} : got'[s] = got[s] /\ out'[s] = out[s]
      BY <2>1 DEF WriteFails, Finalize, TypeOK
    <3>3. got'[r] \in {None, "500", "closed"} /\ out'[r] \in {None, "500"}
      BY <2>1, <3>1 DEF WriteFails, Finalize, TypeOK
    <3>4. called' = called /\ torn' = torn \cup {r}
      BY <2>1 DEF WriteFails
    <3> QED
      BY <3>2, <3>3, <3>4, ReplyFrame
  <2> QED
    BY <1>3, <2>1, <1>s, <1>d, <1>f DEF Origin, Receive, ReceiveAfterFinalize, FetchDone,
       FetchFails, Goto, requestVars, historyVars
<1>4. CASE Plugin(r)
  BY <1>4, <1>s, <1>d, <1>f DEF Plugin, PluginReturns, PluginFails, PluginCrashes,
     AllocFails, Goto, requestVars, historyVars
<1>5. CASE Callback(r)
  <2>1. CASE ClientSend(r)
    <3>1. got[r] = None /\ out[r] = None /\ out_cl = r /\ called[r] # NoCall /\ r \notin torn
      BY <2>1 DEF ClientSend, Step, ControlInv, CallbackInv, ImageInv, CalledInv
    <3>2. \A s \in Requests \ {r} : got'[s] = got[s] /\ out'[s] = out[s]
      BY <2>1 DEF ClientSend, Finalize, TypeOK
    <3>3. got'[r] \in {None, r, "closed"} /\ out'[r] \in {None, r}
      BY <2>1, <3>1 DEF ClientSend, Finalize, TypeOK
    <3>4. called' = called /\ torn' = torn
      BY <2>1 DEF ClientSend, historyVars
    <3> QED
      BY <3>1, <3>2, <3>3, <3>4, ReplyFrame
  <2>2. CASE CallPlugin(r)
    <3>1. got' = got /\ out' = out /\ torn' = torn
      BY <2>2 DEF CallPlugin, Goto, requestVars
    <3>2. \A s \in Requests : called[s] # NoCall => called'[s] # NoCall
      BY <2>2 DEF CallPlugin, Runs, NoCall, TypeOK
    <3> QED
      BY <3>1, <3>2, ReplyFrame DEF ReplyIsOwn
  <2>3. CASE Return(r)
    BY <2>3, <1>s DEF Return, historyVars
  <2>4. CASE Push(r) \/ Pull(r) \/ NextImage(r)
    BY <2>4, <1>s DEF Push, Pull, NextImage, Goto, requestVars, historyVars
  <2>5. CASE NoBody(r) \/ UseAfterFinalize(r)
    BY <2>5, <1>d DEF NoBody, UseAfterFinalize
  <2>6. CASE PullRefused(r) \/ CreateFails(r) \/ NoPlugin(r) \/ CallFails(r)
    BY <2>6, <1>f DEF PullRefused, CreateFails, NoPlugin, CallFails
  <2> QED BY <1>5, <2>1, <2>2, <2>3, <2>4, <2>5, <2>6 DEF Callback
<1>6. CASE Writer(r)
  <2>1. CASE Flush(r)
    <3>1. /\ \A s \in Requests \ {r} : got'[s] = got[s] /\ out'[s] = out[s]
          /\ got'[r] = out[r] /\ out'[r] = None
          /\ called' = called /\ torn' = torn
      BY <2>1 DEF Flush, IdleVars, historyVars, TypeOK
    <3> QED
      BY <3>1, ReplyFrame DEF ReplyIsOwn
  <2>2. CASE ClientGone(r)
    BY <2>2, <1>e DEF ClientGone, IdleVars, historyVars
  <2> QED BY <1>6, <2>1, <2>2 DEF Writer
<1> QED
  BY <1>1, <1>2, <1>3, <1>4, <1>5, <1>6

-----------------------------------------------------------------------------
(* The theorems                                                            *)

LEMMA IInvParts == IInv <=> TypeOK /\ ControlInv /\ ImageInv /\ ReplyIsOwn
<1>1. TypeOK => ImageTypeOK
  BY DEF TypeOK, ImageTypeOK
<1> QED
  BY <1>1 DEF IInv, ImageInv

LEMMA IInvStep == IInv /\ [Next]_vars => IInv'
<1> SUFFICES ASSUME IInv, [Next]_vars PROVE IInv'
  OBVIOUS
<1>1. CASE UNCHANGED vars
  BY <1>1, SMTT(30) DEF vars, requestVars, fileVars, confVars, localVars, historyVars, IInv, TypeOK,
     ControlInv, PhaseInv, CallbackInv, Answered, PullInv, WholeImages, PushInv, UntouchedInv,
     CalledInv, PluginSeesItsImages, ReplyIsOwn
<1>2. ASSUME NEW r \in Requests,
             Arrive(r) \/ Body(r) \/ Origin(r) \/ Plugin(r) \/ Callback(r) \/ Writer(r)
      PROVE  IInv'
  <2>1. ControlInv'
    BY ControlStep
  <2>2. ImageInv' /\ ReplyIsOwn'
    BY <1>2, IInvParts, ImageStep, ReplyStep
  <2>3. RequestTypeOK' /\ CallbackTypeOK'
    BY <1>2, IInvParts, RequestTypeStep, CallbackTypeStep
  <2>4. TypeOK'
    BY <2>2, <2>3 DEF ImageInv, TypeOK, RequestTypeOK, CallbackTypeOK, ImageTypeOK
  <2> QED
    BY <2>1, <2>2, <2>4 DEF IInv, ImageInv
<1> QED
  BY <1>1, <1>2 DEF Next, AllServed

(* The inductive invariant holds in every reachable state.                 *)
THEOREM Invariance == Spec => []IInv
<1> QED
  BY InitInv, IInvStep, PTL DEF Spec

(* Type correctness of the worker.                                         *)
THEOREM TypeCorrect == Spec => []TypeOK
<1>1. IInv => TypeOK
  BY DEF IInv
<1> QED
  BY Invariance, <1>1, PTL

(* No reference to a request is leaked, and none is dropped while it is in *)
(* use, as long as no write to a temporary file fails.                     *)
THEOREM CountIsRight == Spec => []ReferencesCounted
<1>1. IInv => ReferencesCounted
  <2> SUFFICES ASSUME IInv, NEW r \in Requests \ torn
      PROVE  /\ refs[r] = Holders(r)
             /\ phase[r] = "closed" <=> got[r] # None /\ ~(cur = r /\ inline)
    BY DEF ReferencesCounted
  <2>1. PhaseInv(r) /\ CallbackInv /\ TypeOK
    BY DEF IInv, ControlInv
  <2> QED
    BY <2>1 DEF PhaseInv, CallbackInv, TypeOK, Holders
<1> QED
  BY Invariance, <1>1, PTL

(* Every path of a callback finalizes its request exactly once.            *)
THEOREM OneFinalize == Spec => []FinalizedOnce
<1>1. IInv => FinalizedOnce
  BY DEF IInv, ControlInv, PhaseInv, CallbackInv, Answered, FinalizedOnce
<1> QED
  BY Invariance, <1>1, PTL

(* The write callback of curl writes to the file of the current image.     *)
THEOREM WritesToOwnFile == Spec => []CurrentFileIsOwn
<1>1. IInv => CurrentFileIsOwn
  <2> SUFFICES ASSUME IInv, pc \in {"fetch", "curl"} PROVE CurrentFileIsOwn
    BY DEF CurrentFileIsOwn
  <2>1. cur # None /\ PullInv /\ DOMAIN temp_file_vec = 1..Len(temp_file_vec)
    BY DEF IInv, ControlInv, CallbackInv, TypeOK
  <2> QED
    BY <2>1 DEF PullInv, CurrentFileIsOwn
<1> QED
  BY Invariance, <1>1, PTL

(* The plugin gets the images of the request, whole and in their order.    *)
THEOREM RightImages == Spec => []PluginSeesItsImages
<1>1. IInv => PluginSeesItsImages
  BY DEF IInv
<1> QED
  BY Invariance, <1>1, PTL

(* No client receives the JSON of another one.                             *)
THEOREM OwnReply == Spec => []ReplyIsOwn
<1>1. IInv => ReplyIsOwn
  BY DEF IInv
<1> QED
  BY Invariance, <1>1, PTL

-----------------------------------------------------------------------------
(* The worker implements ImageService: every step of GraphWorker is a step *)
(* of the service or changes nothing that clients see.                     *)

Asked   == {r \in Requests : phase[r] # "new"}
Call(r) == [plugin |-> called[r].plugin,
            names  |-> [i \in DOMAIN called[r].images |-> called[r].images[i].name]]

\* A call that was made names a loaded plugin.
CallNamed == \A r \in Requests : called[r] # NoCall => called[r].plugin \in Loaded

RInv == IInv /\ CallNamed

-----------------------------------------------------------------------------
(* Calls                                                                   *)

LEMMA CallNamedInit == Init => CallNamed
<1> QED
  BY DEF Init, CallNamed

LEMMA CallNamedStep == TypeOK /\ CallNamed /\ [Next]_vars => CallNamed'
<1> SUFFICES ASSUME TypeOK, CallNamed, [Next]_vars PROVE CallNamed'
  OBVIOUS
<1>0. ASSUME called' = called PROVE CallNamed'
  BY <1>0 DEF CallNamed
<1>1. CASE UNCHANGED vars
  BY <1>0, <1>1 DEF vars, historyVars
<1>2. ASSUME NEW r \in Requests, CallPlugin(r) PROVE CallNamed'
  <2>1. PICK name \in PluginNames(r) :
          /\ Runs(r, name)
          /\ called' = [called EXCEPT ![r] =
               [plugin |-> name, ext |-> name \in NeedsExt, images |-> image_name_vec]]
    BY <1>2 DEF CallPlugin
  <2>2. called \in [Requests -> Calls]
    BY DEF TypeOK
  <2>3. name \in Loaded
    BY <2>1 DEF Runs
  <2> QED
    BY <2>1, <2>2, <2>3 DEF CallNamed
<1>3. ASSUME NEW r \in Requests,
             Arrive(r) \/ Body(r) \/ Origin(r) \/ Plugin(r) \/ Callback(r) \/ Writer(r),
             ~CallPlugin(r)
      PROVE  called' = called
  <2>1. CASE Arrive(r) \/ Body(r) \/ Writer(r)
    BY <2>1 DEF Arrive, Refuse, WildSrc, ReadAtOnce, ReadLater, ReadFails, CallHandler,
       WorkerDies, Body, BodyComplete, BodyFails, Writer, Flush, ClientGone, IdleVars,
       historyVars
  <2>2. CASE Origin(r) \/ Plugin(r)
    BY <2>2 DEF Origin, Receive, WriteFails, ReceiveAfterFinalize, FetchDone, FetchFails,
       Plugin, PluginReturns, PluginFails, PluginCrashes, AllocFails, WorkerDies, historyVars
  <2>3. CASE Callback(r)
    BY <1>3, <2>3 DEF Callback, NoBody, Push, PullRefused, Pull, NextImage, CreateFails,
       UseAfterFinalize, NoPlugin, CallFails, ClientSend, Return, WorkerDies, historyVars
  <2> QED
    BY <1>3, <2>1, <2>2, <2>3
<1> QED
  BY <1>0, <1>1, <1>2, <1>3 DEF Next, AllServed

LEMMA NoCallIsNoCall ==
  ASSUME NEW r \in Requests, called[r] = NoCall
  PROVE  Call(r) = Service!NoCall
<1>1. DOMAIN called[r].images = {} /\ called[r].plugin = None
  BY DEF NoCall
<1>2. [i \in DOMAIN called[r].images |-> called[r].images[i].name] = <<>>
  BY <1>1
<1> QED
  BY <1>1, <1>2 DEF Call, Service!NoCall

LEMMA CallIsCall ==
  ASSUME CallNamed, NEW r \in Requests, called[r] # NoCall
  PROVE  Call(r) # Service!NoCall
<1>1. called[r].plugin # None
  BY NoneAssumption, PluginAssumption DEF CallNamed
<1> QED
  BY <1>1 DEF Call, Service!NoCall

-----------------------------------------------------------------------------
(* How the two state spaces correspond                                     *)

\* The service as its clients see it in a step that answers r with an error.
LEMMA RefuseStep ==
  ASSUME NEW r \in Requests, got[r] = None,
         NEW error \in {"400", "500", "closed"},
         got' = [got EXCEPT ![r] = error],
         Asked' = Asked \cup {r}, called' = called, query' = query,
         torn' \in {torn, torn \cup {r}}
  PROVE  Service!Refuse(r)
<1>1. \A s \in Requests : Call(s)' = Call(s)
  BY DEF Call
<1> QED
  BY <1>1, ZenonT(30) DEF Service!Refuse, Asked, Call

LEMMA AnswerStep ==
  ASSUME CallNamed, NEW r \in Requests, got[r] = None, r \in Asked,
         got' = [got EXCEPT ![r] = r], called[r] # NoCall, r \notin torn,
         Asked' = Asked, called' = called, query' = query, torn' = torn
  PROVE  Service!Reply(r)
<1>1. Call(r) # Service!NoCall
  BY CallIsCall
<1> QED
  BY <1>1 DEF Service!Reply, Service!Open, Asked, Call

LEMMA LoseStep ==
  ASSUME NEW r \in Requests, WorkerDies(r)
  PROVE  Service!Lose(r)
<1> DEFINE held == {r} \cup {s \in Requests : phase[s] # "new"}
<1>1. phase' = [s \in Requests |-> IF s \in held THEN "closed" ELSE "new"]
  BY DEF WorkerDies
<1>2. Asked' = held /\ held = Asked \cup {r}
  BY <1>1 DEF Asked
<1>3. got' = [s \in Requests |-> IF s \in held /\ got[s] = None THEN "lost" ELSE got[s]]
  BY DEF WorkerDies
<1>4. UNCHANGED <<query, called, torn>>
  BY DEF WorkerDies, historyVars
<1> QED
  BY <1>2, <1>3, <1>4 DEF Service!Lose, Asked, Call

LEMMA StutterStep ==
  ASSUME Asked' = Asked, UNCHANGED <<query, called, got, torn>>
  PROVE  UNCHANGED Service!svars
BY DEF Service!svars, Asked

\* A phase that changes for r alone, from and to one in which it has arrived.
LEMMA AskedFrame ==
  ASSUME TypeOK, NEW r \in Requests, NEW p,
         phase' = [phase EXCEPT ![r] = p], p # "new"
  PROVE  Asked' = Asked \cup {r}
BY DEF TypeOK, Asked

\* What closing a reference does to the set of requests that have arrived.
LEMMA AskedRelease ==
  ASSUME TypeOK, NEW r \in Requests, phase[r] # "new", Release(r)
  PROVE  Asked' = Asked /\ Asked = Asked \cup {r}
<1>1. phase' = [phase EXCEPT ![r] = IF refs[r] = 1 THEN "closed" ELSE @]
  BY DEF Release
<1> QED
  BY <1>1 DEF TypeOK, Asked

-----------------------------------------------------------------------------
(* Steps                                                                   *)

\* Finalizing r with an error: its client gets it, or it waits for the client.
LEMMA FinalizeMaps ==
  ASSUME TypeOK, NEW r \in Requests, got[r] = None, phase[r] # "new",
         NEW error \in {"400", "500"}, Finalize(r, error),
         UNCHANGED <<query, called, torn>>
  PROVE  Service!Refuse(r) \/ UNCHANGED Service!svars
<1>0. Asked = Asked \cup {r}
  BY DEF Asked
<1>1. CASE got' = [got EXCEPT ![r] = error] /\ Release(r)
  <2>1. Asked' = Asked
    BY <1>1, AskedRelease
  <2> QED
    BY <1>0, <1>1, <2>1, RefuseStep
<1>2. CASE UNCHANGED <<got, phase>>
  <2>1. Asked' = Asked
    BY <1>2 DEF Asked
  <2> QED
    BY <1>2, <2>1, StutterStep
<1>3. CASE got' = [got EXCEPT ![r] = "closed"] /\ Release(r)
  <2>1. Asked' = Asked
    BY <1>3, AskedRelease
  <2> QED
    BY <1>0, <1>3, <2>1, RefuseStep
<1> QED
  BY <1>1, <1>2, <1>3 DEF Finalize

LEMMA FailMaps ==
  ASSUME TypeOK, NEW r \in Requests, phase[r] # "new", NEW error \in {"400", "500"},
         Fail(r, error), UNCHANGED historyVars
  PROVE  Service!Refuse(r) \/ UNCHANGED Service!svars
<1>0. UNCHANGED <<query, called, torn>> /\ Asked = Asked \cup {r}
  BY DEF Fail, historyVars, Asked
<1>1. CASE ~Answered(r)
  BY <1>0, <1>1, FinalizeMaps DEF Fail, Answered
<1>2. CASE Answered(r) /\ phase[r] = "closed"
  <2>1. UNCHANGED <<phase, got>>
    BY <1>2 DEF Fail, FinalizeAgain, requestVars
  <2> QED
    BY <1>0, <2>1, StutterStep DEF Asked
<1>3. CASE Answered(r) /\ phase[r] # "closed"
  <2>1. got' = [got EXCEPT ![r] = IF @ = None THEN "closed" ELSE @] /\ Release(r)
    BY <1>3 DEF Fail, FinalizeAgain
  <2>2. Asked' = Asked
    BY <2>1, AskedRelease
  <2>3. CASE got[r] = None
    <3>1. got' = [got EXCEPT ![r] = "closed"]
      BY <2>1, <2>3
    <3> QED
      BY <1>0, <2>2, <2>3, <3>1, RefuseStep
  <2>4. CASE got[r] # None
    <3>1. got' = got
      BY <2>1, <2>4 DEF TypeOK
    <3> QED
      BY <1>0, <2>2, <3>1, StutterStep
  <2> QED
    BY <2>3, <2>4
<1> QED
  BY <1>1, <1>2, <1>3

LEMMA ArriveMaps ==
  ASSUME IInv, NEW r \in Requests, Arrive(r)
  PROVE  Service!Ask(r) \/ Service!Refuse(r) \/ Service!Lose(r)
<1>0. TypeOK /\ PhaseInv(r)
  BY DEF IInv, ControlInv
<1>1. CASE Refuse(r) \/ \E src \in {"push", "pull"} : ReadFails(r, src)
  <2>1. PICK error \in {"400", "500"} : got' = [got EXCEPT ![r] = error]
    BY <1>1 DEF Refuse, ReadFails
  <2>2. /\ phase[r] = "new" /\ phase' = [phase EXCEPT ![r] = "closed"]
        /\ UNCHANGED <<query, called, torn>>
    BY <1>1 DEF Refuse, ReadFails, Accepts, IdleVars, historyVars
  <2>3. got[r] = None /\ Asked' = Asked \cup {r}
    BY <1>0, <2>2, AskedFrame DEF PhaseInv
  <2> QED
    BY <2>1, <2>2, <2>3, RefuseStep
<1>2. CASE WildSrc(r)
  BY <1>2, LoseStep DEF WildSrc
<1>3. CASE \E src \in {"push", "pull"} : ReadAtOnce(r, src) \/ ReadLater(r, src)
  <2>1. PICK p \in {"running", "reading"} : phase' = [phase EXCEPT ![r] = p]
    BY <1>3 DEF ReadAtOnce, ReadLater, CallHandler
  <2>2. UNCHANGED <<query, called, got, torn>>
    BY <1>3 DEF ReadAtOnce, ReadLater, CallHandler, IdleVars, historyVars
  <2>3. Asked' = Asked \cup {r}
    BY <1>0, <2>1, AskedFrame
  <2>4. \A s \in Requests : Call(s)' = Call(s)
    BY <2>2 DEF Call
  <2> QED
    BY <2>2, <2>3, <2>4 DEF Service!Ask, Asked, Call
<1> QED
  BY <1>1, <1>2, <1>3 DEF Arrive

LEMMA BodyMaps ==
  ASSUME IInv, NEW r \in Requests, Body(r)
  PROVE  Service!Refuse(r) \/ UNCHANGED Service!svars
<1>0. TypeOK /\ PhaseInv(r)
  BY DEF IInv, ControlInv
<1>1. phase[r] = "reading" /\ got[r] = None /\ Asked = Asked \cup {r}
  BY <1>0 DEF Body, BodyComplete, BodyFails, PhaseInv, Asked
<1>2. CASE BodyComplete(r)
  <2>1. phase' = [phase EXCEPT ![r] = "running"] /\ UNCHANGED <<query, called, got, torn>>
    BY <1>2 DEF BodyComplete, CallHandler, historyVars
  <2>2. Asked' = Asked
    BY <1>0, <1>1, <2>1, AskedFrame
  <2> QED
    BY <2>1, <2>2, StutterStep
<1>3. CASE BodyFails(r)
  <2>1. PICK error \in {"500", "closed"} : got' = [got EXCEPT ![r] = error]
    BY <1>3 DEF BodyFails
  <2>2. Release(r) /\ UNCHANGED <<query, called, torn>>
    BY <1>3 DEF BodyFails, IdleVars, historyVars
  <2>3. Asked' = Asked
    BY <1>0, <1>1, <2>2, AskedRelease
  <2> QED
    BY <1>1, <2>1, <2>2, <2>3, RefuseStep
<1> QED
  BY <1>2, <1>3 DEF Body

LEMMA OriginMaps ==
  ASSUME IInv, NEW r \in Requests, Origin(r)
  PROVE  \/ Service!Refuse(r) \/ Service!Spoil(r) \/ Service!Lose(r)
         \/ UNCHANGED Service!svars
<1>0. TypeOK /\ PhaseInv(r) /\ CallbackInv /\ PullInv
  BY DEF IInv, ControlInv
<1>1. cur = r /\ pc = "curl" /\ phase[r] # "new" /\ r # None
  BY <1>0, NoneAssumption DEF Origin, Receive, WriteFails, ReceiveAfterFinalize, FetchDone,
     FetchFails, MorePieces, Step, CallbackInv
<1>2. CASE Receive(r) \/ FetchDone(r)
  <2>1. UNCHANGED <<query, called, got, torn, phase>>
    BY <1>2 DEF Receive, FetchDone, Goto, requestVars, historyVars
  <2> QED
    BY <2>1, StutterStep DEF Asked
<1>3. CASE ReceiveAfterFinalize(r)
  BY <1>3, LoseStep DEF ReceiveAfterFinalize
<1>4. CASE FetchFails(r)
  BY <1>0, <1>1, <1>4, FailMaps DEF FetchFails
<1>5. CASE WriteFails(r)
  <2>1. /\ Finalize(r, "500") /\ torn' = torn \cup {r}
        /\ UNCHANGED <<query, called>> /\ r \notin torn
    BY <1>5 DEF WriteFails
  <2>2. got[r] = None /\ called[r] = NoCall /\ Asked = Asked \cup {r}
    BY <1>0, <1>1, <2>1 DEF CallbackInv, PullInv, Asked
  <2>3. CASE /\ got' = [got EXCEPT ![r] = "500"] \/ got' = [got EXCEPT ![r] = "closed"]
             /\ Release(r)
    <3>1. Asked' = Asked
      BY <1>0, <1>1, <2>3, AskedRelease
    <3> QED
      BY <2>1, <2>2, <2>3, <3>1, RefuseStep
  <2>4. CASE UNCHANGED <<got, phase>>
    <3>1. Asked' = Asked /\ r \in Asked
      BY <1>1, <2>4 DEF Asked
    <3>2. Call(r) = Service!NoCall
      BY <2>2, NoCallIsNoCall
    <3>3. \A s \in Requests : Call(s)' = Call(s)
      BY <2>1 DEF Call
    <3> QED
      BY <2>1, <2>2, <2>4, <3>1, <3>2, <3>3 DEF Service!Spoil, Service!Open, Asked, Call
  <2> QED
    BY <2>1, <2>3, <2>4 DEF Finalize
<1> QED
  BY <1>2, <1>3, <1>4, <1>5 DEF Origin

LEMMA PluginMaps ==
  ASSUME IInv, NEW r \in Requests, Plugin(r)
  PROVE  Service!Refuse(r) \/ Service!Lose(r) \/ UNCHANGED Service!svars
<1>0. TypeOK /\ CallbackInv
  BY DEF IInv, ControlInv
<1>1. phase[r] # "new"
  BY <1>0, NoneAssumption DEF Plugin, PluginReturns, PluginFails, PluginCrashes, AllocFails,
     Step, CallbackInv
<1>2. CASE PluginReturns(r)
  <2>1. UNCHANGED <<query, called, got, torn, phase>>
    BY <1>2 DEF PluginReturns, Goto, requestVars, historyVars
  <2> QED
    BY <2>1, StutterStep DEF Asked
<1>3. CASE PluginCrashes(r)
  BY <1>3, LoseStep DEF PluginCrashes
<1>4. CASE PluginFails(r) \/ AllocFails(r)
  BY <1>0, <1>1, <1>4, FailMaps DEF PluginFails, AllocFails
<1> QED
  BY <1>2, <1>3, <1>4 DEF Plugin

\* The images given to the plugin have the names that the request wrote.
LEMMA NamesGiven ==
  ASSUME IInv, NEW r \in Requests, ReadyToCall(r)
  PROVE  LET names == [i \in DOMAIN image_name_vec |-> image_name_vec[i].name] IN
         \/ handler[r] = "pull" /\ query[r].body = "whole" /\ names = query[r].urls
         \/ /\ handler[r] = "push" /\ query[r].body \notin {"empty", "absent"}
            /\ names = <<"pushed_image">>
<1>0. TypeOK /\ PullInv /\ PushInv /\ r # None
  BY NoneAssumption DEF IInv
<1> DEFINE names == [i \in DOMAIN image_name_vec |-> image_name_vec[i].name]
<1>1. CASE Step(r, "call")
  <2>1. /\ handler[r] = "push" /\ query[r].body \notin {"empty", "absent"}
        /\ image_name_vec = << [file |-> <<r, 1>>, name |-> "pushed_image"] >>
    BY <1>0, <1>1 DEF Step, PushInv
  <2>2. names = <<"pushed_image">>
    BY <2>1
  <2> QED
    BY <2>1, <2>2
<1>2. CASE Step(r, "fetch") /\ todo = <<>>
  <2>1. /\ handler[r] = "pull" /\ query[r].body = "whole"
        /\ temp_file_cur_idx = Len(image_name_vec)
        /\ Len(todo) + temp_file_cur_idx = Len(query[r].urls)
        /\ \A i \in 1..temp_file_cur_idx :
             image_name_vec[i] = [file |-> <<r, i>>, name |-> query[r].urls[i]]
    BY <1>0, <1>2 DEF Step, PullInv
  <2>2. query[r].urls \in Seq(Urls)
    BY <1>0, QueryAssumption DEF TypeOK, QueryType
  <2>3. Len(image_name_vec) = Len(query[r].urls) /\ image_name_vec \in Seq(Images)
    BY <1>0, <1>2, <2>1, <2>2 DEF TypeOK
  <2>4. names = query[r].urls
    <3>1. /\ DOMAIN image_name_vec = 1..temp_file_cur_idx
          /\ DOMAIN query[r].urls = 1..temp_file_cur_idx
      BY <2>1, <2>2, <2>3
    <3>2. \A i \in 1..temp_file_cur_idx : image_name_vec[i].name = query[r].urls[i]
      <4> SUFFICES ASSUME NEW i \in 1..temp_file_cur_idx
          PROVE  image_name_vec[i].name = query[r].urls[i]
        OBVIOUS
      <4>1. image_name_vec[i] = [file |-> <<r, i>>, name |-> query[r].urls[i]]
        BY <2>1
      <4> QED
        BY <4>1
    <3>3. names = [i \in 1..temp_file_cur_idx |-> query[r].urls[i]]
      BY <3>1, <3>2
    <3>4. query[r].urls = [i \in DOMAIN query[r].urls |-> query[r].urls[i]]
      BY <2>2
    <3> QED
      BY <3>1, <3>3, <3>4
  <2> QED
    BY <2>1, <2>4
<1> QED
  BY <1>1, <1>2 DEF ReadyToCall

LEMMA CallMaps ==
  ASSUME IInv, NEW r \in Requests, CallPlugin(r)
  PROVE  Service!Compute(r)
<1>0. /\ TypeOK /\ PhaseInv(r) /\ CallbackInv /\ PullInv /\ PushInv /\ UntouchedInv
      /\ r # None /\ ReadyToCall(r)
  BY NoneAssumption DEF IInv, ControlInv, CallPlugin
<1>1. PICK name \in PluginNames(r) :
        /\ Runs(r, name)
        /\ called' = [called EXCEPT ![r] =
             [plugin |-> name, ext |-> name \in NeedsExt, images |-> image_name_vec]]
  BY DEF CallPlugin
<1> DEFINE names == [i \in DOMAIN image_name_vec |-> image_name_vec[i].name]
           c == [plugin |-> name, names |-> names]
<1>2. UNCHANGED <<query, phase, got, torn>>
  BY DEF CallPlugin, Goto, requestVars
<1>3. name \in Loaded /\ names \in {query[r].urls, <<"pushed_image">>}
  BY <1>0, <1>1, NamesGiven DEF Runs
<1>4. called[r] = NoCall
  BY <1>0 DEF ReadyToCall, Step, PullInv, PushInv
<1>5. Call(r) = Service!NoCall
  BY <1>4, NoCallIsNoCall
<1>6. r \in torn \/ (r \in Asked /\ got[r] = None)
  BY <1>0 DEF ReadyToCall, Step, CallbackInv, Asked
<1>7. ASSUME r \notin torn PROVE Service!Fits(query[r], c)
  <2>1. phase[r] = "running"
    BY <1>0, <1>7 DEF ReadyToCall, Step, CallbackInv
  <2>2. query[r].args => query[r].src = handler[r] /\ handler[r] \in {"push", "pull"}
    BY <1>0, <2>1 DEF UntouchedInv
  <2>3. query[r].args => name = query[r].plugin /\ (name \in NeedsExt => query[r].ext)
    BY <1>1, <1>7 DEF HasArgs, PluginNames, Runs
  <2> QED
    BY <1>0, <1>3, <2>2, <2>3, NamesGiven DEF Service!Fits, Service!ImageNames
<1>8. [s \in Requests |-> Call(s)'] = [[s \in Requests |-> Call(s)] EXCEPT ![r] = c]
  <2>1. Call(r)' = c
    BY <1>0, <1>1 DEF Call, TypeOK
  <2>2. \A s \in Requests \ {r} : Call(s)' = Call(s)
    BY <1>0, <1>1 DEF Call, TypeOK
  <2> QED
    BY <2>1, <2>2
<1>9. Asked' = Asked
  BY <1>2 DEF Asked
<1> QED
  BY <1>2, <1>3, <1>5, <1>6, <1>7, <1>8, <1>9 DEF Service!Compute, Service!Open, Asked, Call

LEMMA CallbackMaps ==
  ASSUME RInv, NEW r \in Requests, Callback(r)
  PROVE  [Service!Next]_Service!svars
<1>0. /\ TypeOK /\ PhaseInv(r) /\ CallbackInv /\ CalledInv /\ IInv /\ CallNamed
      /\ r # None /\ cur = r
  BY NoneAssumption DEF RInv, IInv, ControlInv, Callback, NoBody, Push, PullRefused, Pull,
     NextImage, CreateFails, UseAfterFinalize, NoPlugin, CallFails, CallPlugin, ClientSend,
     Return, Step, ReadyToCall
<1>1. phase[r] # "new" /\ Asked = Asked \cup {r}
  BY <1>0 DEF CallbackInv, Asked
<1>2. CASE Push(r) \/ Pull(r) \/ NextImage(r)
  <2>1. UNCHANGED <<query, called, got, torn, phase>>
    BY <1>2 DEF Push, Pull, NextImage, Goto, requestVars, historyVars
  <2> QED
    BY <2>1, StutterStep DEF Asked
<1>3. CASE NoBody(r) \/ UseAfterFinalize(r)
  BY <1>3, LoseStep DEF NoBody, UseAfterFinalize, Service!Next
<1>4. CASE PullRefused(r) \/ CreateFails(r) \/ NoPlugin(r) \/ CallFails(r)
  <2>1. UNCHANGED historyVars /\ (Fail(r, "400") \/ Fail(r, "500"))
    BY <1>4 DEF PullRefused, CreateFails, NoPlugin, CallFails
  <2> QED
    BY <1>0, <1>1, <2>1, FailMaps DEF Service!Next
<1>5. CASE CallPlugin(r)
  BY <1>0, <1>5, CallMaps DEF Service!Next
<1>6. CASE ClientSend(r)
  <2>1. /\ called[r] # NoCall /\ r \notin torn /\ got[r] = None /\ out_cl = r
    BY <1>0, <1>6 DEF ClientSend, Step, CalledInv, CallbackInv
  <2>2. Finalize(r, r) /\ UNCHANGED <<query, called, torn>>
    BY <1>6, <2>1 DEF ClientSend, historyVars
  <2>3. CASE got' = [got EXCEPT ![r] = r] /\ Release(r)
    <3>1. Asked' = Asked
      BY <1>0, <1>1, <2>3, AskedRelease
    <3>2. r \in Asked
      BY <1>1
    <3> QED
      BY <1>0, <2>1, <2>2, <2>3, <3>1, <3>2, AnswerStep DEF Service!Next
  <2>4. CASE UNCHANGED <<got, phase>>
    BY <2>2, <2>4, StutterStep DEF Asked
  <2>5. CASE got' = [got EXCEPT ![r] = "closed"] /\ Release(r)
    <3>1. Asked' = Asked
      BY <1>0, <1>1, <2>5, AskedRelease
    <3> QED
      BY <1>1, <2>1, <2>2, <2>5, <3>1, RefuseStep DEF Service!Next
  <2> QED
    BY <2>2, <2>3, <2>4, <2>5 DEF Finalize
<1>7. CASE Return(r)
  <2>1. UNCHANGED <<query, called, got, torn>>
    BY <1>7 DEF Return, historyVars
  <2>2. PICK p \in {"closed", "sending"} : phase' = [phase EXCEPT ![r] = p]
    BY <1>7 DEF Return
  <2>3. Asked' = Asked
    BY <1>0, <1>1, <2>2, AskedFrame
  <2> QED
    BY <2>1, <2>3, StutterStep
<1> QED
  BY <1>2, <1>3, <1>4, <1>5, <1>6, <1>7 DEF Callback

LEMMA WriterMaps ==
  ASSUME RInv, NEW r \in Requests, Writer(r)
  PROVE  Service!Refuse(r) \/ Service!Reply(r)
<1>0. TypeOK /\ PhaseInv(r) /\ CallNamed /\ ReplyIsOwn
  BY DEF RInv, IInv, ControlInv
<1>1. /\ phase[r] = "sending" /\ got[r] = None /\ r \in Asked /\ Asked = Asked \cup {r}
      /\ out[r] # None
  BY <1>0 DEF Writer, Flush, ClientGone, PhaseInv, Asked
<1>2. Release(r) /\ UNCHANGED <<query, called, torn>>
  BY DEF Writer, Flush, ClientGone, IdleVars, historyVars
<1>3. Asked' = Asked
  BY <1>0, <1>1, <1>2, AskedRelease
<1>4. CASE out[r] \in Requests /\ got' = [got EXCEPT ![r] = out[r]]
  <2>1. out[r] = r /\ called[r] # NoCall /\ r \notin torn
    BY <1>0, <1>4 DEF ReplyIsOwn
  <2> QED
    BY <1>0, <1>1, <1>2, <1>3, <1>4, <2>1, AnswerStep
<1>5. CASE out[r] \notin Requests /\ got' = [got EXCEPT ![r] = out[r]]
  <2>1. out[r] \in {"400", "500"}
    BY <1>0, <1>1, <1>5 DEF TypeOK, Answers
  <2> QED
    BY <1>1, <1>2, <1>3, <1>5, <2>1, RefuseStep
<1>6. CASE got' = [got EXCEPT ![r] = "closed"]
  BY <1>1, <1>2, <1>3, <1>6, RefuseStep
<1> QED
  BY <1>4, <1>5, <1>6 DEF Writer, Flush, ClientGone

LEMMA ServiceInit == Init => Service!Init
<1> SUFFICES ASSUME Init PROVE Service!Init
  OBVIOUS
<1>1. \A r \in Requests : phase[r] = "new" /\ called[r] = NoCall
  BY DEF Init
<1>2. Asked = {}
  BY <1>1 DEF Asked
<1>3. [r \in Requests |-> Call(r)] = [r \in Requests |-> Service!NoCall]
  BY <1>1, NoCallIsNoCall
<1> QED
  BY <1>2, <1>3 DEF Init, Service!Init, Asked, Call

LEMMA ServiceStep == RInv /\ [Next]_vars => [Service!Next]_Service!svars
<1> SUFFICES ASSUME RInv, [Next]_vars PROVE [Service!Next]_Service!svars
  OBVIOUS
<1>1. CASE UNCHANGED vars
  BY <1>1, StutterStep DEF vars, requestVars, historyVars, Asked
<1>2. ASSUME NEW r \in Requests,
             Arrive(r) \/ Body(r) \/ Origin(r) \/ Plugin(r) \/ Callback(r) \/ Writer(r)
      PROVE  [Service!Next]_Service!svars
  <2>1. CASE Callback(r)
    BY <2>1, CallbackMaps
  <2>2. CASE Arrive(r) \/ Body(r) \/ Origin(r) \/ Plugin(r) \/ Writer(r)
    BY <2>2, ArriveMaps, BodyMaps, OriginMaps, PluginMaps, WriterMaps DEF RInv, Service!Next
  <2> QED
    BY <1>2, <2>1, <2>2
<1> QED
  BY <1>1, <1>2 DEF Next, AllServed

(* Whatever clients, origins, plugins and failures do, what the clients of *)
(* a worker see is what ImageService allows.                               *)
THEOREM WorkerImplementsService == Spec => ImplementsService
<1>1. Init => RInv
  BY InitInv, CallNamedInit DEF RInv
<1>2. RInv /\ [Next]_vars => RInv'
  BY IInvStep, CallNamedStep DEF RInv, IInv
<1> QED
  BY <1>1, <1>2, ServiceInit, ServiceStep, PTL DEF Spec, ImplementsService, Service!Spec

=============================================================================
