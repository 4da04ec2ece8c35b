---------------------------- MODULE ImageService ----------------------------
(***************************************************************************)
(* What the image service promises to its clients, without workers, event  *)
(* loops, files or buffers: a request is answered at most once, either     *)
(* with an error or with the JSON computed for itself; a JSON is computed  *)
(* at most once, by the plugin the request names, from the images it names *)
(* in the order it names them; a crash loses the open requests all at      *)
(* once.  A request whose images could not be stored is spoiled: its       *)
(* answer is an error, whatever is computed after that.                    *)
(***************************************************************************)
EXTENDS Sequences

CONSTANTS Requests, Queries, Names, Loaded, NeedsExt, None

VARIABLES
  query,    \* what each request asks for, as in GraphWorker
  asked,    \* the requests that have arrived
  call,     \* the plugin call made for a request
  answer,   \* what its client received
  spoiled

svars == <<query, asked, call, answer, spoiled>>

NoCall == [plugin |-> None, names |-> <<>>]

Init ==
  /\ query \in [Requests -> Queries]
  /\ asked = {}
  /\ call = [r \in Requests |-> NoCall]
  /\ answer = [r \in Requests |-> None]
  /\ spoiled = {}

Open(r) == r \in asked /\ answer[r] = None

\* The images that a request names, for the plugin.
ImageNames(q, names) ==
  \/ q.body = "whole" /\ names = q.urls
  \/ q.body \notin {"empty", "absent"} /\ names = <<"pushed_image">>

\* The call that a request asks for.  One without arguments names no plugin;
\* any may be called.
Fits(q, c) ==
  /\ c.plugin \in Loaded
  /\ q.args => /\ c.plugin = q.plugin
               /\ c.plugin \in NeedsExt => q.ext
               /\ q.src = "pull" => c.names = q.urls
               /\ q.src = "push" => c.names = <<"pushed_image">>
               /\ q.src \in {"pull", "push"}
  /\ ImageNames(q, c.names)

Ask(r) ==
  /\ asked' = asked \cup {r}
  /\ UNCHANGED <<query, call, answer, spoiled>>

Refuse(r) ==
  /\ answer[r] = None
  /\ \E error \in {"400", "500", "closed"} : answer' = [answer EXCEPT ![r] = error]
  /\ asked' = asked \cup {r}
  /\ spoiled' \in {spoiled, spoiled \cup {r}}
  /\ UNCHANGED <<query, call>>

Spoil(r) ==
  /\ Open(r) /\ call[r] = NoCall
  /\ spoiled' = spoiled \cup {r}
  /\ UNCHANGED <<query, asked, call, answer>>

Compute(r) ==
  /\ Open(r) \/ r \in spoiled
  /\ call[r] = NoCall
  /\ \E plugin \in Loaded, names \in {query[r].urls, <<"pushed_image">>} :
       LET c == [plugin |-> plugin, names |-> names] IN
       /\ r \in spoiled \/ Fits(query[r], c)
       /\ call' = [call EXCEPT ![r] = c]
  /\ UNCHANGED <<query, asked, answer, spoiled>>

Reply(r) ==
  /\ Open(r) /\ r \notin spoiled
  /\ call[r] # NoCall
  /\ answer' = [answer EXCEPT ![r] = r]
  /\ UNCHANGED <<query, asked, call, spoiled>>

\* The process that serves the open requests dies, at the latest with r.
Lose(r) ==
  /\ asked' = asked \cup {r}
  /\ answer' = [s \in Requests |->
                 IF s \in asked' /\ answer[s] = None THEN "lost" ELSE answer[s]]
  /\ UNCHANGED <<query, call, spoiled>>

Next ==
  \E r \in Requests :
    Ask(r) \/ Refuse(r) \/ Spoil(r) \/ Compute(r) \/ Reply(r) \/ Lose(r)

Spec == Init /\ [][Next]_svars

=============================================================================
