---------------------------- MODULE MCLogStatics ----------------------------
(***************************************************************************)
(* Instances of LogStatics for TLC: windows of three seconds, days of      *)
(* twelve, the plugins that have parse functions and one that has none.    *)
(***************************************************************************)
EXTENDS LogStatics, TLC

CONSTANTS s1, s2

MCPlugins == {"socol", "face", "imgquality", "tutu", "yagai", "filter", "ghost"}

\* Replies: what plugins send, and what the parse functions do not expect.
Result(key, value) == <<"object", [x \in {"result"} |-> <<"object", [k \in {key} |-> value]>>]>>
Results(items)     == <<"object", [x \in {"result"} |-> <<"array", items>>]>>
Has(key, value)    == <<"object", [k \in {key} |-> value]>>
Face     == <<"comma", Results(<<Has("x", <<"number", 3>>)>>)>>
NoFace   == Results(<<>>)
Match    == Result("match", <<"text", "1">>)
NoMatch  == Result("match", <<"number", 0>>)
BadMatch == Result("match", <<"null">>)
Bad      == Results(<<Has("y", <<"null">>), Has("image_check", <<"number", 0>>), <<"null">>>>)
Clear    == Result("state", <<"text", "true">>)
Overlap  == Result("overlap", <<"number", 2>>)
Label    == Has("results", Has("label", <<"text", "0">>))
MCReplies ==
  {Face, NoFace, Match, NoMatch, BadMatch, Bad, Clear, Overlap, Label, <<"null">>, <<"invalid">>}

Entry(time, plugin, src, res_json) ==
  [time |-> time, plugin |-> plugin, src |-> src, res_json |-> res_json]
Push(time)    == Entry(time, "face", "push", Face)
Pull(time)    == Entry(time, "face", "pull", NoFace)
Tutu(time)    == Entry(time, "tutu", "pull", Match)
NoTutu(time)  == Entry(time, "tutu", "push", NoMatch)
Odd(time)     == Entry(time, "face", "pulled", Face)
Ghost(time)   == Entry(time, "ghost", "push", Match)
Nameless(time) == Entry(time, None, "push", NoFace)
Socol(time)   == Entry(time, "socol", "push", Bad)
Quality(time) == Entry(time, "imgquality", "push", Clear)
Yagai(time)   == Entry(time, "yagai", "pull", Overlap)
Filter(time)  == Entry(time, "filter", "push", Label)
Null(time)    == Entry(time, "filter", "push", <<"null">>)
Raises(time)  == Entry(time, "tutu", "push", BadMatch)
Broken(time)  == Entry(time, "socol", "pull", <<"invalid">>)

\* Logs in the order of time: a window that ends on the boundary, one without
\* a plugin, faulty requests, an exception, an empty log.  The second server
\* may have a row of the first one's key.
MCLogs ==
  s1 :> { <<Push(1), Pull(2), Tutu(3), Push(4), Pull(7)>>,
          <<Push(1), NoTutu(1), Odd(3), Ghost(4)>>,
          <<Socol(1), Filter(2), Quality(4), Yagai(4), Broken(5)>>,
          <<Nameless(1), Push(4), Nameless(5)>>,
          <<Tutu(1), Null(2), Raises(5), Push(6)>>,
          <<>> }
  @@ s2 :> { <<Push(1), Tutu(2)>> }
MCMaxRuns == s1 :> 2 @@ s2 :> 1
MCOneRun  == [s \in Servers |-> 1]

\* Log lines carry the time of the worker's clock, which stands still while a
\* callback downloads: one second late here.
MCLateLogs ==
  [s \in Servers |-> { <<Push(2), Pull(1), Push(3)>>, <<Push(1), Tutu(2), Push(2), Pull(1)>> }]

\* Servers whose windows start at the same second.
MCSameLogs == [s \in Servers |-> { <<Push(1), Pull(2), Tutu(3), Push(4)>> }]

=============================================================================
