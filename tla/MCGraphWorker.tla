---------------------------- MODULE MCGraphWorker ----------------------------
(***************************************************************************)
(* Instances of GraphWorker for TLC: two plugins, one with an ext          *)
(* parameter, a name that is not loaded, two images of two and one pieces. *)
(***************************************************************************)
EXTENDS GraphWorker, TLC

CONSTANTS face, ocr, ghost, cat, dog

MCNames    == {face, ocr, ghost}
MCLoaded   == {face, ocr}
MCNeedsExt == {ocr}
MCUrls     == {cat, dog}
MCSize     == cat :> 2 @@ dog :> 1

Ask(src, plugin, ext, body, urls) ==
  [args |-> TRUE, src |-> src, plugin |-> plugin, ext |-> ext, body |-> body, urls |-> urls]

PullTwo   == Ask("pull", ocr, TRUE, "whole", <<cat, dog>>)
PullOne   == Ask("pull", face, FALSE, "whole", <<dog>>)
PullNone  == Ask("pull", face, FALSE, "whole", <<>>)
PullTwice == Ask("pull", face, TRUE, "whole", <<dog, dog>>)
PushOne   == Ask("push", face, FALSE, "whole", <<>>)
NoArgs(body) ==
  [PullOne EXCEPT !.args = FALSE, !.src = None, !.plugin = None, !.body = body]

\* Requests that are served, and requests that are refused at some point.
Good == {PullTwo, PullOne, PushOne}
Bad  == { Ask("pull", face, FALSE, "empty", <<>>), Ask(None, face, FALSE, "whole", <<cat>>),
          Ask("pull", None, FALSE, "whole", <<dog>>), Ask("pull", ocr, FALSE, "whole", <<dog>>),
          Ask("push", ghost, TRUE, "spilled", <<>>), Ask("push", face, FALSE, "absent", <<>>),
          Ask("other", face, FALSE, "whole", <<cat>>), Ask("pull", face, FALSE, "split", <<cat>>) }
MCQueries == Good \cup Bad \cup {NoArgs("whole"), PullNone, PullTwice}

\* For liveness: one request of each way through the callbacks.
MCLiveQueries ==
  {PullTwo, PushOne, NoArgs("whole"), Ask("pull", None, FALSE, "whole", <<dog>>)}

\* For what the documents say: all are well-formed, one body came in two parts.
MCPlainQueries   == Good \cup {PullTwice, Ask("pull", face, FALSE, "split", <<cat>>)}
MCArglessQueries == Good \cup {NoArgs("whole")}

MCRequestSymmetry == Permutations(Requests)

=============================================================================
