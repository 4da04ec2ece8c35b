---------------------------- MODULE MCPluginSlot ----------------------------
(***************************************************************************)
(* Instances of PluginSlot for TLC: two plugins, two libraries and one     *)
(* that is missing, two configurations, and lists with comments, doubled   *)
(* names, shared libraries, bad lines, with and without a last newline.    *)
(***************************************************************************)
EXTENDS PluginSlot, TLC

CONSTANTS face, ocr, liba, libb, libc, x, y

MCNames  == {face, ocr}
MCLibs   == {liba, libb, libc}
MCConfs  == {x, y}
MCRank   == face :> 1 @@ ocr :> 2
MCAbsent == {libc}

Plugin(name, lib, conf, symbols) ==
  [form |-> "plugin", name |-> name, lib |-> lib, conf |-> conf, ext |-> name = ocr,
   symbols |-> symbols]
Comment == [form |-> "comment"]
Invalid == [form |-> "invalid"]
List(lines, newline) == [kind |-> "file", lines |-> lines, newline |-> newline]

MCTexts ==
  { List(<<Plugin(face, liba, x, TRUE), Plugin(ocr, libb, y, TRUE)>>, TRUE),
    List(<<Plugin(ocr, liba, x, TRUE), Plugin(face, liba, y, TRUE)>>, FALSE),
    List(<<Comment, Plugin(face, liba, y, TRUE), Plugin(face, libb, x, TRUE)>>, TRUE),
    List(<<Plugin(face, libb, x, TRUE), Invalid>>, TRUE),
    List(<<Plugin(face, liba, y, TRUE), Plugin(ocr, libb, x, FALSE)>>, FALSE),
    List(<<Plugin(ocr, libc, y, TRUE), Comment>>, TRUE),
    List(<<>>, FALSE),
    [kind |-> "missing", lines |-> <<>>, newline |-> FALSE],
    [kind |-> "directory", lines |-> <<>>, newline |-> FALSE] }

=============================================================================
