------------------------------- MODULE UrlText -------------------------------
(***************************************************************************)
(* The texts that the nginx module takes apart: the list of addresses in a *)
(* body (ngx_http_graph_module.cpp), the lines of the list of plugins and  *)
(* the `ext' parameter (PluginSlot.cpp).  "NUL" is the character 0.        *)
(***************************************************************************)
EXTENDS Texts

-----------------------------------------------------------------------------
(* Addresses: cpp 505-542.  The text behind "imgurl:"; positions from 0.   *)

\* Mutant: the search goes on behind the separator's neighbour.
NextUrl_Skips(t, i) ==
  LET bar == Find("|", t, i + 1) nul == Find("NUL", t, i + 1) IN
  IF bar < nul THEN bar + 1 ELSE Len(t) - 1

\* strchr: the end of the address, and where the next one starts (525-533).
\* Without a separator that is `gd_dbuf_end', the last character.
UrlEnd(t, i)  == Min({Find("|", t, i + 1), Find("NUL", t, i + 1)}) - 1
NextUrl(t, i) ==
  LET bar == Find("|", t, i + 1) nul == Find("NUL", t, i + 1) IN
  IF bar < nul THEN bar ELSE Len(t) - 1

UrlList(t) ==
  LET from[i \in 0..(Len(t) + 1)] ==
        IF i >= Len(t) - 1 THEN <<>>
        ELSE <<SubSeq(t, i + 1, UrlEnd(t, i))>> \o from[NextUrl(t, i)]
  IN  from[0]

(* The addresses that are fetched are those between the separators, in     *)
(* their order, none twice and none left out, but for what follows the     *)
(* last of them if that is no more than one character: `gd_dbuf <          *)
(* gd_dbuf_end'.                                                           *)
ListTaken(t) ==
  LET all == SplitAll(t, "|")
      n   == Len(UrlList(t)) IN
  ~Occurs("NUL", t) =>
    /\ UrlList(t) = SubSeq(all, 1, n)
    /\ n < Len(all) => Len(Join(SubSeq(all, n + 1, Len(all)), "|")) <= 1
    /\ n > 0 => Len(Join(SubSeq(all, n, Len(all)), "|")) > 1

-----------------------------------------------------------------------------
(* A line of the list of plugins: PluginSlot.cpp 26-42, 87-100, 144-148.   *)

\* Mutant: an empty field is passed over.
split_NoEmpty(str, ch) ==
  LET s == Append(str, ch)
      from[i \in 0..Len(s)] ==
        LET pos == Find(ch, s, i + 1) - 1 IN
        IF i >= Len(s) THEN <<>>
        ELSE (IF pos = i THEN <<>> ELSE <<SubSeq(s, i + 1, pos)>>) \o from[pos + 1]
  IN  from[0]

split(str, ch) ==
  LET s == Append(str, ch)
      from[i \in 0..Len(s)] ==
        LET pos == Find(ch, s, i + 1) - 1 IN
        IF i >= Len(s) THEN <<>> ELSE <<SubSeq(s, i + 1, pos)>> \o from[pos + 1]
  IN  from[0]

\* 88, 95-100: six fields, none empty but the fifth and the sixth.
LineAccepted(t) ==
  LET vec_info == split(t, "|") IN
  Len(vec_info) >= 6 /\ \A i \in DOMAIN vec_info : vec_info[i] = <<>> => i \in {5, 6}

(* The fields of a line are what stands between the bars: the line can be  *)
(* put together from them, empty fields at either end included; a line     *)
(* that is taken has a name, a library and two functions.                  *)
LineSplit(t) ==
  /\ Join(split(t, "|"), "|") = t
  /\ \A i \in DOMAIN split(t, "|") : ~Occurs("|", split(t, "|")[i])
  /\ LineAccepted(t) => \A i \in 1..4 : split(t, "|")[i] # <<>>

-----------------------------------------------------------------------------
(* url_decode: PluginSlot.cpp 44-63.                                       *)

Hex == <<"0", "1", "2", "3", "4", "5", "6", "7", "8", "9", "a", "b", "c", "d", "e", "f">>
IsHex(ch)    == \E d \in 1..16 : Hex[d] = ch
HexValue(ch) == (CHOOSE d \in 1..16 : Hex[d] = ch) - 1

\* sscanf(str, "%x", &ii) for at most two characters: what it leaves in ii.
sscanf_x(t, ii) ==
  LET s    == IF t # <<>> /\ t[1] = " " THEN Tail(t) ELSE t
      sign == s # <<>> /\ s[1] \in {"+", "-"}
      u    == IF sign THEN Tail(s) ELSE s
      n    == Find("", [i \in DOMAIN u |-> IF IsHex(u[i]) THEN "x" ELSE ""], 1) - 1
      v    == FoldLeft(LAMBDA x, ch : 16 * x + HexValue(ch), 0, SubSeq(u, 1, n)) IN
  IF n = 0 THEN ii ELSE IF sign /\ s[1] = "-" THEN -v ELSE v

Byte(n) == <<"byte", n % 256>>
Plain(ch) == <<IF ch = "+" THEN " " ELSE ch>>
\* Mutant: an escape is three characters long only if it is a number.
Decoded_Short(t, st, i) ==
  IF st.skip > 0 THEN [st EXCEPT !.skip = @ - 1]
  ELSE IF t[i] # "%" THEN [st EXCEPT !.ret = Append(@, Plain(t[i]))]
  ELSE LET ii == sscanf_x(SubSeq(t, i + 1, Min({i + 2, Len(t)})), st.ii) IN
       [ret |-> Append(st.ret, Byte(ii)), ii |-> ii, skip |-> 1]

Decoded(t, st, i) ==
  IF st.skip > 0 THEN [st EXCEPT !.skip = @ - 1]
  ELSE IF t[i] # "%" THEN [st EXCEPT !.ret = Append(@, Plain(t[i]))]
  ELSE LET ii == sscanf_x(SubSeq(t, i + 1, Min({i + 2, Len(t)})), st.ii) IN
       [ret |-> Append(st.ret, Byte(ii)), ii |-> ii, skip |-> 2]

\* garbage: what ii holds before it is set.
url_decode(t, garbage) ==
  FoldLeft(LAMBDA st, i : Decoded(t, st, i), [ret |-> <<>>, ii |-> garbage, skip |-> 0],
           [i \in 1..Len(t) |-> i]).ret

Escapes(t) == {i \in DOMAIN t : t[i] = "%"}
WellFormed(t) ==
  \A i \in Escapes(t) : i + 2 <= Len(t) /\ IsHex(t[i + 1]) /\ IsHex(t[i + 2])

\* The characters that are not an escape's digits, those of them up to i, and
\* the byte that such a one stands for.
Kept(t)     == {i \in DOMAIN t : ~\E j \in Escapes(t) : i \in {j + 1, j + 2}}
UpTo(K, i)  == {j \in K : j <= i}
Meant(t, i) == IF t[i] = "%" THEN Byte(16 * HexValue(t[i + 1]) + HexValue(t[i + 2])) ELSE Plain(t[i])

(* A parameter in which every % has its two digits is decoded byte by      *)
(* byte, whatever `ii' held; and nothing makes the result longer than the  *)
(* text.  (Other texts decode to what `ii' held before.)                   *)
ExtRead(t) ==
  \A garbage \in {0, 255} :
    /\ Len(url_decode(t, garbage)) <= Len(t)
    /\ WellFormed(t) =>
         /\ Len(url_decode(t, garbage)) = Cardinality(Kept(t))
         /\ \A i \in Kept(t) : url_decode(t, garbage)[Cardinality(UpTo(Kept(t), i))] = Meant(t, i)
=============================================================================
