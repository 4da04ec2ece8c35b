-------------------------- MODULE Converters_proofs --------------------------
(***************************************************************************)
(* Proofs about Converters, for any classes, tables and numbers of         *)
(* connections.                                                            *)
(***************************************************************************)
EXTENDS Converters, SequenceTheorems, Induction

\* A sequence, of whatever it holds.
Listed(q) == q \in Seq({q[i] : i \in DOMAIN q})

\* The entries of the lists of `conversions', and of those of connection k.
Raw       == <<"BINARY", <<"str">>>>
Own(k, u) == IF u THEN << Raw, <<"any", <<"string_decoder", k>>>> >> ELSE <<Raw>>

\* What an instance of c may be converted by on a connection with the table conv.
Parents(conv, c) == {conv[x] : x \in Ancestors[c] \cap DOMAIN conv}
Object(conv)     == {conv[x] : x \in {"ObjectType"} \cap DOMAIN conv}

-----------------------------------------------------------------------------
(* The inductive invariant                                                 *)

\* The lists of `conversions' are as they were, and connection k has four of
\* its own.
OwnLists(h, c, k) ==
  /\ c.converter = [code \in DOMAIN decoders |->
                      IF code \in TextTypes THEN <<"list", 4 * k + ListOf[code]>> ELSE decoders[code]]
  /\ \A code \in TextTypes : h[4 * k + ListOf[code]] = Own(k, c.unicode)
HeapInv ==
  /\ Listed(heap) /\ Len(heap) = 4 * (Len(conns) + 1)
  /\ \A i \in 1..4 : heap[i] = <<Raw>>
  /\ \A k \in DOMAIN conns : OwnLists(heap, conns[k], k)

\* The table d of connection k is the one it was opened with, and the classes
\* that were converted since; U are all conversions so far.
Learned(U, conv, d, k) ==
  /\ conv \in Convs /\ DOMAIN encoders \cup DOMAIN conv \subseteq DOMAIN d
  /\ d["StringType"] = <<"string_literal", k>>
  /\ d["ObjectType"] = IF "ObjectType" \in DOMAIN conv THEN conv["ObjectType"] ELSE <<"Instance2Str">>
  /\ \A x \in Classes \cap DOMAIN d :
       /\ x \in DOMAIN conv => d[x] = conv[x]
       /\ x \notin DOMAIN conv => <<k, x, d[x]>> \in U /\ d[x] \in Parents(conv, x) \cup Object(conv)

\* What an instance of c was converted by is kept for c, or it was taken for a
\* string, and nothing that fits has come since.
Kept(conv, d, k, c, f) ==
  /\ c \in DOMAIN d => f = d[c]
  /\ c \notin DOMAIN d =>
       f = <<"string_literal", k>> /\ Ancestors[c] \cap DOMAIN d = {} /\ "ObjectType" \notin DOMAIN conv
Inherited(U, conv, k, c, f) ==
  f \in Object(conv) \ Parents(conv, c) /\ Parents(conv, c) # {} =>
    \E v \in U : v[1] = k /\ v[2] \in Ancestors[c] \ {c} /\ v[3] = f

ConnType(c) ==
  /\ c = [conv |-> c.conv, converter |-> c.converter, encoders |-> c.encoders, unicode |-> c.unicode]
  /\ c.unicode \in BOOLEAN
TableInv ==
  /\ Listed(conns) /\ \A k \in DOMAIN conns : ConnType(conns[k]) /\ Learned(used, conns[k].conv, conns[k].encoders, k)
  /\ \A u \in used :
       /\ u = <<u[1], u[2], u[3]>> /\ u[1] \in DOMAIN conns /\ u[2] \in Classes
       /\ Kept(conns[u[1]].conv, conns[u[1]].encoders, u[1], u[2], u[3])
       /\ Inherited(used, conns[u[1]].conv, u[1], u[2], u[3])

IInv == TableInv /\ HeapInv

-----------------------------------------------------------------------------
(* Sequences and lists                                                     *)

LEMMA Listing ==
  ASSUME NEW S, NEW q \in Seq(S)
  PROVE  Listed(q)
<1>1. PICK n \in Nat : q \in [1..n -> S]
  BY SeqDef
<1>2. q \in [1..n -> {q[i] : i \in DOMAIN q}]
  BY <1>1
<1> QED
  BY <1>2, SeqDef DEF Listed

LEMMA ListAppended ==
  ASSUME NEW q, Listed(q), NEW e
  PROVE  /\ Listed(Append(q, e)) /\ Len(Append(q, e)) = Len(q) + 1
         /\ DOMAIN q = 1..Len(q) /\ Len(q) \in Nat /\ DOMAIN Append(q, e) = 1..(Len(q) + 1)
         /\ \A i \in 1..(Len(q) + 1) : Append(q, e)[i] = IF i = Len(q) + 1 THEN e ELSE q[i]
<1> DEFINE S == {q[i] : i \in DOMAIN q} \cup {e}
<1>1. q \in Seq(S)
  <2>1. PICK n \in Nat : q \in [1..n -> {q[i] : i \in DOMAIN q}]
    BY SeqDef DEF Listed
  <2>2. q \in [1..n -> S]
    BY <2>1
  <2> QED
    BY <2>2, SeqDef
<1>2. e \in S
  OBVIOUS
<1> HIDE DEF S
<1>3. Append(q, e) \in Seq(S)
  BY <1>1, <1>2, AppendProperties
<1>4. Len(Append(q, e)) = Len(q) + 1 /\ \A i \in 1..Len(q) : Append(q, e)[i] = q[i]
  BY <1>1, <1>2, AppendProperties
<1>5. Append(q, e)[Len(q) + 1] = e
  BY <1>1, <1>2, AppendProperties
<1>6. /\ DOMAIN q = 1..Len(q) /\ Len(q) \in Nat
      /\ DOMAIN Append(q, e) = 1..Len(Append(q, e))
  BY <1>1, <1>3, LenProperties
<1>7. Listed(Append(q, e))
  BY <1>3, Listing
<1> QED
  BY <1>4, <1>5, <1>6, <1>7

LEMMA ListUpdated ==
  ASSUME NEW q, Listed(q), NEW k \in DOMAIN q, NEW e
  PROVE  /\ Listed([q EXCEPT ![k] = e]) /\ Len([q EXCEPT ![k] = e]) = Len(q)
         /\ DOMAIN [q EXCEPT ![k] = e] = DOMAIN q
         /\ \A i \in DOMAIN q : [q EXCEPT ![k] = e][i] = IF i = k THEN e ELSE q[i]
<1> DEFINE S == {q[i] : i \in DOMAIN q} \cup {e}
           r == [q EXCEPT ![k] = e]
<1>1. PICK n \in Nat : q \in [1..n -> {q[i] : i \in DOMAIN q}]
  BY SeqDef DEF Listed
<1>2. r \in [1..n -> S] /\ q \in [1..n -> S]
  BY <1>1
<1>3. r \in Seq(S) /\ q \in Seq(S)
  BY <1>2, SeqDef
<1>4. \A i \in DOMAIN q : r[i] = IF i = k THEN e ELSE q[i]
  OBVIOUS
<1>5. Len(r) = Len(q)
  BY <1>1, <1>2, <1>3
<1> HIDE DEF r
<1> QED
  BY <1>1, <1>2, <1>3, <1>4, <1>5, Listing DEF r

LEMMA OneAppended ==
  ASSUME NEW a, NEW b
  PROVE  Append(<<a>>, b) = <<a, b>>
<1> DEFINE S == {a, b}
           q == Append(<<a>>, b)
           r == <<a, b>>
<1>1. <<a>> \in Seq(S) /\ r \in Seq(S) /\ Len(<<a>>) = 1 /\ Len(r) = 2 /\ b \in S
  OBVIOUS
<1>2. /\ q \in Seq(S) /\ Len(q) = Len(<<a>>) + 1
      /\ \A i \in 1..Len(<<a>>) : q[i] = <<a>>[i]
      /\ q[Len(<<a>>) + 1] = b
  <2> HIDE DEF S
  <2> QED
    BY <1>1, AppendProperties
<1>3. Len(q) = 2 /\ \A i \in 1..2 : q[i] = r[i]
  <2>1. Len(q) = 2 /\ q[1] = a /\ q[2] = b
    BY <1>1, <1>2
  <2> QED
    BY <2>1
<1> HIDE DEF q, r, S
<1>4. q = r
  BY <1>1, <1>2, <1>3, SeqEqual
<1> QED
  BY <1>4 DEF q, r

\* Four lists for the codes of text, each of its own.
LEMMA FourLists ==
  /\ TextTypes \subseteq DOMAIN decoders
  /\ ListOf \in [TextTypes -> 1..4]
  /\ \A code \in TextTypes, i \in Nat : ListOf[code] = i => i \in 1..4
  /\ \A i \in 1..4 : \E code \in TextTypes : ListOf[code] = i
<1>1. TextTypes = {252, 254, 253, 15}
  BY DEF TextTypes, Codes, FIELD_TYPE
<1> DEFINE f == [c \in TextTypes |-> IF c = 252 THEN 1 ELSE IF c = 254 THEN 2 ELSE IF c = 253 THEN 3 ELSE 4]
<1>2. f \in [TextTypes -> 1..4] /\ IsInjective(f)
  BY <1>1 DEF IsInjective
<1>3. \E g \in [TextTypes -> 1..4] : IsInjective(g)
  BY <1>2
<1>4. ListOf \in [TextTypes -> 1..4] /\ IsInjective(ListOf)
  BY <1>3 DEF ListOf
<1> HIDE DEF f
<1>5. \A a, b \in TextTypes : ListOf[a] = ListOf[b] => a = b
  BY <1>4 DEF IsInjective
<1>6. \A i \in 1..4 : \E code \in TextTypes : ListOf[code] = i
  BY <1>1, <1>4, <1>5
<1>7. TextTypes \subseteq DOMAIN decoders
  BY DEF decoders
<1> QED
  BY <1>4, <1>6, <1>7

\* The first entry of a connection's list that fits.
LEMMA OwnDecoder ==
  ASSUME HeapInv, TableInv, NEW k \in DOMAIN conns, NEW code \in TextTypes
  PROVE  /\ Decoder(k, code, TRUE) = <<"str">>
         /\ Decoder(k, code, FALSE) = IF conns[k].unicode THEN <<"string_decoder", k>> ELSE <<"str">>
<1> DEFINE conv == conns[k].converter
           list == heap[conv[code][2]]
           fits(binary) == {i \in DOMAIN list : list[i][1] = "any" \/ binary}
<1>1. code \in DOMAIN conv /\ conv[code] = <<"list", 4 * k + ListOf[code]>>
  BY FourLists DEF HeapInv, OwnLists
<1>2. list = Own(k, conns[k].unicode) /\ conns[k].unicode \in BOOLEAN
  <2>1. conv[code][2] = 4 * k + ListOf[code]
    BY <1>1
  <2>2. heap[4 * k + ListOf[code]] = Own(k, conns[k].unicode)
    BY DEF HeapInv, OwnLists
  <2>3. conns[k].unicode \in BOOLEAN
    BY DEF TableInv, ConnType
  <2> QED
    BY <2>1, <2>2, <2>3
<1>3. ASSUME NEW binary \in BOOLEAN
      PROVE  Decoder(k, code, binary) = IF fits(binary) = {} THEN <<"str">> ELSE list[Min(fits(binary))][2]
  BY <1>1 DEF Decoder
<1> HIDE DEF list
<1>4. ASSUME NEW A \in SUBSET Nat, NEW n \in A, \A m \in A : n <= m
      PROVE  A # {} /\ Min(A) = n
  <2>1. Min(A) \in A /\ \A m \in A : Min(A) <= m
    BY Minimum DEF Min
  <2>2. Min(A) <= n /\ n <= Min(A) /\ Min(A) \in Nat /\ n \in Nat
    BY <1>4, <2>1
  <2> QED
    BY <2>2
<1>5. DOMAIN list \subseteq 1..2 /\ 1 \in DOMAIN list /\ list[1] = Raw
  BY <1>2 DEF Own
<1>6. Decoder(k, code, TRUE) = <<"str">>
  <2>1. fits(TRUE) \in SUBSET Nat /\ 1 \in fits(TRUE) /\ \A m \in fits(TRUE) : 1 <= m
    BY <1>5
  <2>2. fits(TRUE) # {} /\ Min(fits(TRUE)) = 1
    <3> HIDE DEF fits
    <3> QED
      BY <1>4, <2>1
  <2>3. list[1][2] = <<"str">>
    BY <1>5 DEF Raw
  <2> QED
    BY <1>3, <2>2, <2>3
<1>7. CASE conns[k].unicode
  <2>1. list = << Raw, <<"any", <<"string_decoder", k>>>> >>
    BY <1>2, <1>7 DEF Own
  <2>2. fits(FALSE) = {2}
    BY <2>1 DEF Raw
  <2>3. {2} # {} /\ Min({2}) = 2
    <3>1. {2} \in SUBSET Nat /\ \A m \in {2} : 2 <= m
      OBVIOUS
    <3> QED
      BY <1>4, <3>1
  <2>4. list[2][2] = <<"string_decoder", k>>
    BY <2>1
  <2>5. Decoder(k, code, FALSE) = <<"string_decoder", k>>
    BY <1>3, <2>2, <2>3, <2>4
  <2> QED
    BY <1>6, <1>7, <2>5
<1>8. CASE ~conns[k].unicode
  <2>1. list = << Raw >>
    BY <1>2, <1>8 DEF Own
  <2>2. fits(FALSE) = {}
    BY <2>1 DEF Raw
  <2>3. Decoder(k, code, FALSE) = <<"str">>
    BY <1>3, <2>2
  <2> QED
    BY <1>6, <1>8, <2>3
<1> QED
  BY <1>7, <1>8

-----------------------------------------------------------------------------
(* The heap: a connection that is opened gets lists of its own, and        *)
(* nothing else changes one.                                               *)

LEMMA Opened ==
  ASSUME TableInv, HeapInv, NEW extra \in Convs, NEW charset \in BOOLEAN,
         NEW use_unicode \in {"unsaid", "yes", "no"}, connect(extra, charset, use_unicode)
  PROVE  HeapInv'
<1> DEFINE k       == Len(conns) + 1
           unicode == IF use_unicode = "unsaid" THEN charset ELSE use_unicode = "yes"
           c       == Copied(heap)
           new     == [conv |-> extra, converter |-> c.converter, encoders |-> Encoders(extra, k), unicode |-> unicode]
<1>1. /\ conns' = Append(conns, new) /\ unicode \in BOOLEAN
      /\ heap' = IF unicode THEN WithDecoder(c.heap, c.converter, k) ELSE c.heap
  BY DEF connect
<1>2. /\ Len(conns) \in Nat /\ DOMAIN conns = 1..Len(conns) /\ DOMAIN conns' = 1..k /\ Len(conns') = k
      /\ \A j \in 1..k : conns'[j] = IF j = k THEN new ELSE conns[j]
  <2> HIDE DEF new
  <2> QED
    BY <1>1, ListAppended DEF TableInv
<1>3. /\ Listed(heap) /\ Len(heap) = 4 * k /\ DOMAIN heap = 1..(4 * k)
      /\ \A i \in 1..4 : heap[i] = <<Raw>>
  <2>1. DOMAIN heap = 1..Len(heap)
    BY ListAppended DEF HeapInv
  <2> QED
    BY <2>1, <1>2 DEF HeapInv
<1>4. /\ Listed(c.heap) /\ Len(c.heap) = 4 * k + 4 /\ DOMAIN c.heap = 1..(4 * k + 4)
      /\ \A id \in 1..(4 * k) : c.heap[id] = heap[id]
      /\ \A i \in 1..4 : c.heap[4 * k + i] = <<Raw>>
  <2> DEFINE S    == {heap[id] : id \in DOMAIN heap}
             more == [id \in 1..4 |-> heap[id]]
  <2>1. heap \in Seq(S) /\ k \in Nat /\ k >= 1
    BY <1>2, <1>3 DEF Listed
  <2>2. more \in [1..4 -> S]
    BY <1>2, <1>3
  <2>3. more \in Seq(S) /\ Len(more) = 4
    BY <2>2, SeqDef
  <2>4. c.heap = heap \o more
    BY DEF Copied
  <2> HIDE DEF S, more, c
  <2>5. /\ heap \o more \in Seq(S) /\ Len(heap \o more) = 4 * k + 4
        /\ \A i \in 1..(4 * k + 4) : (heap \o more)[i] = IF i <= 4 * k THEN heap[i] ELSE more[i - 4 * k]
    <3>1. /\ heap \o more \in Seq(S) /\ Len(heap \o more) = Len(heap) + Len(more)
          /\ \A i \in 1..(Len(heap) + Len(more)) : (heap \o more)[i] =
                IF i <= Len(heap) THEN heap[i] ELSE more[i - Len(heap)]
      BY <2>1, <2>3, ConcatProperties
    <3>2. Len(heap) = 4 * k /\ Len(more) = 4
      BY <1>3, <2>3
    <3> QED
      BY <3>1, <3>2
  <2>6. \A i \in 1..4 : more[i] = <<Raw>>
    BY <1>3 DEF more
  <2>7. DOMAIN c.heap = 1..(4 * k + 4)
    BY <2>4, <2>5, LenProperties
  <2>8. \A i \in 1..4 : c.heap[4 * k + i] = <<Raw>>
    <3> SUFFICES ASSUME NEW i \in 1..4 PROVE c.heap[4 * k + i] = <<Raw>>
      OBVIOUS
    <3>1. 4 * k + i \in 1..(4 * k + 4) /\ ~(4 * k + i <= 4 * k) /\ (4 * k + i) - 4 * k = i
      BY <2>1
    <3> QED
      BY <2>4, <2>5, <2>6, <3>1
  <2>9. \A id \in 1..(4 * k) : c.heap[id] = heap[id]
    BY <2>1, <2>4, <2>5
  <2> QED
    BY <2>4, <2>5, <2>7, <2>8, <2>9, Listing
<1>5. c.converter = [code \in DOMAIN decoders |->
                       IF code \in TextTypes THEN <<"list", 4 * k + ListOf[code]>> ELSE decoders[code]]
  BY <1>3 DEF Copied, NewId
<1>6. {c.converter[code][2] : code \in TextTypes} = {4 * k + i : i \in 1..4}
  <2>1. \A code \in TextTypes : c.converter[code][2] = 4 * k + ListOf[code]
    BY <1>5, FourLists
  <2> HIDE DEF c
  <2>2. \A code \in TextTypes : c.converter[code][2] \in {4 * k + i : i \in 1..4}
    BY <2>1, FourLists
  <2>3. ASSUME NEW i \in 1..4 PROVE 4 * k + i \in {c.converter[code][2] : code \in TextTypes}
    <3>1. PICK code \in TextTypes : ListOf[code] = i
      BY FourLists
    <3> QED
      BY <2>1, <3>1
  <2> QED
    BY <2>2, <2>3
<1>7. heap' = [id \in 1..(4 * k + 4) |->
                 IF unicode /\ id > 4 * k THEN Append(c.heap[id], <<"any", <<"string_decoder", k>>>>) ELSE c.heap[id]]
  <2>1. k \in Nat
    BY <1>2
  <2>2. \A id \in 1..(4 * k + 4) : id \in {4 * k + i : i \in 1..4} <=> id > 4 * k
    BY <2>1
  <2>3. c.heap = [id \in 1..(4 * k + 4) |-> c.heap[id]]
    BY <1>4 DEF Listed
  <2> HIDE DEF c
  <2>4. CASE unicode
    BY <1>1, <1>4, <1>6, <2>2, <2>4 DEF WithDecoder
  <2>5. CASE ~unicode
    BY <1>1, <2>3, <2>5
  <2> QED
    BY <2>4, <2>5
<1> HIDE DEF c, unicode, k
<1>8. k \in Nat /\ k >= 1
  BY <1>2 DEF k
<1>9. /\ \A id \in 1..(4 * k) : heap'[id] = heap[id]
      /\ \A i \in 1..4 : heap'[4 * k + i] = Own(k, unicode)
  <2>1. \A id \in 1..(4 * k) : heap'[id] = heap[id]
    BY <1>4, <1>7, <1>8
  <2>2. ASSUME NEW i \in 1..4 PROVE heap'[4 * k + i] = Own(k, unicode)
    <3>1. 4 * k + i \in 1..(4 * k + 4) /\ 4 * k + i > 4 * k
      BY <1>8
    <3>2. c.heap[4 * k + i] = <<Raw>>
      BY <1>4
    <3>3. Append(<<Raw>>, <<"any", <<"string_decoder", k>>>>) = << Raw, <<"any", <<"string_decoder", k>>>> >>
      BY OneAppended
    <3> QED
      BY <1>7, <3>1, <3>2, <3>3 DEF Own
  <2> QED
    BY <2>1, <2>2
<1>10. Listed(heap') /\ Len(heap') = 4 * (k + 1)
  <2> DEFINE S == {heap'[id] : id \in DOMAIN heap'}
  <2>1. heap' \in [1..(4 * k + 4) -> S]
    BY <1>7
  <2>2. 4 * k + 4 \in Nat
    BY <1>8
  <2> HIDE DEF S
  <2>3. heap' \in Seq(S)
    BY <2>1, <2>2, SeqDef
  <2>4. Len(heap') = 4 * k + 4
    BY <2>1, <2>2, <2>3, LenProperties
  <2> QED
    BY <1>8, <2>3, <2>4, Listing
<1>11. ASSUME NEW j \in 1..k PROVE OwnLists(heap', conns'[j], j)
  <2>1. CASE j = k
    <3>1. conns'[j].converter = c.converter /\ conns'[j].unicode = unicode
      BY <1>2, <2>1
    <3> QED
      BY <1>5, <1>9, <2>1, <3>1, FourLists DEF OwnLists
  <2>2. CASE j # k
    <3>1. j \in DOMAIN conns /\ conns'[j] = conns[j] /\ j \in Nat /\ j + 1 <= k
      BY <1>2, <1>8, <2>2 DEF k
    <3>2. OwnLists(heap, conns[j], j)
      BY <3>1 DEF HeapInv
    <3>3. \A code \in TextTypes : 4 * j + ListOf[code] \in 1..(4 * k)
      <4>1. \A code \in TextTypes : ListOf[code] \in 1..4
        BY FourLists
      <4> QED
        BY <1>8, <3>1, <4>1
    <3> QED
      BY <1>9, <3>1, <3>2, <3>3 DEF OwnLists
  <2> QED
    BY <2>1, <2>2
<1>12. \A i \in 1..4 : heap'[i] = <<Raw>>
  <2>1. \A i \in 1..4 : i \in 1..(4 * k)
    BY <1>8
  <2> QED
    BY <1>3, <1>9, <2>1
<1> QED
  BY <1>2, <1>10, <1>11, <1>12 DEF HeapInv, k

\* Literals leave the lists alone.
LEMMA HeapKept ==
  ASSUME TableInv, HeapInv, NEW k \in DOMAIN conns, NEW d,
         conns' = [conns EXCEPT ![k].encoders = d], heap' = heap
  PROVE  HeapInv'
<1>1. /\ DOMAIN conns' = DOMAIN conns /\ Len(conns') = Len(conns)
      /\ \A j \in DOMAIN conns : conns'[j] = IF j = k THEN [conns[k] EXCEPT !.encoders = d] ELSE conns[j]
  BY ListUpdated DEF TableInv
<1>2. \A j \in DOMAIN conns : conns'[j].converter = conns[j].converter /\ conns'[j].unicode = conns[j].unicode
  BY <1>1 DEF TableInv, ConnType
<1> QED
  BY <1>1, <1>2 DEF HeapInv, OwnLists

-----------------------------------------------------------------------------
(* The tables                                                              *)

LEMMA Types ==
  /\ {"StringType", "UnicodeType", "ObjectType", "InstanceType"} \subseteq DOMAIN encoders
  /\ encoders["ObjectType"] = <<"Instance2Str">>
BY DEF encoders

\* A table as a connection takes it.
LEMMA NewTable ==
  ASSUME NEW conv \in Convs, NEW k, NEW U
  PROVE  Learned(U, conv, Encoders(conv, k), k)
<1> DEFINE own  == [StringType |-> <<"string_literal", k>>, UnicodeType |-> <<"unicode_literal", k>>]
           rest == Over(conv, encoders)
           d    == Encoders(conv, k)
<1>1. DOMAIN own = {"StringType", "UnicodeType"} /\ own["StringType"] = <<"string_literal", k>>
  OBVIOUS
<1>2. d = Over(own, rest)
  BY DEF Encoders
<1> HIDE DEF own, d
<1>3. /\ DOMAIN rest = DOMAIN conv \cup DOMAIN encoders
      /\ \A x \in DOMAIN conv \cup DOMAIN encoders : rest[x] = IF x \in DOMAIN conv THEN conv[x] ELSE encoders[x]
  BY DEF Over
<1> HIDE DEF rest
<1>4. /\ DOMAIN d = DOMAIN own \cup DOMAIN rest
      /\ \A x \in DOMAIN own \cup DOMAIN rest : d[x] = IF x \in DOMAIN own THEN own[x] ELSE rest[x]
  BY <1>2 DEF Over
<1>5. d["StringType"] = <<"string_literal", k>>
  BY <1>1, <1>4
<1>6. d["ObjectType"] = IF "ObjectType" \in DOMAIN conv THEN conv["ObjectType"] ELSE <<"Instance2Str">>
  BY <1>1, <1>3, <1>4, Types
<1>7. \A x \in Classes \cap DOMAIN d : x \in DOMAIN conv /\ d[x] = conv[x]
  <2>1. \A x \in Classes : x \notin DOMAIN encoders
    BY ConvsAssumption
  <2> QED
    BY <1>1, <1>3, <1>4, <2>1, Types
<1> QED
  BY <1>3, <1>4, <1>5, <1>6, <1>7 DEF Learned, d

\* A connection that is opened.
LEMMA OpenedTables ==
  ASSUME TableInv, NEW extra \in Convs, NEW charset \in BOOLEAN,
         NEW use_unicode \in {"unsaid", "yes", "no"}, connect(extra, charset, use_unicode)
  PROVE  TableInv'
<1> DEFINE k       == Len(conns) + 1
           unicode == IF use_unicode = "unsaid" THEN charset ELSE use_unicode = "yes"
           new     == [conv |-> extra, converter |-> Copied(heap).converter,
                       encoders |-> Encoders(extra, k), unicode |-> unicode]
<1>1. conns' = Append(conns, new) /\ used' = used /\ unicode \in BOOLEAN
  BY DEF connect
<1>2. ConnType(new) /\ new.conv = extra /\ new.encoders = Encoders(extra, k)
  BY <1>1 DEF ConnType
<1> HIDE DEF new
<1>3. /\ Listed(conns') /\ DOMAIN conns = 1..Len(conns) /\ Len(conns) \in Nat /\ DOMAIN conns' = 1..k
      /\ \A j \in 1..k : conns'[j] = IF j = k THEN new ELSE conns[j]
  BY <1>1, ListAppended DEF TableInv
<1>4. \A j \in DOMAIN conns : j \in DOMAIN conns' /\ conns'[j] = conns[j]
  BY <1>3
<1>5. Learned(used, extra, Encoders(extra, k), k)
  BY NewTable
<1>6. ASSUME NEW j \in DOMAIN conns'
      PROVE  ConnType(conns'[j]) /\ Learned(used', conns'[j].conv, conns'[j].encoders, j)
  <2>1. j = k \/ j \in DOMAIN conns
    BY <1>3
  <2> QED
    BY <1>1, <1>2, <1>3, <1>4, <1>5, <2>1 DEF TableInv
<1> QED
  BY <1>1, <1>3, <1>4, <1>6 DEF TableInv

\* What is found for an instance: the entry of its class, or of a class it
\* inherits from, or of object.
LEMMA Found ==
  ASSUME NEW U, NEW conv, NEW d, NEW k, NEW c \in Classes, NEW x \in Candidates(d, c),
         Learned(U, conv, d, k), d["InstanceType"] = <<"Instance2Str">>
  PROVE  /\ x \in DOMAIN d
         /\ \/ x = c
            \/ c \notin DOMAIN d /\ x \in Ancestors[c] \ {c}
            \/ /\ c \notin DOMAIN d /\ x = "ObjectType" /\ "ObjectType" \in DOMAIN conv
               /\ d[x] = conv["ObjectType"] /\ Parents(conv, c) = {}
<1>1. Ancestors[c] \subseteq Classes /\ c \in Ancestors[c]
  BY AncestorsAssumption
<1> DEFINE classes == {y \in DOMAIN d : IsClass(y) /\ y \in Ancestors[c]}
           types   == {y \in {"InstanceType", "ObjectType"} : d[y] # <<"Instance2Str">>}
<1>2. x \in IF c \in DOMAIN d THEN {c} ELSE IF classes # {} THEN classes ELSE types
  BY DEF Candidates
<1>3. CASE c \in DOMAIN d
  BY <1>2, <1>3
<1>4. CASE c \notin DOMAIN d /\ classes # {}
  BY <1>2, <1>4
<1>5. CASE c \notin DOMAIN d /\ classes = {}
  <2>1. x = "ObjectType" /\ d[x] # <<"Instance2Str">>
    BY <1>2, <1>5
  <2>2. "ObjectType" \in DOMAIN d /\ DOMAIN conv \subseteq DOMAIN d
    BY Types DEF Learned
  <2>3. "ObjectType" \in DOMAIN conv /\ d[x] = conv["ObjectType"]
    BY <2>1 DEF Learned
  <2>4. Ancestors[c] \cap DOMAIN conv = {}
    BY <1>1, <1>5, <2>2 DEF IsClass
  <2>5. Parents(conv, c) = {}
    BY <2>4 DEF Parents
  <2> QED
    BY <1>5, <2>1, <2>2, <2>3, <2>5
<1> QED
  BY <1>3, <1>4, <1>5

\* It is one that the program registered for the class, one it inherits from,
\* or objects.
LEMMA FoundFits ==
  ASSUME NEW U, NEW conv, NEW d, NEW k, NEW c \in Classes, NEW x \in Candidates(d, c),
         Learned(U, conv, d, k), d["InstanceType"] = <<"Instance2Str">>,
         \A u \in U : u[1] = k => Inherited(U, conv, k, u[2], u[3])
  PROVE  /\ c \in DOMAIN conv => d[x] = conv[c]
         /\ d[x] \in Parents(conv, c) \cup Object(conv)
         /\ Inherited(U, conv, k, c, d[x])
<1>1. Ancestors[c] \subseteq Classes /\ c \in Ancestors[c] /\ \A a \in Ancestors[c] : Ancestors[a] \subseteq Ancestors[c]
  BY AncestorsAssumption
<1>2. DOMAIN conv \subseteq DOMAIN d
  BY DEF Learned
<1>3. \A a \in Ancestors[c] : Parents(conv, a) \subseteq Parents(conv, c)
  BY <1>1 DEF Parents
<1>4. ASSUME NEW a \in Ancestors[c], a \in DOMAIN conv PROVE conv[a] \in Parents(conv, c)
  BY <1>4 DEF Parents
<1>5. CASE x = c /\ c \in DOMAIN d
  <2>1. CASE c \in DOMAIN conv
    <3>1. d[c] = conv[c]
      BY <1>5, <2>1 DEF Learned
    <3> QED
      BY <1>1, <1>4, <1>5, <2>1, <3>1 DEF Inherited
  <2>2. CASE c \notin DOMAIN conv
    <3>1. <<k, c, d[c]>> \in U /\ d[c] \in Parents(conv, c) \cup Object(conv)
      BY <1>5, <2>2 DEF Learned
    <3>2. Inherited(U, conv, k, c, d[c])
      BY <3>1
    <3> QED
      BY <1>5, <2>2, <3>1, <3>2
  <2> QED
    BY <2>1, <2>2
<1>6. CASE c \notin DOMAIN d /\ x \in Ancestors[c] \ {c} /\ x \in DOMAIN d
  <2>1. x \in Classes /\ c \notin DOMAIN conv
    BY <1>1, <1>2, <1>6
  <2>2. CASE x \in DOMAIN conv
    <3>1. d[x] = conv[x] /\ conv[x] \in Parents(conv, c)
      BY <1>4, <1>6, <2>1, <2>2 DEF Learned
    <3> QED
      BY <2>1, <3>1 DEF Inherited
  <2>3. CASE x \notin DOMAIN conv
    <3>1. <<k, x, d[x]>> \in U /\ d[x] \in Parents(conv, x) \cup Object(conv)
      BY <1>6, <2>1, <2>3 DEF Learned
    <3>2. Parents(conv, x) \subseteq Parents(conv, c)
      BY <1>3, <1>6
    <3>3. Inherited(U, conv, k, c, d[x])
      BY <1>6, <3>1 DEF Inherited
    <3> QED
      BY <2>1, <3>1, <3>2, <3>3
  <2> QED
    BY <2>2, <2>3
<1>7. CASE /\ c \notin DOMAIN d /\ x = "ObjectType" /\ "ObjectType" \in DOMAIN conv
           /\ d[x] = conv["ObjectType"] /\ Parents(conv, c) = {}
  <2>1. d[x] \in Object(conv)
    BY <1>7 DEF Object
  <2> QED
    BY <1>2, <1>7, <2>1 DEF Inherited
<1> QED
  BY <1>5, <1>6, <1>7, Found

\* The class that was asked for is kept, and nothing else changes.
LEMMA FoundKept ==
  ASSUME TableInv, NEW k \in DOMAIN conns, NEW c \in Classes,
         conns[k].encoders["InstanceType"] = <<"Instance2Str">>,
         NEW x \in Candidates(conns[k].encoders, c),
         conns' = [conns EXCEPT ![k].encoders = Over([y \in {c} |-> conns[k].encoders[x]], conns[k].encoders)],
         used' = used \cup {<<k, c, conns[k].encoders[x]>>}
  PROVE  TableInv'
<1> DEFINE d    == conns[k].encoders
           conv == conns[k].conv
           e    == Over([y \in {c} |-> d[x]], d)
           u0   == <<k, c, d[x]>>
<1>1. ConnType(conns[k]) /\ Learned(used, conv, d, k) /\ Listed(conns)
  BY DEF TableInv
<1>2. /\ DOMAIN e = DOMAIN d \cup {c}
      /\ \A y \in DOMAIN d \cup {c} : e[y] = IF y = c THEN d[x] ELSE d[y]
  BY DEF Over
<1> HIDE DEF e
<1>3. /\ Listed(conns') /\ DOMAIN conns' = DOMAIN conns
      /\ \A j \in DOMAIN conns : conns'[j] = IF j = k THEN [conns[k] EXCEPT !.encoders = e] ELSE conns[j]
  <2> DEFINE one == [conns[k] EXCEPT !.encoders = e]
  <2>1. conns' = [conns EXCEPT ![k] = one]
    BY DEF e
  <2> HIDE DEF one
  <2>2. /\ Listed([conns EXCEPT ![k] = one]) /\ DOMAIN [conns EXCEPT ![k] = one] = DOMAIN conns
        /\ \A j \in DOMAIN conns : [conns EXCEPT ![k] = one][j] = IF j = k THEN one ELSE conns[j]
    BY <1>1, ListUpdated, Zenon
  <2> QED
    BY <2>1, <2>2 DEF one
<1>4. /\ conns'[k].conv = conv /\ conns'[k].encoders = e
      /\ \A j \in DOMAIN conns : ConnType(conns'[j]) /\ conns'[j].conv = conns[j].conv
  <2>1. \A j \in DOMAIN conns : ConnType(conns[j])
    BY DEF TableInv
  <2> QED
    BY <1>3, <2>1 DEF ConnType
<1>5. \A u \in used : u[1] = k => Inherited(used, conv, k, u[2], u[3])
  BY DEF TableInv
<1>6. /\ c \in DOMAIN conv => d[x] = conv[c]
      /\ d[x] \in Parents(conv, c) \cup Object(conv)
      /\ Inherited(used, conv, k, c, d[x])
  BY <1>1, <1>5, FoundFits
<1>7. /\ x \in DOMAIN d
      /\ \/ x = c
         \/ c \notin DOMAIN d /\ x \in Ancestors[c] \ {c}
         \/ c \notin DOMAIN d /\ "ObjectType" \in DOMAIN conv
  BY <1>1, Found
<1>8. Ancestors[c] \subseteq Classes /\ \A a \in Classes : c \in Ancestors[a] => Ancestors[c] \subseteq Ancestors[a]
  BY AncestorsAssumption
<1>9. u0 \in used' /\ used \subseteq used' /\ u0[1] = k /\ u0[2] = c /\ u0[3] = d[x]
  OBVIOUS
<1> HIDE DEF d, conv, u0
<1>10. ASSUME NEW j \in DOMAIN conns' PROVE Learned(used', conns'[j].conv, conns'[j].encoders, j)
  <2>1. CASE j = k
    <3>1. "StringType" # c /\ "ObjectType" # c /\ {"StringType", "ObjectType"} \subseteq DOMAIN d
      BY <1>1, ConvsAssumption, Types DEF Learned
    <3>2. e["StringType"] = d["StringType"] /\ e["ObjectType"] = d["ObjectType"]
      BY <1>2, <3>1
    <3>3. ASSUME NEW y \in Classes \cap DOMAIN e
          PROVE  /\ y \in DOMAIN conv => e[y] = conv[y]
                 /\ y \notin DOMAIN conv => <<k, y, e[y]>> \in used' /\ e[y] \in Parents(conv, y) \cup Object(conv)
      <4>1. CASE y = c
        <5>1. e[y] = d[x]
          BY <1>2, <4>1
        <5> QED
          BY <1>6, <1>9, <4>1, <5>1 DEF u0
      <4>2. CASE y # c
        <5>1. y \in DOMAIN d /\ e[y] = d[y]
          BY <1>2, <4>2
        <5> QED
          BY <1>1, <1>9, <5>1 DEF Learned
      <4> QED
        BY <4>1, <4>2
    <3>4. Learned(used', conv, e, k)
      BY <1>1, <1>2, <3>2, <3>3 DEF Learned
    <3> QED
      BY <1>4, <2>1, <3>4
  <2>2. CASE j # k
    <3>1. conns'[j] = conns[j] /\ j \in DOMAIN conns
      BY <1>3, <2>2
    <3>2. Learned(used, conns[j].conv, conns[j].encoders, j)
      BY <3>1 DEF TableInv
    <3> QED
      BY <1>9, <3>1, <3>2 DEF Learned
  <2> QED
    BY <2>1, <2>2
<1>11. ASSUME NEW u \in used'
       PROVE  /\ u = <<u[1], u[2], u[3]>> /\ u[1] \in DOMAIN conns' /\ u[2] \in Classes
              /\ Kept(conns'[u[1]].conv, conns'[u[1]].encoders, u[1], u[2], u[3])
              /\ Inherited(used', conns'[u[1]].conv, u[1], u[2], u[3])
  <2>1. CASE u = u0
    <3>1. Kept(conv, e, k, c, d[x]) /\ Inherited(used', conv, k, c, d[x])
      BY <1>2, <1>6, <1>9 DEF Kept, Inherited
    <3> QED
      BY <1>3, <1>4, <1>9, <2>1, <3>1 DEF u0
  <2>2. CASE u \in used
    <3>1. /\ u = <<u[1], u[2], u[3]>> /\ u[1] \in DOMAIN conns /\ u[2] \in Classes
          /\ Kept(conns[u[1]].conv, conns[u[1]].encoders, u[1], u[2], u[3])
          /\ Inherited(used, conns[u[1]].conv, u[1], u[2], u[3])
      BY <2>2 DEF TableInv
    <3>2. Inherited(used', conns'[u[1]].conv, u[1], u[2], u[3])
      <4>1. conns'[u[1]].conv = conns[u[1]].conv
        BY <1>4, <3>1
      <4> QED
        BY <1>9, <3>1, <4>1 DEF Inherited
    <3>3. CASE u[1] = k
      <4>1. Kept(conv, d, k, u[2], u[3])
        BY <3>1, <3>3 DEF conv, d
      <4>2. CASE u[2] \in DOMAIN d
        <5>1. e[u[2]] = d[u[2]] /\ u[2] \in DOMAIN e
          BY <1>2, <1>7, <4>2
        <5> QED
          BY <1>3, <1>4, <3>1, <3>2, <3>3, <4>1, <4>2, <5>1 DEF Kept
      <4>3. CASE u[2] \notin DOMAIN d
        <5>1. u[3] = <<"string_literal", k>> /\ Ancestors[u[2]] \cap DOMAIN d = {} /\ "ObjectType" \notin DOMAIN conv
          BY <4>1, <4>3 DEF Kept
        <5>2. c \notin Ancestors[u[2]]
          BY <1>7, <1>8, <3>1, <5>1
        <5>3. u[2] # c
          BY <3>1, <5>2, AncestorsAssumption
        <5>4. u[2] \notin DOMAIN e /\ Ancestors[u[2]] \cap DOMAIN e = {}
          BY <1>2, <4>3, <5>1, <5>2, <5>3
        <5> QED
          BY <1>3, <1>4, <3>1, <3>2, <3>3, <5>1, <5>4 DEF Kept
      <4> QED
        BY <4>2, <4>3
    <3>4. CASE u[1] # k
      <4>1. conns'[u[1]] = conns[u[1]]
        BY <1>3, <3>1, <3>4
      <4> QED
        BY <1>3, <3>1, <3>2, <4>1
    <3> QED
      BY <3>3, <3>4
  <2> QED
    BY <2>1, <2>2 DEF u0, d
<1> QED
  BY <1>3, <1>4, <1>10, <1>11 DEF TableInv

\* Nothing fits: the instance is taken for a string.
LEMMA TakenForString ==
  ASSUME TableInv, NEW k \in DOMAIN conns, NEW c \in Classes, Candidates(conns[k].encoders, c) = {},
         conns' = conns, used' = used \cup {<<k, c, conns[k].encoders["StringType"]>>}
  PROVE  TableInv'
<1> DEFINE d    == conns[k].encoders
           conv == conns[k].conv
           u0   == <<k, c, d["StringType"]>>
<1>1. Learned(used, conv, d, k)
  BY DEF TableInv
<1>2. c \notin DOMAIN d /\ Ancestors[c] \cap DOMAIN d = {} /\ d["ObjectType"] = <<"Instance2Str">>
  BY AncestorsAssumption DEF Candidates, IsClass
<1>3. "ObjectType" \notin DOMAIN conv
  BY <1>1, <1>2, ConvsAssumption, Types DEF Learned
<1>4. d["StringType"] = <<"string_literal", k>>
  BY <1>1 DEF Learned
<1>5. /\ u0 \in used' /\ used \subseteq used' /\ used' \subseteq used \cup {u0}
      /\ u0[1] = k /\ u0[2] = c /\ u0[3] = d["StringType"]
  OBVIOUS
<1>6. Kept(conv, d, k, c, u0[3]) /\ Inherited(used', conv, k, c, u0[3])
  BY <1>2, <1>3, <1>4, <1>5 DEF Kept, Inherited, Object
<1>7. \A j \in DOMAIN conns : Learned(used', conns[j].conv, conns[j].encoders, j)
  BY <1>5 DEF TableInv, Learned
<1>8. ASSUME NEW u \in used PROVE Inherited(used', conns[u[1]].conv, u[1], u[2], u[3])
  BY <1>5, <1>8 DEF TableInv, Inherited
<1> HIDE DEF d, conv
<1> QED
  BY <1>5, <1>6, <1>7, <1>8 DEF TableInv, d, conv

-----------------------------------------------------------------------------
(* Invariance                                                              *)

LEMMA InitInv == Init => IInv
<1> SUFFICES ASSUME Init PROVE IInv
  OBVIOUS
<1>1. conns = <<>> /\ used = {} /\ heap = [id \in 1..4 |-> <<Raw>>]
  BY DEF Init, FirstHeap, Raw
<1>2. Listed(conns) /\ Len(conns) = 0 /\ DOMAIN conns = {}
  BY <1>1 DEF Listed
<1>3. heap \in Seq({<<Raw>>}) /\ Len(heap) = 4
  <2>1. heap \in [1..4 -> {<<Raw>>}]
    BY <1>1
  <2>2. heap \in Seq({<<Raw>>})
    BY <2>1, SeqDef
  <2>3. DOMAIN heap = 1..Len(heap) /\ Len(heap) \in Nat
    BY <2>2, LenProperties
  <2> QED
    BY <2>1, <2>2, <2>3
<1>4. Listed(heap)
  BY <1>3, Listing
<1> QED
  BY <1>1, <1>2, <1>3, <1>4 DEF IInv, TableInv, HeapInv

LEMMA Invariance == Spec => []IInv
<1>1. IInv /\ [Next]_vars => IInv'
  <2> SUFFICES ASSUME IInv, [Next]_vars PROVE IInv'
    OBVIOUS
  <2>1. CASE UNCHANGED vars
    BY <2>1 DEF IInv, TableInv, HeapInv, vars
  <2>2. CASE Connect
    BY <2>2, Opened, OpenedTables DEF Connect, IInv
  <2>3. ASSUME NEW k \in DOMAIN conns, NEW c \in Classes, literal(k, c) PROVE IInv'
    <3>1. Instance2Str(k, c) /\ conns[k].encoders["InstanceType"] = <<"Instance2Str">>
      BY <2>3 DEF literal
    <3>2. CASE \E x \in Candidates(conns[k].encoders, c) :
                 /\ conns' = [conns EXCEPT ![k].encoders = Over([y \in {c} |-> conns[k].encoders[x]], conns[k].encoders)]
                 /\ used'  = used \cup {<<k, c, conns[k].encoders[x]>>}
      <4>1. TableInv'
        BY <3>1, <3>2, FoundKept DEF IInv
      <4>2. heap' = heap
        BY <3>1 DEF Instance2Str
      <4> QED
        BY <3>2, <4>1, <4>2, HeapKept DEF IInv
    <3>3. CASE /\ Candidates(conns[k].encoders, c) = {}
               /\ used' = used \cup {<<k, c, conns[k].encoders["StringType"]>>} /\ conns' = conns
      <4>1. TableInv'
        BY <3>3, TakenForString DEF IInv
      <4>2. heap' = heap
        BY <3>1 DEF Instance2Str
      <4> QED
        BY <3>3, <4>1, <4>2 DEF IInv, HeapInv
    <3> QED
      BY <3>1, <3>2, <3>3 DEF Instance2Str
  <2> QED
    BY <2>1, <2>2, <2>3 DEF Next, Literal
<1> QED
  BY <1>1, InitInv, PTL DEF Spec

-----------------------------------------------------------------------------
(* Results                                                                 *)

(* Text is decoded by the decoder of the connection it came over or by     *)
(* none, and binary data never, however many connections are opened.       *)
THEOREM DecodedByOwner == Spec => []OwnDecoders
<1>1. IInv => OwnDecoders
  BY OwnDecoder DEF IInv, OwnDecoders
<1> QED
  BY <1>1, Invariance, PTL

(* On one connection all instances of a class are converted alike, and by  *)
(* what the program registered for the class or one it inherits from, in   *)
(* whatever order the classes of the dictionary are looked at.             *)
THEOREM ConvertedAlike == Spec => []SameConversion
<1>1. IInv => SameConversion
  <2> SUFFICES ASSUME TableInv, NEW u \in used
               PROVE  LET k == u[1]  c == u[2]  f == u[3]
                          conv   == conns[k].conv
                          parent == Parents(conv, c)
                          object == Object(conv) IN
                      /\ \A v \in used : v[1] = k /\ v[2] = c => v = u
                      /\ c \in DOMAIN conv => f = conv[c]
                      /\ f \in IF parent \cup object = {} THEN {<<"string_literal", k>>} ELSE parent \cup object
                      /\ f \in object \ parent /\ parent # {} =>
                           \E v \in used : v[1] = k /\ v[2] \in Ancestors[c] \ {c} /\ v[3] = f
    BY DEF IInv, SameConversion, Parents, Object
  <2> DEFINE k == u[1]
             c == u[2]
             f == u[3]
             conv == conns[k].conv
             d    == conns[k].encoders
  <2>1. /\ \A v \in used : v = <<v[1], v[2], v[3]>> /\ Kept(conns[v[1]].conv, conns[v[1]].encoders, v[1], v[2], v[3])
        /\ k \in DOMAIN conns /\ c \in Classes /\ Learned(used, conv, d, k)
        /\ Kept(conv, d, k, c, f) /\ Inherited(used, conv, k, c, f)
    BY DEF TableInv
  <2> HIDE DEF k, c, f, conv, d
  <2>2. ASSUME NEW v \in used, v[1] = k, v[2] = c PROVE v = u
    <3>1. Kept(conv, d, k, c, v[3])
      BY <2>1, <2>2 DEF conv, d
    <3>2. v[3] = f
      BY <2>1, <3>1 DEF Kept
    <3>3. u = <<k, c, f>> /\ v = <<v[1], v[2], v[3]>>
      BY <2>1 DEF k, c, f
    <3> QED
      BY <2>2, <3>2, <3>3
  <2>3. c \in Ancestors[c] /\ DOMAIN conv \subseteq DOMAIN d
    BY <2>1, AncestorsAssumption DEF Learned
  <2>4. CASE c \in DOMAIN d
    <3>1. f = d[c]
      BY <2>1, <2>4 DEF Kept
    <3>2. c \in DOMAIN conv => f = conv[c] /\ conv[c] \in Parents(conv, c)
      BY <2>1, <2>3, <2>4, <3>1 DEF Learned, Parents
    <3>3. c \notin DOMAIN conv => f \in Parents(conv, c) \cup Object(conv)
      BY <2>1, <2>4, <3>1 DEF Learned
    <3> QED
      BY <2>1, <2>2, <3>2, <3>3 DEF Inherited, k, c, f, conv
  <2>5. CASE c \notin DOMAIN d
    <3>1. f = <<"string_literal", k>> /\ Ancestors[c] \cap DOMAIN d = {} /\ "ObjectType" \notin DOMAIN conv
      BY <2>1, <2>5 DEF Kept
    <3>2. Parents(conv, c) = {} /\ Object(conv) = {}
      BY <2>3, <3>1 DEF Parents, Object
    <3> QED
      BY <2>2, <2>3, <2>5, <3>1, <3>2 DEF k, c, f, conv
  <2> QED
    BY <2>4, <2>5
<1> QED
  BY <1>1, Invariance, PTL

\* The codes behind the names.
LEMMA TypeCodes ==
  /\ STRINGS = {247, 253, 254} /\ BINARY = {249, 250, 251, 252} /\ NUMBER = {0, 1, 3, 4, 5, 8, 9, 13}
  /\ DATE = {10, 14} /\ TIME = {11} /\ TIMESTAMP = {7, 12} /\ ROWID = {}
  /\ TextTypes = {15, 252, 253, 254}
  /\ SentCodes = {1, 2, 3, 4, 5, 7, 8, 9, 10, 11, 12, 13, 16, 246, 252, 253, 254, 255}
  /\ Codes({"SHORT", "NEWDECIMAL"}) = {2, 246} /\ Codes({"SHORT", "NEWDECIMAL", "BIT", "GEOMETRY"}) = {2, 16, 246, 255}
<1>1. /\ STRINGS = {247, 253, 254} /\ BINARY = {249, 250, 251, 252} /\ NUMBER = {0, 1, 3, 4, 5, 8, 9, 13}
      /\ DATE = {10, 14} /\ TIME = {11} /\ TIMESTAMP = {7, 12} /\ ROWID = {}
      /\ TextTypes = {15, 252, 253, 254}
      /\ Codes({"SHORT", "NEWDECIMAL"}) = {2, 246} /\ Codes({"SHORT", "NEWDECIMAL", "BIT", "GEOMETRY"}) = {2, 16, 246, 255}
  BY DEF STRINGS, BINARY, NUMBER, DATE, TIME, TIMESTAMP, ROWID, TextTypes, Codes, FIELD_TYPE
<1>2. DOMAIN FIELD_TYPE \ {"NULL", "NEWDATE", "VARCHAR", "ENUM", "SET", "TINY_BLOB", "MEDIUM_BLOB", "LONG_BLOB", "DECIMAL"}
        = {"TINY", "SHORT", "LONG", "FLOAT", "DOUBLE", "TIMESTAMP", "LONGLONG", "INT24", "DATE", "TIME", "DATETIME",
           "YEAR", "BIT", "NEWDECIMAL", "BLOB", "VAR_STRING", "STRING", "GEOMETRY"}
  BY DEF FIELD_TYPE
<1>3. SentCodes = {1, 2, 3, 4, 5, 7, 8, 9, 10, 11, 12, 13, 16, 246, 252, 253, 254, 255}
  BY <1>2 DEF SentCodes, Codes, FIELD_TYPE
<1> QED
  BY <1>1, <1>3

\* What the table has for them.
LEMMA TableCodes ==
  /\ DOMAIN decoders = {0, 1, 2, 3, 4, 5, 7, 8, 9, 10, 11, 12, 13, 246, 248} \cup TextTypes
  /\ \A code \in {1, 2, 9, 13} : decoders[code] = <<"int">>
  /\ \A code \in {3, 8} : decoders[code] = <<"long">>
  /\ \A code \in {4, 5} : decoders[code] = <<"float">>
  /\ \A code \in {0, 246} : decoders[code] = <<"Decimal">>
  /\ decoders[7] = <<"mysql_timestamp_converter">> /\ decoders[12] = <<"DateTime_or_None">>
  /\ decoders[11] = <<"TimeDelta_or_None">> /\ decoders[10] = <<"Date_or_None">>
<1>1. /\ Codes({"TINY", "SHORT", "INT24", "YEAR"}) = {1, 2, 9, 13} /\ Codes({"LONG", "LONGLONG"}) = {3, 8}
      /\ Codes({"FLOAT", "DOUBLE"}) = {4, 5} /\ Codes({"DECIMAL", "NEWDECIMAL"}) = {0, 246}
      /\ FIELD_TYPE.SET = 248 /\ FIELD_TYPE.TIMESTAMP = 7 /\ FIELD_TYPE.DATETIME = 12 /\ FIELD_TYPE.TIME = 11
      /\ FIELD_TYPE.DATE = 10
  BY DEF Codes, FIELD_TYPE
<1>2. Codes({"TINY", "SHORT", "INT24", "YEAR", "LONG", "LONGLONG", "FLOAT", "DOUBLE", "DECIMAL", "NEWDECIMAL",
              "SET", "TIMESTAMP", "DATETIME", "TIME", "DATE"}) = {0, 1, 2, 3, 4, 5, 7, 8, 9, 10, 11, 12, 13, 246, 248}
  BY DEF Codes, FIELD_TYPE
<1>3. /\ DOMAIN decoders = {0, 1, 2, 3, 4, 5, 7, 8, 9, 10, 11, 12, 13, 246, 248} \cup TextTypes
      /\ \A code \in DOMAIN decoders :
           decoders[code] =
             CASE code \in {1, 2, 9, 13} -> <<"int">>
               [] code \in {3, 8} -> <<"long">>
               [] code \in {4, 5} -> <<"float">>
               [] code \in {0, 246} -> <<"Decimal">>
               [] code = 248 -> <<"Str2Set">>
               [] code = 7 -> <<"mysql_timestamp_converter">>
               [] code = 12 -> <<"DateTime_or_None">>
               [] code = 11 -> <<"TimeDelta_or_None">>
               [] code = 10 -> <<"Date_or_None">>
               [] code \in TextTypes -> <<"list", ListOf[code]>>
  BY <1>1, <1>2, Zenon DEF decoders
<1>4. \A code \in {1, 2, 9, 13} : decoders[code] = <<"int">>
  BY <1>3, TypeCodes
<1>5. \A code \in {3, 8} : decoders[code] = <<"long">>
  BY <1>3, TypeCodes
<1>6. \A code \in {4, 5} : decoders[code] = <<"float">>
  BY <1>3, TypeCodes
<1>7. \A code \in {0, 246} : decoders[code] = <<"Decimal">>
  BY <1>3, TypeCodes
<1>8. decoders[7] = <<"mysql_timestamp_converter">> /\ decoders[12] = <<"DateTime_or_None">>
  BY <1>3, TypeCodes
<1>9. decoders[11] = <<"TimeDelta_or_None">> /\ decoders[10] = <<"Date_or_None">>
  BY <1>3, TypeCodes
<1> QED
  BY <1>3, <1>4, <1>5, <1>6, <1>7, <1>8, <1>9

\* A code's conversion, for the codes that are sent.
LEMMA SentDecoder ==
  ASSUME IInv, NEW k \in DOMAIN conns, NEW binary \in BOOLEAN
  PROVE  /\ \A code \in {1, 2, 3, 4, 5, 7, 8, 9, 10, 11, 12, 13, 246} : Decoder(k, code, binary) = decoders[code]
         /\ \A code \in {16, 255} : Decoder(k, code, binary) = <<"str">>
         /\ \A code \in {252, 253, 254} : Decoder(k, code, binary)[1] \in {"str", "string_decoder"}
<1>1. conns[k].converter = [code \in DOMAIN decoders |->
                      IF code \in TextTypes THEN <<"list", 4 * k + ListOf[code]>> ELSE decoders[code]]
  BY DEF IInv, HeapInv, OwnLists
<1>2. /\ \A code \in {1, 2, 3, 4, 5, 7, 8, 9, 10, 11, 12, 13, 246} :
           code \in DOMAIN conns[k].converter /\ conns[k].converter[code] = decoders[code]
      /\ \A code \in {16, 255} : code \notin DOMAIN conns[k].converter
  BY <1>1, TypeCodes, TableCodes
<1>3. \A code \in {1, 2, 3, 4, 5, 7, 8, 9, 10, 11, 12, 13, 246} : decoders[code][1] # "list"
  BY TableCodes
<1>4. \A code \in {252, 253, 254} : Decoder(k, code, binary)[1] \in {"str", "string_decoder"}
  <2> SUFFICES ASSUME NEW code \in {252, 253, 254} PROVE Decoder(k, code, binary)[1] \in {"str", "string_decoder"}
    OBVIOUS
  <2>1. code \in TextTypes
    BY TypeCodes
  <2>2. Decoder(k, code, binary) \in {<<"str">>, <<"string_decoder", k>>}
    <3>1. /\ Decoder(k, code, TRUE) = <<"str">>
          /\ Decoder(k, code, FALSE) = IF conns[k].unicode THEN <<"string_decoder", k>> ELSE <<"str">>
      BY <2>1, OwnDecoder DEF IInv
    <3>2. CASE binary = TRUE
      BY <3>1, <3>2
    <3>3. CASE binary = FALSE
      BY <3>1, <3>3
    <3> QED
      BY <3>2, <3>3
  <2> QED
    BY <2>2
<1>5. \A code \in {16, 255} : Decoder(k, code, binary) = <<"str">>
  <2> SUFFICES ASSUME NEW code \in {16, 255} PROVE Decoder(k, code, binary) = <<"str">>
    OBVIOUS
  <2>1. code \notin DOMAIN conns[k].converter
    BY <1>2
  <2> QED
    BY <2>1 DEF Decoder
<1>6. \A code \in {1, 2, 3, 4, 5, 7, 8, 9, 10, 11, 12, 13, 246} : Decoder(k, code, binary) = decoders[code]
  <2> DEFINE plain == {1, 2, 3, 4, 5, 7, 8, 9, 10, 11, 12, 13, 246}
  <2>1. \A code \in plain : /\ code \in DOMAIN conns[k].converter /\ conns[k].converter[code] = decoders[code]
                            /\ decoders[code][1] # "list"
    BY <1>2, <1>3
  <2> HIDE DEF plain
  <2>2. \A code \in plain : Decoder(k, code, binary) = decoders[code]
    BY <2>1 DEF Decoder
  <2> QED
    BY <2>2 DEF plain
<1> QED
  BY <1>4, <1>5, <1>6

(* The type object that a column's code equals tells what comes, on every  *)
(* connection: three tables in three files agree.                          *)
THEOREM TypesTell == Spec => []TypesAgree
<1>1. \A A, B \in TypeObjects \ {ROWID} : EqualSets(A, B) <=> A = B
  <2>1. TypeObjects \ {ROWID} = {STRINGS, BINARY, NUMBER, DATE, TIME, TIMESTAMP}
    BY TypeCodes DEF TypeObjects
  <2>2. \A A \in TypeObjects \ {ROWID} : A # {}
    BY <2>1, TypeCodes
  <2>3. ASSUME NEW code, NEW A \in TypeObjects \ {ROWID}, NEW B \in TypeObjects \ {ROWID}, code \in A, code \in B
        PROVE  A = B
    <3>1. CASE A = STRINGS
      BY <2>1, <2>3, <3>1, TypeCodes
    <3>2. CASE A = BINARY
      BY <2>1, <2>3, <3>2, TypeCodes
    <3>3. CASE A = NUMBER
      BY <2>1, <2>3, <3>3, TypeCodes
    <3>4. CASE A = DATE
      BY <2>1, <2>3, <3>4, TypeCodes
    <3>5. CASE A = TIME
      BY <2>1, <2>3, <3>5, TypeCodes
    <3>6. CASE A = TIMESTAMP
      BY <2>1, <2>3, <3>6, TypeCodes
    <3>7. A \in {STRINGS, BINARY, NUMBER, DATE, TIME, TIMESTAMP}
      BY <2>1
    <3> QED
      BY <3>1, <3>2, <3>3, <3>4, <3>5, <3>6, <3>7
  <2> QED
    BY <2>2, <2>3 DEF EqualSets
<1>2. ASSUME NEW code \in SentCodes
      PROVE  Cardinality({A \in TypeObjects : EqualCode(A, code)}) =
               IF code \in Codes({"SHORT", "NEWDECIMAL", "BIT", "GEOMETRY"}) THEN 0 ELSE 1
  <2> DEFINE S == {A \in TypeObjects : EqualCode(A, code)}
  <2>0. S = {A \in TypeObjects : code \in A}
    BY DEF EqualCode
  <2>1. CASE code \in {2, 16, 246, 255}
    <3>1. S = {}
      BY <2>0, <2>1, TypeCodes DEF TypeObjects
    <3>2. Cardinality(S) = 0
      BY <3>1, FS_EmptySet
    <3>3. code \in Codes({"SHORT", "NEWDECIMAL", "BIT", "GEOMETRY"})
      BY <2>1, TypeCodes
    <3> QED
      BY <3>2, <3>3
  <2>2. CASE code \notin {2, 16, 246, 255}
    <3>1. \E A \in TypeObjects : code \in A
      BY <2>2, TypeCodes DEF TypeObjects
    <3>2. \A A, B \in TypeObjects : code \in A /\ code \in B => A = B
      BY <2>2, TypeCodes DEF TypeObjects
    <3>3. \E A : S = {A}
      <4>1. PICK A \in TypeObjects : code \in A
        BY <3>1
      <4>2. S = {A}
        BY <2>0, <3>2, <4>1
      <4> QED
        BY <4>2
    <3>4. Cardinality(S) = 1
      BY <3>3, FS_Singleton
    <3>5. code \notin Codes({"SHORT", "NEWDECIMAL", "BIT", "GEOMETRY"})
      BY <2>2, TypeCodes
    <3> QED
      BY <3>4, <3>5
  <2> QED
    BY <2>1, <2>2
<1>3. ASSUME IInv, NEW k \in DOMAIN conns, NEW code \in SentCodes, NEW binary \in BOOLEAN
      PROVE  LET f == Decoder(k, code, binary)[1] IN
             /\ EqualCode(NUMBER, code)    <=> f \in {"int", "long", "float", "Decimal"} /\ code \notin Codes({"SHORT", "NEWDECIMAL"})
             /\ EqualCode(DATE, code)      <=> f = "Date_or_None"
             /\ EqualCode(TIME, code)      <=> f = "TimeDelta_or_None"
             /\ EqualCode(TIMESTAMP, code) <=> f \in {"DateTime_or_None", "mysql_timestamp_converter"}
             /\ EqualCode(STRINGS, code) \/ EqualCode(BINARY, code) => f \in {"str", "string_decoder"}
  <2>1. CASE code \in {1, 2, 3, 4, 5, 7, 8, 9, 10, 11, 12, 13, 246}
    BY <1>3, <2>1, SentDecoder, TableCodes, TypeCodes DEF EqualCode
  <2>2. CASE code \in {16, 255}
    BY <1>3, <2>2, SentDecoder, TypeCodes DEF EqualCode
  <2>3. CASE code \in {252, 253, 254}
    BY <1>3, <2>3, SentDecoder, TypeCodes DEF EqualCode
  <2> QED
    BY <2>1, <2>2, <2>3, TypeCodes
<1>4. IInv => TypesAgree
  BY <1>1, <1>2, <1>3 DEF TypesAgree
<1> QED
  BY <1>4, Invariance, PTL
=============================================================================
