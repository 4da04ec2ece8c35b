------------------------------ MODULE Converters ------------------------------
(***************************************************************************)
(* MySQLdb/converters.py with the parts of connections.py and __init__.py  *)
(* that use it: the table of conversions, the copy that each connection    *)
(* takes of it, the conversion of an instance by the first class that      *)
(* fits, and the type objects that a column's type code is compared with.  *)
(*                                                                         *)
(* A conversion is a tuple: its name, and the connection it belongs to if  *)
(* it is made for one; <<"list", id>> is a list of conversions, which      *)
(* tables share until it is copied.                                        *)
(***************************************************************************)
EXTENDS Integers, Sequences, FiniteSets, FiniteSetsExt, Functions

CONSTANTS Classes,     \* the classes of a program's instances (`old-style' ones)
          Ancestors,   \* Ancestors[c]: the classes that an instance of c is an instance of
          Convs,       \* the tables that programs connect with: what each registers besides `conversions'
          MaxConns,    \* bound: connections that are opened
          MaxUses      \* bound: instances that are converted

ASSUME AncestorsAssumption ==
  /\ Ancestors \in [Classes -> SUBSET Classes]
  /\ \A c \in Classes : c \in Ancestors[c] /\ \A a \in Ancestors[c] : Ancestors[a] \subseteq Ancestors[c]

VARIABLES
  heap,    \* the lists: sequences of <<flag, conversion>>, "any" for the flag None
  conns,   \* the connections: the conv they were opened with, .converter, .encoders, use_unicode
  used     \* the conversions of instances: <<connection, class, conversion>>

vars == <<heap, conns, used>>

-----------------------------------------------------------------------------
(* constants/FIELD_TYPE.py                                                 *)

FIELD_TYPE ==
  [DECIMAL |-> 0, TINY |-> 1, SHORT |-> 2, LONG |-> 3, FLOAT |-> 4, DOUBLE |-> 5, NULL |-> 6,
   TIMESTAMP |-> 7, LONGLONG |-> 8, INT24 |-> 9, DATE |-> 10, TIME |-> 11, DATETIME |-> 12,
   YEAR |-> 13, NEWDATE |-> 14, VARCHAR |-> 15, BIT |-> 16, NEWDECIMAL |-> 246, ENUM |-> 247,
   SET |-> 248, TINY_BLOB |-> 249, MEDIUM_BLOB |-> 250, LONG_BLOB |-> 251, BLOB |-> 252,
   VAR_STRING |-> 253, STRING |-> 254, GEOMETRY |-> 255]
Codes(names) == {FIELD_TYPE[n] : n \in names}

-----------------------------------------------------------------------------
(* __init__.py 39-61: DBAPISet and the type objects (STRINGS is STRING)    *)

STRINGS   == Codes({"ENUM", "STRING", "VAR_STRING"})
BINARY    == Codes({"BLOB", "LONG_BLOB", "MEDIUM_BLOB", "TINY_BLOB"})
NUMBER    == Codes({"DECIMAL", "DOUBLE", "FLOAT", "INT24", "LONG", "LONGLONG", "TINY", "YEAR"})
DATE      == Codes({"DATE", "NEWDATE"})
TIME      == Codes({"TIME"})
TIMESTAMP == Codes({"TIMESTAMP", "DATETIME"})
ROWID     == {}
TypeObjects == {STRINGS, BINARY, NUMBER, DATE, TIME, TIMESTAMP, ROWID}

\* DBAPISet.__eq__ (44-47), for another type object and for a type code.
EqualSets(A, B)   == A \ B = {}
EqualCode(A, code) == code \in A

-----------------------------------------------------------------------------
(* conversions: 135-186                                                    *)

TextTypes == Codes({"BLOB", "STRING", "VAR_STRING", "VARCHAR"})
\* A list of its own for each of them, with (FLAG.BINARY, str).
ListOf    == CHOOSE f \in [TextTypes -> 1..4] : IsInjective(f)
FirstHeap == [id \in 1..4 |-> << <<"BINARY", <<"str">> >> >>]

decoders ==
  [code \in Codes({"TINY", "SHORT", "INT24", "YEAR", "LONG", "LONGLONG", "FLOAT", "DOUBLE", "DECIMAL", "NEWDECIMAL",
                   "SET", "TIMESTAMP", "DATETIME", "TIME", "DATE"}) \cup TextTypes |->
     CASE code \in Codes({"TINY", "SHORT", "INT24", "YEAR"}) -> <<"int">>
       [] code \in Codes({"LONG", "LONGLONG"}) -> <<"long">>
       [] code \in Codes({"FLOAT", "DOUBLE"}) -> <<"float">>
       [] code \in Codes({"DECIMAL", "NEWDECIMAL"}) -> <<"Decimal">>
       [] code = FIELD_TYPE.SET -> <<"Str2Set">>
       [] code = FIELD_TYPE.TIMESTAMP -> <<"mysql_timestamp_converter">>
       [] code = FIELD_TYPE.DATETIME -> <<"DateTime_or_None">>
       [] code = FIELD_TYPE.TIME -> <<"TimeDelta_or_None">>
       [] code = FIELD_TYPE.DATE -> <<"Date_or_None">>
       [] code \in TextTypes -> <<"list", ListOf[code]>>]

encoders ==
  [IntType |-> <<"Thing2Str">>, LongType |-> <<"Long2Int">>, FloatType |-> <<"Float2Str">>,
   NoneType |-> <<"None2NULL">>, TupleType |-> <<"quote_tuple">>, ListType |-> <<"quote_tuple">>,
   DictType |-> <<"escape_dict">>, InstanceType |-> <<"Instance2Str">>, ArrayType |-> <<"array2Str">>,
   StringType |-> <<"Thing2Literal">>, UnicodeType |-> <<"Unicode2Str">>,
   ObjectType |-> <<"Instance2Str">>, BooleanType |-> <<"Bool2Str">>,
   DateTimeType |-> <<"DateTime2literal">>, DateTimeDeltaType |-> <<"DateTimeDelta2literal">>,
   set |-> <<"Set2Str">>]

\* No class is one of these types; what a program registers is not there already.
ASSUME ConvsAssumption ==
  /\ Classes \cap DOMAIN encoders = {}
  /\ \A conv \in Convs, x \in DOMAIN encoders : x \in DOMAIN conv => conv[x] # encoders[x]

-----------------------------------------------------------------------------
(* connections.py 157-168, 194-233: what a new connection takes            *)

NewId(h, code) == Len(h) + ListOf[code]

\* Mutant: the lists of `conversions' are taken as they are.
Copied_Shared(h) == [heap |-> h, converter |-> decoders]

\* 162-168: the lists are copied (v[:]), the rest is taken over.
Copied(h) ==
  [heap      |-> h \o [id \in 1..4 |-> h[id]],
   converter |-> [code \in DOMAIN decoders |->
                    IF code \in TextTypes THEN <<"list", NewId(h, code)>> ELSE decoders[code]]]

\* 221-225: the connection's own decoder is appended to the four lists.
WithDecoder(h, converter, k) ==
  LET ids == {converter[code][2] : code \in TextTypes} IN
  [id \in DOMAIN h |-> IF id \in ids THEN Append(h[id], <<"any", <<"string_decoder", k>> >>) ELSE h[id]]

\* A table with the entries of f, and for other keys those of g.
Over(f, g) == [x \in DOMAIN f \cup DOMAIN g |-> IF x \in DOMAIN f THEN f[x] ELSE g[x]]

\* 194-195 and 227-228: the program's table, with the literals of the connection.
Encoders(extra, k) ==
  Over([StringType |-> <<"string_literal", k>>, UnicodeType |-> <<"unicode_literal", k>>], Over(extra, encoders))

\* use_unicode is on if it is asked for, or if not said and a charset is given.
connect(extra, charset, use_unicode) ==
  LET k       == Len(conns) + 1
      unicode == IF use_unicode = "unsaid" THEN charset ELSE use_unicode = "yes"
      c       == Copied(heap) IN
  /\ k <= MaxConns
  /\ heap'  = IF unicode THEN WithDecoder(c.heap, c.converter, k) ELSE c.heap
  /\ conns' = Append(conns, [conv |-> extra, converter |-> c.converter,
                              encoders |-> Encoders(extra, k), unicode |-> unicode])
  /\ UNCHANGED used

\* _mysql.c: the conversion of a column, the first in the list that fits its flags.
Decoder(k, code, binary) ==
  LET conv == conns[k].converter IN
  IF code \notin DOMAIN conv THEN <<"str">>
  ELSE IF conv[code][1] # "list" THEN conv[code]
  ELSE LET list == heap[conv[code][2]]
           fits == {i \in DOMAIN list : list[i][1] = "any" \/ binary} IN
       IF fits = {} THEN <<"str">> ELSE list[Min(fits)][2]

-----------------------------------------------------------------------------
(* Instance2Str: converters.py 98-124                                      *)

IsClass(x) == x \in Classes
\* d.keys() comes in any order, and another one after the dictionary has grown.
Candidates(d, c) ==
  LET classes == {x \in DOMAIN d : IsClass(x) /\ x \in Ancestors[c]}
      types   == {x \in {"InstanceType", "ObjectType"} : d[x] # <<"Instance2Str">>} IN
  IF c \in DOMAIN d THEN {c} ELSE IF classes # {} THEN classes ELSE types

\* Mutant: what was found is not kept.
Instance2Str_Forgets(k, c) ==
  LET d == conns[k].encoders IN
  /\ \/ \E x \in Candidates(d, c) : used' = used \cup {<<k, c, d[x]>>}
     \/ Candidates(d, c) = {} /\ used' = used \cup {<<k, c, d["StringType"]>>}
  /\ UNCHANGED <<heap, conns>>

\* 123: what is found is kept for the class.
Instance2Str(k, c) ==
  LET d == conns[k].encoders IN
  /\ \/ \E x \in Candidates(d, c) :
          /\ conns' = [conns EXCEPT ![k].encoders = Over([y \in {c} |-> d[x]], d)]
          /\ used'  = used \cup {<<k, c, d[x]>>}
     \/ /\ Candidates(d, c) = {}
        /\ used' = used \cup {<<k, c, d["StringType"]>>}
        /\ UNCHANGED conns
  /\ UNCHANGED heap

\* db.literal(o) for an instance of c: _mysql looks up its type, InstanceType.
literal(k, c) ==
  /\ Cardinality(used) < MaxUses
  /\ conns[k].encoders["InstanceType"] = <<"Instance2Str">>
  /\ Instance2Str(k, c)

-----------------------------------------------------------------------------
Init == heap = FirstHeap /\ conns = <<>> /\ used = {}

Connect == \E extra \in Convs, charset \in BOOLEAN, use_unicode \in {"unsaid", "yes", "no"} :
             connect(extra, charset, use_unicode)
Literal == \E k \in DOMAIN conns, c \in Classes : literal(k, c)

Next == Connect \/ Literal

Spec == Init /\ [][Next]_vars

-----------------------------------------------------------------------------
(* Properties                                                              *)

(* Text is decoded by the decoder of the connection it came over, if that  *)
(* has use_unicode, and by none if not, whatever other connections were    *)
(* opened before and after; binary data are never decoded.                 *)
OwnDecoders ==
  \A k \in DOMAIN conns, code \in TextTypes :
    /\ Decoder(k, code, TRUE) = <<"str">>
    /\ Decoder(k, code, FALSE) = IF conns[k].unicode THEN <<"string_decoder", k>> ELSE <<"str">>

(* On one connection all instances of a class are converted by the same    *)
(* function, in whatever order the dictionary comes: that of the class if  *)
(* it is registered, else that of a registered class it inherits from, or  *)
(* of object; and if there is none, as the string that this connection     *)
(* quotes.  (A class that inherits from a registered class and from one    *)
(* that was converted as an object may be taken for either.)               *)
SameConversion ==
  \A u \in used :
    LET k == u[1]  c == u[2]  f == u[3]
        conv   == conns[k].conv
        parent == {conv[x] : x \in Ancestors[c] \cap DOMAIN conv}
        object == {conv[x] : x \in {"ObjectType"} \cap DOMAIN conv} IN
    /\ \A v \in used : v[1] = k /\ v[2] = c => v = u
    /\ c \in DOMAIN conv => f = conv[c]
    /\ f \in IF parent \cup object = {} THEN {<<"string_literal", k>>} ELSE parent \cup object
    /\ f \in object \ parent /\ parent # {} => \E v \in used : v[1] = k /\ v[2] \in Ancestors[c] \ {c} /\ v[3] = f

\* The codes of the columns that a server of version 5 sends.
SentCodes ==
  Codes(DOMAIN FIELD_TYPE \ {"NULL", "NEWDATE", "VARCHAR", "ENUM", "SET", "TINY_BLOB", "MEDIUM_BLOB",
                             "LONG_BLOB", "DECIMAL"})

(* The type object that a column's code equals tells the values that come: *)
(* numbers for NUMBER, dates for DATE and so on; no code equals two type   *)
(* objects, and but for the empty ROWID no two of them are equal.  (The    *)
(* codes SHORT and NEWDECIMAL, BIT and GEOMETRY equal none.)               *)
TypesAgree ==
  /\ \A A, B \in TypeObjects \ {ROWID} : EqualSets(A, B) <=> A = B
  /\ \A code \in SentCodes : Cardinality({A \in TypeObjects : EqualCode(A, code)}) =
                               IF code \in Codes({"SHORT", "NEWDECIMAL", "BIT", "GEOMETRY"}) THEN 0 ELSE 1
  /\ \A k \in DOMAIN conns, code \in SentCodes, binary \in BOOLEAN :
       LET f == Decoder(k, code, binary)[1] IN
       /\ EqualCode(NUMBER, code)    <=> f \in {"int", "long", "float", "Decimal"} /\ code \notin Codes({"SHORT", "NEWDECIMAL"})
       /\ EqualCode(DATE, code)      <=> f = "Date_or_None"
       /\ EqualCode(TIME, code)      <=> f = "TimeDelta_or_None"
       /\ EqualCode(TIMESTAMP, code) <=> f \in {"DateTime_or_None", "mysql_timestamp_converter"}
       /\ EqualCode(STRINGS, code) \/ EqualCode(BINARY, code) => f \in {"str", "string_decoder"}
=============================================================================
