---------------------------- MODULE Cursors_proofs ----------------------------
(***************************************************************************)
(* Proofs about Cursors and Connections, for any number of cursors,        *)
(* queries, statements and rows, and any character sets.                   *)
(*                                                                         *)
(* Each method has a lemma: from a connection at rest (Rest) it leaves one *)
(* at rest, also when it raises half way.  k and u stand for a connection  *)
(* and its cursors, s and t for what a method finds and leaves.            *)
(***************************************************************************)
EXTENDS Cursors, SequenceTheorems, Induction

-----------------------------------------------------------------------------
(* Types                                                                   *)

Pairs   == Nat \X Nat
Triples == Nat \X Nat \X Nat
Names   == Charsets \cup {"latin1"}

ConnType ==
  [status : {"ready", "get", "use"}, set : SetType \cup {None}, read : Nat, more : Seq(SetType),
   diag : Pairs \cup {None}, asked : 0..client.queries, autocommit : BOOLEAN, begun : BOOLEAN,
   pending : SUBSET Pairs, stored : SUBSET Pairs, written : SUBSET Pairs, charset : Names,
   string_decoder : Names \cup {"utf8", None}, unicode_literal : Names \cup {"utf8", None}]

CurType ==
  [state : {"none", "open", "closed"}, stream : BOOLEAN, executed : 0..client.queries, reading : BOOLEAN,
   set : SetType \cup {None}, rows : Seq(Triples), rownumber : Nat, warnings : BOOLEAN, stole : BOOLEAN,
   from : Nat, got : Seq(Triples), skipped : BOOLEAN]

CursType == [Cursors -> CurType]
State ==
  [conn : ConnType, cur : CursType, ret : Seq(Triples), raised : BOOLEAN, end : BOOLEAN,
   shown : Pairs \cup {None}]

-----------------------------------------------------------------------------
(* The inductive invariant                                                 *)

\* Between two calls: the cursor that reads owns the wire, and is where the
\* wire is.
Wire(k, u) ==
  /\ k.status \in {"ready", "use"}
  /\ k.status = "use" => \E c \in Cursors : u[c].reading
  /\ \A c \in Cursors : u[c].reading =>
       /\ k.status = "use" /\ u[c].stream /\ k.set \in SetType /\ u[c].set = k.set /\ u[c].rownumber = k.read
       /\ \A d \in Cursors : u[d].reading => c = d
  /\ k.set \in SetType => k.read <= k.set.rows

\* A cursor has all the rows of its set, or is still reading them, and its client
\* has them in order.
Full(a) ==
  a.set \in SetType =>
    IF ~a.stream THEN Len(a.rows) = RowsIn(a.set)
    ELSE IF a.reading THEN a.set.kind = "rows" ELSE a.rownumber = RowsIn(a.set)

Told(a) ==
  (a.got # <<>> => a.set \in SetType) /\ a.got = RowsOf(a.set, a.from, Len(a.got))

\* The rows of a cursor are those of its set.
Rows(a) ==
  /\ Full(a) /\ Told(a)
  /\ a.stream => a.rows = <<>>
  /\ ~a.stream => ~a.reading
  /\ a.rows # <<>> => a.set \in SetType /\ a.rows = RowsOf(a.set, 0, a.set.rows)
  /\ a.rownumber <= (IF a.stream /\ a.set # None THEN a.set.rows ELSE Len(a.rows))

\* The set is that of the last query, unless the cursor took over another one's.
Belongs(a) ==
  /\ a.rows # <<>> \/ a.reading => a.stole \/ a.set.of = a.executed
  /\ a.executed # 0 => a.set \in SetType

\* Between two calls the client has the rows up to the position; after rows were
\* thrown away there are no more of them.
AtEnd(a) == IF a.stream THEN ~a.reading ELSE a.rownumber = Len(a.rows)
At(a)    == IF a.skipped THEN AtEnd(a) ELSE a.from + Len(a.got) = a.rownumber
Owned(a) == Belongs(a) /\ At(a)

\* SHOW WARNINGS tells of the last of the sets q, if all of them come.
LastWarns(q, diag) ==
  (\A i \in DOMAIN q : q[i].kind # "error") /\ q[Len(q)].warn => diag = <<q[Len(q)].of, q[Len(q)].at>>

Later(k) == k.more # <<>> => LastWarns(k.more, k.diag)

InSync(k) ==
  k.string_decoder = py_charset(k.charset) /\ k.unicode_literal = py_charset(k.charset)

\* In a block nothing is stored of what it wrote; a block that failed left
\* nothing to be stored, one that did not has stored everything.
Written(k) ==
  /\ k.stored \subseteq k.written /\ k.pending \subseteq k.written
  /\ \A w \in k.written : w[1] <= k.asked

Transaction(k, b, e) ==
  /\ b \in Nat \cup {None}
  /\ b # None => /\ b <= k.asked /\ (k.autocommit => k.begun)
                 /\ \A w \in k.written : w[1] > b => w \in k.pending /\ w \notin k.stored
  /\ e.writes \subseteq k.written
  /\ e.exc  => e.writes \cap k.stored = {} /\ e.writes \cap k.pending = {}
  /\ ~e.exc => e.writes \subseteq k.stored

Database(k) == InSync(k) /\ Written(k) /\ Transaction(k, block, ended)
Rest(k, u)  == Wire(k, u) /\ (\A c \in Cursors : Rows(u[c])) /\ Later(k) /\ Database(k)

\* What the last call returned.
Returned ==
  /\ last.by \in Cursors \cup {None}
  /\ last.ret # <<>> =>
       LET a == cur[last.by] IN
       /\ last.by \in Cursors /\ a.set \in SetType /\ Len(last.ret) <= a.rownumber
       /\ last.ret = RowsOf(a.set, a.rownumber - Len(last.ret), Len(last.ret))
       /\ a.stole \/ a.set.of = a.executed

IInv ==
  /\ client \in Clients /\ conn \in ConnType /\ cur \in CursType
  /\ Rest(conn, cur)
  /\ \A c \in Cursors : Owned(cur[c]) /\ (cur[c].state = "none" => cur[c] = NoCursor)
  /\ Returned

-----------------------------------------------------------------------------
(* Types of what a method leaves                                           *)

LEMMA StateFields ==
  ASSUME NEW s \in State
  PROVE  /\ s.conn \in ConnType /\ s.cur \in CursType /\ s.ret \in Seq(Triples)
         /\ s.raised \in BOOLEAN /\ s.end \in BOOLEAN /\ s.shown \in Pairs \cup {None}
BY DEF State

LEMMA NewConn ==
  ASSUME NEW s \in State, NEW k \in ConnType
  PROVE  LET t == [s EXCEPT !.conn = k] IN
         /\ t \in State /\ t.conn = k /\ t.cur = s.cur /\ t.ret = s.ret /\ t.raised = s.raised
         /\ t.end = s.end /\ t.shown = s.shown
BY DEF State

LEMMA InState ==
  ASSUME NEW t,
         t = [conn |-> t.conn, cur |-> t.cur, ret |-> t.ret, raised |-> t.raised, end |-> t.end, shown |-> t.shown],
         t.conn \in ConnType, t.cur \in CursType, t.ret \in Seq(Triples), t.raised \in BOOLEAN,
         t.end \in BOOLEAN, t.shown \in Pairs \cup {None}
  PROVE  t \in State
BY DEF State

LEMMA Raised ==
  ASSUME NEW s \in State
  PROVE  LET t == Raise(s) IN
         /\ t \in State /\ t.conn = s.conn /\ t.cur = s.cur /\ t.ret = s.ret /\ t.raised
         /\ t.end = s.end /\ t.shown = s.shown
BY DEF State, Raise

LEMMA SetNotNone ==
  None \notin SetType
BY NoneIsNoSet DEF SetType

\* The connection while it reads the header of the first of the sets q.
Header(k, q) ==
  [k EXCEPT !.set = Head(q), !.read = 0,
            !.more = IF Head(q).kind = "error" THEN <<>> ELSE Tail(q),
            !.status = IF Head(q).kind = "rows" THEN "get" ELSE @]

LEMMA HeaderType ==
  ASSUME NEW k \in ConnType, NEW q \in Seq(SetType), q # <<>>
  PROVE  /\ Header(k, q) \in ConnType /\ Head(q) \in SetType /\ Tail(q) \in Seq(SetType)
         /\ Head(q).kind \in {"rows", "ok", "error"}
<1>1. Head(q) \in SetType /\ Tail(q) \in Seq(SetType)
  BY HeadTailProperties
<1>2. <<>> \in Seq(SetType)
  OBVIOUS
<1>3. Head(q).kind \in {"rows", "ok", "error"}
  BY <1>1 DEF SetType
<1> HIDE DEF SetType
<1>4. Header(k, q) \in ConnType
  BY <1>1, <1>2 DEF Header, ConnType
<1> QED
  BY <1>1, <1>3, <1>4

LEMMA ReadsHeader ==
  ASSUME NEW s \in State, NEW q \in Seq(SetType), q # <<>>
  PROVE  LET t == ReadHeader(s, q) IN
         /\ t \in State /\ t.conn = Header(s.conn, q) /\ t.cur = s.cur /\ t.ret = s.ret
         /\ t.end = s.end /\ t.shown = s.shown /\ t.raised = (s.raised \/ Head(q).kind = "error")
<1> DEFINE t == ReadHeader(s, q)
<1>1. s.conn \in ConnType
  BY StateFields
<1>2. Head(q).kind \in {"rows", "ok", "error"} /\ Header(s.conn, q) \in ConnType
  BY <1>1, HeaderType
<1>3. CASE Head(q).kind = "rows"
  <2>1. t.conn = Header(s.conn, q)
    BY <1>3 DEF ReadHeader, Header, State, ConnType
  <2>2. t.cur = s.cur /\ t.ret = s.ret /\ t.end = s.end /\ t.shown = s.shown /\ t.raised = s.raised
    BY <1>3 DEF ReadHeader, State, ConnType
  <2>3. t = [conn |-> t.conn, cur |-> t.cur, ret |-> t.ret, raised |-> t.raised, end |-> t.end, shown |-> t.shown]
    BY <1>3 DEF ReadHeader, State, ConnType
  <2>4. t \in State
    BY <1>2, <2>1, <2>2, <2>3, InState, StateFields
  <2> QED
    BY <1>2, <1>3, <2>1, <2>2, <2>4, StateFields
<1>4. CASE Head(q).kind = "ok"
  <2>1. t.conn = Header(s.conn, q)
    BY <1>4 DEF ReadHeader, Header, State, ConnType
  <2>2. t.cur = s.cur /\ t.ret = s.ret /\ t.end = s.end /\ t.shown = s.shown /\ t.raised = s.raised
    BY <1>4 DEF ReadHeader, State, ConnType
  <2>3. t = [conn |-> t.conn, cur |-> t.cur, ret |-> t.ret, raised |-> t.raised, end |-> t.end, shown |-> t.shown]
    BY <1>4 DEF ReadHeader, State, ConnType
  <2>4. t \in State
    BY <1>2, <2>1, <2>2, <2>3, InState, StateFields
  <2> QED
    BY <1>2, <1>4, <2>1, <2>2, <2>4, StateFields
<1>5. CASE Head(q).kind = "error"
  <2>1. t.conn = Header(s.conn, q)
    BY <1>5 DEF ReadHeader, Header, State, ConnType, Raise
  <2>2. t.cur = s.cur /\ t.ret = s.ret /\ t.end = s.end /\ t.shown = s.shown /\ t.raised
    BY <1>5 DEF ReadHeader, State, ConnType, Raise
  <2>3. t = [conn |-> t.conn, cur |-> t.cur, ret |-> t.ret, raised |-> t.raised, end |-> t.end, shown |-> t.shown]
    BY <1>5 DEF ReadHeader, State, ConnType, Raise
  <2>4. t.raised = TRUE
    BY <1>5 DEF ReadHeader, State, ConnType, Raise
  <2>5. t \in State
    BY <1>2, <2>1, <2>2, <2>3, InState, StateFields
  <2> QED
    BY <1>2, <1>5, <2>1, <2>2, <2>4, <2>5, StateFields
<1> QED
  BY <1>2, <1>3, <1>4, <1>5

-----------------------------------------------------------------------------
(* A query and the next result: the connection has announced a set, which  *)
(* the cursor has still to take.                                           *)

\* Fields that the invariant Database speaks of.
SameData(k, l) ==
  /\ k.asked = l.asked /\ k.autocommit = l.autocommit /\ k.begun = l.begun
  /\ k.pending = l.pending /\ k.stored = l.stored /\ k.written = l.written
  /\ k.charset = l.charset /\ k.string_decoder = l.string_decoder /\ k.unicode_literal = l.unicode_literal

Announced(k, u) ==
  /\ k.status \in {"ready", "get"} /\ k.set \in SetType /\ k.read = 0
  /\ \A c \in Cursors : ~u[c].reading /\ Rows(u[c])
  /\ Later(k) /\ Database(k)
  /\ k.more = <<>> /\ k.set.warn => k.diag = <<k.set.of, k.set.at>>
  /\ k.status = "get" <=> k.set.kind = "rows"

LEMMA DataKept ==
  ASSUME NEW k, NEW l, SameData(k, l), Database(k)
  PROVE  Database(l)
BY DEF SameData, Database, InSync, Written, Transaction

\* Nobody reads a connection that takes a query.
LEMMA NobodyReads ==
  ASSUME NEW k, NEW u, Wire(k, u), k.status = "ready", NEW c \in Cursors
  PROVE  ~u[c].reading
BY DEF Wire

\* From the header of sets whose warnings are known.
LEMMA HeaderAnnounces ==
  ASSUME NEW k \in ConnType, NEW u \in CursType, NEW q \in Seq(SetType), q # <<>>,
         k.status = "ready", \A c \in Cursors : ~u[c].reading /\ Rows(u[c]),
         LastWarns(q, k.diag), Database(k)
  PROVE  /\ Head(q).kind = "error" => Rest(Header(k, q), u)
         /\ Head(q).kind # "error" => Announced(Header(k, q), u) /\ Header(k, q).more = Tail(q)
         /\ Header(k, q).set = Head(q) /\ Header(k, q).asked = k.asked
<1> DEFINE h == Header(k, q)
<1>1. h \in ConnType /\ Head(q) \in SetType /\ Tail(q) \in Seq(SetType) /\ Head(q).kind \in {"rows", "ok", "error"}
  BY HeaderType
<1>2. /\ h.set = Head(q) /\ h.read = 0 /\ h.diag = k.diag
      /\ h.more = (IF Head(q).kind = "error" THEN <<>> ELSE Tail(q))
      /\ h.status = (IF Head(q).kind = "rows" THEN "get" ELSE "ready")
  BY DEF Header, ConnType
<1>3. SameData(k, h)
  BY DEF Header, ConnType, SameData
<1>4. Database(h)
  BY <1>3, DataKept
<1>5. Head(q).rows \in Nat /\ q[1] = Head(q) /\ Len(q) \in Nat \ {0}
  BY <1>1, LenProperties, EmptySeq DEF SetType
<1> HIDE DEF h
<1>6. CASE Head(q).kind = "error"
  <2>1. h.status = "ready" /\ h.more = <<>>
    BY <1>2, <1>6
  <2>2. Wire(h, u)
    BY <1>2, <1>5, <2>1 DEF Wire
  <2>3. Later(h)
    BY <2>1 DEF Later
  <2>4. Rest(h, u)
    BY <1>4, <2>2, <2>3 DEF Rest
  <2> QED
    BY <1>2, <1>3, <1>6, <2>4 DEF SameData, h
<1>7. CASE Head(q).kind # "error"
  <2>1. h.more = Tail(q)
    BY <1>2, <1>7
  <2>2. Len(Tail(q)) = Len(q) - 1
    BY HeadTailProperties
  <2>3. ASSUME Tail(q) = <<>> PROVE Len(q) = 1
    <3>1. Len(<<>>) = 0
      OBVIOUS
    <3>2. Len(q) - 1 = 0
      BY <2>2, <2>3, <3>1, Zenon
    <3> QED
      BY <1>5, <3>2
  <2>4. h.more = <<>> /\ h.set.warn => h.diag = <<h.set.of, h.set.at>>
    <3>1. ASSUME Tail(q) = <<>>, Head(q).warn PROVE k.diag = <<Head(q).of, Head(q).at>>
      <4>1. Len(q) = 1 /\ q[Len(q)] = Head(q) /\ DOMAIN q = {1}
        BY <2>3, <3>1, <1>5, LenProperties
      <4> QED
        BY <1>5, <1>7, <3>1, <4>1 DEF LastWarns
    <3> QED
      BY <1>2, <2>1, <3>1
  <2>5. Later(h)
    <3>1. ASSUME Tail(q) # <<>> PROVE LastWarns(Tail(q), k.diag)
      <4>1. Len(Tail(q)) = Len(q) - 1 /\ Len(q) - 1 \in Nat \ {0}
        <5>1. Len(Tail(q)) \in Nat \ {0}
          BY <1>1, <3>1, EmptySeq
        <5> QED
          BY <1>5, <2>2, <5>1
      <4>2. \A i \in 1..(Len(q) - 1) : Tail(q)[i] = q[i + 1]
        BY HeadTailProperties, <4>1
      <4>3. DOMAIN q = 1..Len(q) /\ DOMAIN Tail(q) = 1..(Len(q) - 1)
        BY <4>1, <1>1, LenProperties
      <4>4. Tail(q)[Len(Tail(q))] = q[Len(q)]
        BY <4>1, <4>2, <1>5
      <4>5. (\A i \in DOMAIN Tail(q) : Tail(q)[i].kind # "error") => \A i \in DOMAIN q : q[i].kind # "error"
        <5> SUFFICES ASSUME \A i \in DOMAIN Tail(q) : Tail(q)[i].kind # "error", NEW i \in DOMAIN q
                     PROVE  q[i].kind # "error"
          OBVIOUS
        <5>1. CASE i = 1
          BY <5>1, <1>5, <1>7
        <5>2. CASE i # 1
          <6>1. i - 1 \in 1..(Len(q) - 1)
            BY <5>2, <4>1, <4>3, <1>5
          <6>2. Tail(q)[i - 1] = q[i]
            BY <6>1, <4>2, <4>3, <1>5
          <6> QED
            BY <6>1, <6>2, <4>3
        <5> QED
          BY <5>1, <5>2
      <4> QED
        BY <4>4, <4>5 DEF LastWarns
    <3> QED
      BY <1>2, <2>1, <3>1 DEF Later
  <2>6. h.status \in {"ready", "get"} /\ (h.status = "get" <=> h.set.kind = "rows")
    BY <1>2
  <2>7. Announced(h, u)
    BY <1>1, <1>2, <1>4, <2>4, <2>5, <2>6 DEF Announced
  <2> QED
    BY <1>2, <1>3, <1>7, <2>1, <2>7 DEF SameData, h
<1> QED
  BY <1>6, <1>7

\* The statements that run, if none of them fails.
LEMMA AllRun ==
  ASSUME NEW script \in Seq(Statement), script # <<>>
  PROVE  /\ Run(script) \subseteq 1..Len(script) /\ Cardinality(Run(script)) \in 0..Len(script)
         /\ (\A i \in DOMAIN script : script[i].kind # "error") => Cardinality(Run(script)) = Len(script)
<1>1. Len(script) \in Nat /\ DOMAIN script = 1..Len(script)
  BY LenProperties
<1>2. Run(script) \subseteq 1..Len(script)
  BY <1>1 DEF Run
<1>3. IsFiniteSet(1..Len(script)) /\ Cardinality(1..Len(script)) = Len(script)
  BY <1>1, FS_Interval
<1>4. Cardinality(Run(script)) <= Len(script) /\ Cardinality(Run(script)) \in Nat
  BY <1>2, <1>3, FS_Subset, FS_CardinalityType
<1>5. ASSUME \A i \in DOMAIN script : script[i].kind # "error" PROVE Run(script) = 1..Len(script)
  BY <1>1, <1>5 DEF Run
<1> QED
  BY <1>1, <1>2, <1>3, <1>4, <1>5

LEMMA ServerKeeps ==
  ASSUME client \in Clients, NEW k \in ConnType, NEW script \in Seq(Statement), script # <<>>,
         k.asked < client.queries, Database(k)
  PROVE  LET l == OnServer(k, script) IN
         /\ l \in ConnType /\ l.asked = k.asked + 1 /\ Database(l)
         /\ l.status = k.status /\ l.set = k.set /\ l.read = k.read /\ l.more = k.more
         /\ (\A i \in DOMAIN script : script[i].kind # "error") /\ script[Len(script)].warn
              => l.diag = <<k.asked + 1, Len(script)>>
<1> DEFINE l == OnServer(k, script)
           n == k.asked + 1
           new == Writes(script, n)
           ran == Cardinality(Run(script))
           once == k.autocommit /\ ~k.begun
<1>1. client.queries \in Nat
  BY ClientsTyped
<1>2. k.asked \in 0..client.queries /\ n \in 0..client.queries /\ n \in Nat
  BY <1>1 DEF ConnType
<1>3. Len(script) \in Nat \ {0} /\ DOMAIN script = 1..Len(script)
  BY LenProperties, EmptySeq
<1>4. ran \in 0..Len(script) /\ Run(script) \subseteq 1..Len(script)
  BY AllRun
<1>5. new \in SUBSET Pairs /\ \A w \in new : w[1] = n
  <2>1. \A j \in Run(script) : <<n, j>> \in Pairs /\ <<n, j>>[1] = n
    BY <1>2, <1>3, <1>4 DEF Pairs
  <2> QED
    BY <2>1 DEF Writes
<1>6. (IF ran > 0 /\ script[ran].warn THEN <<n, ran>> ELSE None) \in Pairs \cup {None}
  BY <1>2, <1>3, <1>4 DEF Pairs
<1>7. /\ l.asked = n /\ l.written = k.written \cup new
      /\ l.stored = (IF once THEN k.stored \cup new ELSE k.stored)
      /\ l.pending = (IF once THEN k.pending ELSE k.pending \cup new)
      /\ l.diag = (IF ran > 0 /\ script[ran].warn THEN <<n, ran>> ELSE None)
  BY DEF OnServer, ConnType
<1>8. /\ l.status = k.status /\ l.set = k.set /\ l.read = k.read /\ l.more = k.more
      /\ l.autocommit = k.autocommit /\ l.begun = k.begun /\ l.charset = k.charset
      /\ l.string_decoder = k.string_decoder /\ l.unicode_literal = k.unicode_literal
  BY DEF OnServer, ConnType
<1>9. l \in ConnType
  <2>1. l = [k EXCEPT !.asked = l.asked, !.written = l.written, !.stored = l.stored,
                      !.pending = l.pending, !.diag = l.diag]
    BY DEF OnServer, ConnType
  <2>2. l.asked \in 0..client.queries /\ l.diag \in Pairs \cup {None}
    BY <1>2, <1>6, <1>7
  <2>3. l.written \in SUBSET Pairs /\ l.stored \in SUBSET Pairs /\ l.pending \in SUBSET Pairs
    BY <1>5, <1>7 DEF ConnType
  <2> HIDE DEF l
  <2> QED
    BY <2>1, <2>2, <2>3 DEF ConnType
<1> HIDE DEF l, new, once
<1>10. \A w \in k.written : w[1] <= k.asked
  BY DEF Database, Written
<1>11. InSync(l)
  BY <1>8 DEF Database, InSync
<1>12. Written(l)
  <2>1. l.stored \subseteq l.written /\ l.pending \subseteq l.written
    BY <1>7 DEF Database, Written
  <2>2. ASSUME NEW w \in l.written PROVE w[1] <= l.asked
    <3>1. w \in k.written \/ w \in new
      BY <1>7
    <3>2. w \in k.written => w[1] \in Nat
      BY DEF ConnType, Pairs
    <3> QED
      BY <1>2, <1>5, <1>7, <1>10, <3>1, <3>2
  <2> QED
    BY <2>1, <2>2 DEF Written
<1>13. Transaction(l, block, ended)
  <2>1. ended.writes \subseteq k.written /\ ended.writes \cap new = {}
    <3>1. ended.writes \subseteq k.written
      BY DEF Database, Transaction
    <3>2. ASSUME NEW w \in ended.writes, w \in new PROVE FALSE
      BY <1>2, <1>5, <1>10, <3>1, <3>2
    <3> QED
      BY <3>1, <3>2
  <2>2. (block # None => block <= l.asked) /\ block \in Nat \cup {None}
    BY <1>2, <1>7 DEF Database, Transaction
  <2>3. block # None => (l.autocommit => l.begun) /\ ~once
    BY <1>8 DEF Database, Transaction, once
  <2>4. ASSUME block # None, NEW w \in l.written, w[1] > block PROVE w \in l.pending /\ w \notin l.stored
    <3>1. CASE w \in new
      <4>1. w \in l.pending /\ w[1] = n
        BY <1>5, <1>7, <2>3, <2>4, <3>1
      <4>2. w \notin k.written
        BY <1>2, <1>10, <4>1
      <4> QED
        BY <1>7, <2>3, <2>4, <4>1, <4>2 DEF Database, Written
    <3>2. CASE w \in k.written
      BY <1>7, <2>3, <2>4, <3>2 DEF Database, Transaction
    <3> QED
      BY <1>7, <3>1, <3>2
  <2>5. /\ ended.exc => ended.writes \cap l.stored = {} /\ ended.writes \cap l.pending = {}
        /\ ~ended.exc => ended.writes \subseteq l.stored
    BY <1>7, <2>1 DEF Database, Transaction
  <2>6. ended.writes \subseteq l.written
    BY <1>7, <2>1
  <2> QED
    BY <2>2, <2>3, <2>4, <2>5, <2>6 DEF Transaction
<1>14. ASSUME \A i \in DOMAIN script : script[i].kind # "error", script[Len(script)].warn
       PROVE  l.diag = <<n, Len(script)>>
  <2>1. ran = Len(script)
    BY <1>14, AllRun
  <2> QED
    BY <1>3, <1>7, <1>14, <2>1
<1>15. Database(l)
  BY <1>11, <1>12, <1>13 DEF Database
<1> QED
  BY <1>7, <1>8, <1>9, <1>14, <1>15 DEF l

\* What a method may leave of what is not its business.
Same(s, t) == t.cur = s.cur /\ t.ret = s.ret /\ t.end = s.end /\ t.shown = s.shown

LEMMA Queried ==
  ASSUME client \in Clients, NEW s \in State, ~s.raised, Rest(s.conn, s.cur),
         NEW script \in Seq(Statement), script # <<>>, s.conn.asked < client.queries
  PROVE  LET t == query(s, script) IN
         /\ t \in State /\ Same(s, t) /\ t.conn.asked \in {s.conn.asked, s.conn.asked + 1}
         /\ t.raised  => Rest(t.conn, t.cur)
         /\ ~t.raised => /\ Announced(t.conn, t.cur) /\ t.conn.set.of = t.conn.asked
                         /\ t.conn.set.kind = script[1].kind
<1> DEFINE t == query(s, script)
           l == OnServer(s.conn, script)
           q == [k \in DOMAIN script |->
                  [of |-> s.conn.asked + 1, at |-> k, kind |-> script[k].kind,
                   rows |-> script[k].rows, warn |-> script[k].warn]]
           r == [s EXCEPT !.conn = l]
<1>1. s.conn \in ConnType /\ s.cur \in CursType
  BY StateFields
<1>2. CASE ~Idle(s.conn)
  <2>1. t = Raise(s)
    BY <1>2 DEF query
  <2> QED
    BY <1>2, <2>1, Raised DEF Same
<1>3. CASE Idle(s.conn)
  <2>1. /\ l \in ConnType /\ l.asked = s.conn.asked + 1 /\ Database(l) /\ l.status = "ready"
        /\ (\A i \in DOMAIN script : script[i].kind # "error") /\ script[Len(script)].warn
              => l.diag = <<s.conn.asked + 1, Len(script)>>
    BY <1>1, <1>3, ServerKeeps DEF Rest, Idle
  <2>2. Len(script) \in Nat \ {0} /\ DOMAIN script = 1..Len(script) /\ script \in [1..Len(script) -> Statement]
    BY LenProperties, EmptySeq
  <2>3. client.queries \in Nat /\ s.conn.asked + 1 \in 1..client.queries
    <3>1. client.queries \in Nat
      BY ClientsTyped
    <3>2. s.conn.asked \in 0..client.queries
      BY <1>1 DEF ConnType
    <3> QED
      BY <3>1, <3>2
  <2>4. q \in Seq(SetType) /\ Len(q) = Len(script) /\ DOMAIN q = DOMAIN script
    <3>1. \A k \in 1..Len(script) : q[k] \in SetType
      BY <2>2, <2>3 DEF Statement, SetType
    <3>2. q \in [1..Len(script) -> SetType]
      BY <2>2, <3>1
    <3>3. q \in Seq(SetType)
      BY <2>2, <3>2, SeqDef
    <3>4. Len(q) \in Nat /\ DOMAIN q = 1..Len(q)
      BY <3>3, LenProperties
    <3>5. DOMAIN q = 1..Len(script)
      BY <2>2
    <3>6. Len(q) = Len(script)
      BY <2>2, <3>4, <3>5
    <3> QED
      BY <2>2, <3>3, <3>5, <3>6
  <2>5. q # <<>>
    BY <2>2, <2>4, EmptySeq
  <2>6. \A i \in DOMAIN script : /\ q[i].kind = script[i].kind /\ q[i].warn = script[i].warn
                                 /\ q[i].of = s.conn.asked + 1 /\ q[i].at = i
    OBVIOUS
  <2>7. LastWarns(q, l.diag)
    <3>1. Len(q) \in DOMAIN script
      BY <2>2, <2>4
    <3>2. ASSUME \A i \in DOMAIN q : q[i].kind # "error", q[Len(q)].warn
          PROVE  l.diag = <<q[Len(q)].of, q[Len(q)].at>>
      <4>1. \A i \in DOMAIN script : script[i].kind # "error"
        BY <2>4, <2>6, <3>2
      <4>2. script[Len(script)].warn
        BY <2>4, <2>6, <3>1, <3>2
      <4>3. q[Len(q)].of = s.conn.asked + 1 /\ q[Len(q)].at = Len(script)
        BY <2>4, <2>6, <3>1
      <4> QED
        BY <2>1, <4>1, <4>2, <4>3
    <3> QED
      BY <3>2 DEF LastWarns
  <2>8. Head(q) = q[1] /\ 1 \in DOMAIN script
    BY <2>2, <2>4
  <2>9. \A c \in Cursors : ~s.cur[c].reading /\ Rows(s.cur[c])
    BY <1>3, NobodyReads DEF Rest, Idle
  <2>10. t = ReadHeader(r, q)
    BY <1>3, <1>1 DEF query, State
  <2>11. /\ r \in State /\ r.conn = l /\ r.cur = s.cur /\ r.ret = s.ret /\ r.raised = s.raised
         /\ r.end = s.end /\ r.shown = s.shown
    <3> HIDE DEF l
    <3> QED
      BY <2>1, NewConn
  <2>12. Head(q).kind = script[1].kind /\ Head(q).of = s.conn.asked + 1
    BY <2>6, <2>8
  <2> HIDE DEF q, l, r, t
  <2>13. /\ t \in State /\ t.conn = Header(l, q) /\ t.cur = r.cur /\ t.ret = r.ret
         /\ t.end = r.end /\ t.shown = r.shown /\ t.raised = (r.raised \/ Head(q).kind = "error")
    BY <2>4, <2>5, <2>10, <2>11, ReadsHeader
  <2>14. /\ Head(q).kind = "error" => Rest(Header(l, q), s.cur)
         /\ Head(q).kind # "error" => Announced(Header(l, q), s.cur)
         /\ Header(l, q).set = Head(q) /\ Header(l, q).asked = l.asked
    BY <1>1, <2>1, <2>4, <2>5, <2>7, <2>9, HeaderAnnounces
  <2>15. Same(s, t)
    BY <2>11, <2>13 DEF Same
  <2>16. t.raised <=> Head(q).kind = "error"
    BY <2>11, <2>13
  <2>17. t.conn.asked = s.conn.asked + 1 /\ t.conn.set = Head(q)
    BY <2>1, <2>13, <2>14
  <2> QED
    BY <2>11, <2>12, <2>13, <2>14, <2>15, <2>16, <2>17 DEF t
<1> QED
  BY <1>2, <1>3

LEMMA NextSets ==
  ASSUME NEW s \in State, ~s.raised, ~s.end, Rest(s.conn, s.cur)
  PROVE  LET t == next_result(s) IN
         /\ t \in State /\ t.cur = s.cur /\ t.ret = s.ret /\ t.shown = s.shown
         /\ t.conn.asked = s.conn.asked
         /\ t.raised => /\ Rest(t.conn, t.cur)
                        /\ (s.conn.status # "ready" /\ t.conn = s.conn) \/ t.conn.set.kind = "error"
         /\ ~t.raised /\ t.end  => t.conn = s.conn /\ Idle(t.conn)
         /\ ~t.raised /\ ~t.end => Announced(t.conn, t.cur) /\ Len(t.conn.more) = Len(s.conn.more) - 1
<1> DEFINE t == next_result(s)
           q == s.conn.more
<1>1. s.conn \in ConnType /\ s.cur \in CursType
  BY StateFields
<1>2. CASE s.conn.status # "ready"
  <2>1. t = Raise(s)
    BY <1>2 DEF next_result
  <2> QED
    BY <1>2, <2>1, Raised
<1>3. CASE s.conn.status = "ready" /\ q = <<>>
  <2>1. t = [s EXCEPT !.end = TRUE]
    BY <1>3 DEF next_result
  <2>2. t \in State /\ t.conn = s.conn /\ t.cur = s.cur /\ t.ret = s.ret /\ t.shown = s.shown /\ t.raised = s.raised /\ t.end
    BY <2>1 DEF State
  <2> QED
    BY <1>3, <2>2 DEF Idle
<1>4. CASE s.conn.status = "ready" /\ q # <<>>
  <2>1. t = ReadHeader(s, q)
    BY <1>4 DEF next_result
  <2>2. q \in Seq(SetType) /\ LastWarns(q, s.conn.diag) /\ Database(s.conn)
    BY <1>1, <1>4 DEF ConnType, Rest, Later
  <2>3. \A c \in Cursors : ~s.cur[c].reading /\ Rows(s.cur[c])
    BY <1>4, NobodyReads DEF Rest
  <2> HIDE DEF q, t
  <2>4. /\ t \in State /\ t.conn = Header(s.conn, q) /\ t.cur = s.cur /\ t.ret = s.ret
        /\ t.end = s.end /\ t.shown = s.shown /\ t.raised = (s.raised \/ Head(q).kind = "error")
    BY <1>4, <2>1, <2>2, ReadsHeader
  <2>5. /\ Head(q).kind = "error" => Rest(Header(s.conn, q), s.cur)
        /\ Head(q).kind # "error" => Announced(Header(s.conn, q), s.cur) /\ Header(s.conn, q).more = Tail(q)
        /\ Header(s.conn, q).set = Head(q) /\ Header(s.conn, q).asked = s.conn.asked
    BY <1>1, <1>4, <2>2, <2>3, HeaderAnnounces
  <2>6. Len(Tail(q)) = Len(q) - 1
    BY <1>4, <2>2, HeadTailProperties
  <2>7. t.raised <=> Head(q).kind = "error"
    BY <2>4
  <2>8. ~t.end
    BY <2>4
  <2> QED
    BY <2>4, <2>5, <2>6, <2>7, <2>8 DEF t, q
<1> QED
  BY <1>2, <1>3, <1>4

-----------------------------------------------------------------------------
(* The cursor takes the set                                                *)

LEMMA NewCursor ==
  ASSUME NEW u \in CursType, NEW c \in Cursors, NEW a \in CurType
  PROVE  LET v == [u EXCEPT ![c] = a] IN
         v \in CursType /\ v[c] = a /\ \A d \in Cursors \ {c} : v[d] = u[d]
BY DEF CursType

LEMMA RowsType ==
  ASSUME NEW set \in SetType, NEW first \in Nat, NEW n \in Nat
  PROVE  /\ RowsOf(set, first, n) \in Seq(Triples) /\ Len(RowsOf(set, first, n)) = n
         /\ DOMAIN RowsOf(set, first, n) = 1..n
         /\ \A i \in 1..n : RowsOf(set, first, n)[i] = <<set.of, set.at, first + i>>
         /\ RowsOf(set, first, n) # <<>> => n > 0
<1> DEFINE r == RowsOf(set, first, n)
<1>1. \A i \in 1..n : <<set.of, set.at, first + i>> \in Triples
  BY DEF SetType, Triples
<1>2. DOMAIN r = 1..n /\ \A i \in 1..n : r[i] = <<set.of, set.at, first + i>>
  BY DEF RowsOf
<1>3. r \in [1..n -> Triples]
  BY <1>1 DEF RowsOf
<1>4. r \in Seq(Triples)
  BY <1>3, SeqDef
<1> HIDE DEF r
<1>5. Len(r) = n
  <2>1. Len(r) \in Nat /\ DOMAIN r = 1..Len(r)
    BY <1>4, LenProperties
  <2> QED
    BY <1>2, <2>1
<1>6. r # <<>> => n > 0
  BY <1>4, <1>5, EmptySeq
<1> QED
  BY <1>2, <1>4, <1>5, <1>6 DEF r

LEMMA NoRows ==
  ASSUME NEW set, NEW first
  PROVE  RowsOf(set, first, 0) = <<>>
BY DEF RowsOf

\* Rows that follow each other are rows in order.
LEMMA RowsJoin ==
  ASSUME NEW set \in SetType, NEW first \in Nat, NEW m \in Nat, NEW n \in Nat
  PROVE  RowsOf(set, first, m) \o RowsOf(set, first + m, n) = RowsOf(set, first, m + n)
<1> DEFINE r == RowsOf(set, first, m)
           q == RowsOf(set, first + m, n)
           a == RowsOf(set, first, m + n)
<1>1. /\ r \in Seq(Triples) /\ Len(r) = m
      /\ \A i \in 1..m : r[i] = <<set.of, set.at, first + i>>
  BY RowsType, Zenon
<1>2. /\ q \in Seq(Triples) /\ Len(q) = n
      /\ \A i \in 1..n : q[i] = <<set.of, set.at, (first + m) + i>>
  <2>1. first + m \in Nat
    OBVIOUS
  <2> QED
    BY <2>1, RowsType, Zenon
<1>3. /\ a \in Seq(Triples) /\ Len(a) = m + n
      /\ \A i \in 1..(m + n) : a[i] = <<set.of, set.at, first + i>>
  <2>1. m + n \in Nat
    OBVIOUS
  <2> QED
    BY <2>1, RowsType, Zenon
<1> HIDE DEF r, q, a
<1>4. /\ r \o q \in Seq(Triples) /\ Len(r \o q) = m + n
      /\ \A i \in 1..(m + n) : (r \o q)[i] = IF i <= m THEN r[i] ELSE q[i - m]
  BY <1>1, <1>2, ConcatProperties
<1>5. ASSUME NEW i \in 1..(m + n) PROVE (r \o q)[i] = a[i]
  <2>1. CASE i <= m
    <3>1. i \in 1..m
      BY <2>1
    <3> QED
      BY <1>1, <1>3, <1>4, <2>1, <3>1
  <2>2. CASE ~(i <= m)
    <3>1. i - m \in 1..n /\ (first + m) + (i - m) = first + i
      BY <2>2
    <3> QED
      BY <1>2, <1>3, <1>4, <2>2, <3>1
  <2> QED
    BY <2>1, <2>2
<1>6. r \o q = a
  BY <1>3, <1>4, <1>5, SeqEqual
<1> QED
  BY <1>6 DEF r, q, a

\* What _get_result and _do_get_result make of the cursor and of the
\* connection's status.
Taken(set, a, get) ==
  [a EXCEPT !.reading = IF ~get THEN FALSE ELSE IF a.stream THEN TRUE ELSE @,
            !.rows = IF ~get THEN <<>> ELSE IF a.stream THEN @ ELSE RowsOf(set, 0, set.rows)]

LEMMA GetFields ==
  ASSUME NEW s \in State, NEW c \in Cursors
  PROVE  LET t == _get_result(s, c)
             get == s.conn.status = "get" IN
         /\ t.conn = [s.conn EXCEPT !.status = IF ~get THEN @ ELSE IF s.cur[c].stream THEN "use" ELSE "ready"]
         /\ t.cur = [s.cur EXCEPT ![c] = Taken(s.conn.set, s.cur[c], get)]
         /\ t = [conn |-> t.conn, cur |-> t.cur, ret |-> s.ret, raised |-> s.raised, end |-> s.end, shown |-> s.shown]
<1> DEFINE t == _get_result(s, c)
<1>1. s = [conn |-> s.conn, cur |-> s.cur, ret |-> s.ret, raised |-> s.raised, end |-> s.end, shown |-> s.shown]
  BY DEF State
<1>2. CASE s.conn.status # "get"
  <2>1. t = [s EXCEPT !.cur = [s.cur EXCEPT ![c] = [s.cur[c] EXCEPT !.reading = FALSE, !.rows = <<>>]]]
    BY <1>2, <1>1 DEF _get_result, State, ConnType, CursType, CurType
  <2>2. s.conn = [s.conn EXCEPT !.status = @]
    BY DEF State, ConnType
  <2> HIDE DEF t
  <2>3. t.conn = s.conn /\ t.cur = [s.cur EXCEPT ![c] = [s.cur[c] EXCEPT !.reading = FALSE, !.rows = <<>>]]
    BY <1>1, <2>1
  <2>4. t = [conn |-> t.conn, cur |-> t.cur, ret |-> s.ret, raised |-> s.raised, end |-> s.end, shown |-> s.shown]
    BY <1>1, <2>1
  <2> QED
    BY <1>2, <2>2, <2>3, <2>4 DEF Taken, t
<1>3. CASE s.conn.status = "get" /\ s.cur[c].stream
  <2>1. t = [s EXCEPT !.conn = [s.conn EXCEPT !.status = "use"],
                      !.cur = [s.cur EXCEPT ![c] = [s.cur[c] EXCEPT !.reading = TRUE]]]
    BY <1>3, <1>1 DEF _get_result, State, ConnType, CursType, CurType
  <2>2. Taken(s.conn.set, s.cur[c], TRUE) = [s.cur[c] EXCEPT !.reading = TRUE]
    BY <1>3 DEF Taken, State, CursType, CurType
  <2> HIDE DEF t
  <2>3. t.conn = [s.conn EXCEPT !.status = "use"] /\ t.cur = [s.cur EXCEPT ![c] = [s.cur[c] EXCEPT !.reading = TRUE]]
    BY <1>1, <2>1
  <2>4. t = [conn |-> t.conn, cur |-> t.cur, ret |-> s.ret, raised |-> s.raised, end |-> s.end, shown |-> s.shown]
    BY <1>1, <2>1
  <2> QED
    BY <1>3, <2>2, <2>3, <2>4 DEF t
<1>4. CASE s.conn.status = "get" /\ ~s.cur[c].stream
  <2>1. t = [s EXCEPT !.conn = [s.conn EXCEPT !.status = "ready"],
                      !.cur = [s.cur EXCEPT ![c] = [s.cur[c] EXCEPT !.rows = RowsOf(s.conn.set, 0, s.conn.set.rows)]]]
    BY <1>4, <1>1 DEF _get_result, State, ConnType, CursType, CurType
  <2>2. Taken(s.conn.set, s.cur[c], TRUE) = [s.cur[c] EXCEPT !.rows = RowsOf(s.conn.set, 0, s.conn.set.rows)]
    BY <1>4 DEF Taken, State, CursType, CurType
  <2> HIDE DEF t
  <2>3. /\ t.conn = [s.conn EXCEPT !.status = "ready"]
        /\ t.cur = [s.cur EXCEPT ![c] = [s.cur[c] EXCEPT !.rows = RowsOf(s.conn.set, 0, s.conn.set.rows)]]
    BY <1>1, <2>1
  <2>4. t = [conn |-> t.conn, cur |-> t.cur, ret |-> s.ret, raised |-> s.raised, end |-> s.end, shown |-> s.shown]
    BY <1>1, <2>1
  <2> QED
    BY <1>4, <2>2, <2>3, <2>4 DEF t
<1> QED
  BY <1>2, <1>3, <1>4

LEMMA Takes ==
  ASSUME NEW s \in State, NEW c \in Cursors, Announced(s.conn, s.cur)
  PROVE  LET t == _do_get_result(s, c)
             a == t.cur[c] IN
         /\ t \in State /\ t.ret = s.ret /\ t.raised = s.raised /\ t.end = s.end /\ t.shown = s.shown
         /\ Rest(t.conn, t.cur)
         /\ t.conn = [s.conn EXCEPT !.status = t.conn.status]
         /\ \A d \in Cursors \ {c} : t.cur[d] = s.cur[d]
         /\ a.state = s.cur[c].state /\ a.stream = s.cur[c].stream /\ a.executed = s.cur[c].executed
         /\ a.stole = s.cur[c].stole /\ a.set = s.conn.set /\ a.warnings = s.conn.set.warn
         /\ a.rows # <<>> \/ a.reading => s.conn.set.kind = "rows"
         /\ t.conn.status = "ready" \/ a.stream
         /\ At(a)
<1> DEFINE t == _do_get_result(s, c)
           g == _get_result(s, c)
           get == s.conn.status = "get"
           set == s.conn.set
           b == Taken(set, s.cur[c], get)
           a == [b EXCEPT !.set = set, !.rownumber = 0, !.warnings = set.warn,
                          !.from = 0, !.got = <<>>, !.skipped = FALSE]
<1>1. s.conn \in ConnType /\ s.cur \in CursType /\ s.cur[c] \in CurType
  BY StateFields DEF CursType
<1>2. /\ s.conn.status \in {"ready", "get"} /\ set \in SetType /\ s.conn.read = 0
      /\ \A d \in Cursors : ~s.cur[d].reading /\ Rows(s.cur[d])
      /\ Later(s.conn) /\ Database(s.conn) /\ (set.kind = "rows" <=> get)
  BY DEF Announced
<1>3. /\ g.conn = [s.conn EXCEPT !.status = IF ~get THEN @ ELSE IF s.cur[c].stream THEN "use" ELSE "ready"]
      /\ g.cur = [s.cur EXCEPT ![c] = b]
      /\ g = [conn |-> g.conn, cur |-> g.cur, ret |-> s.ret, raised |-> s.raised, end |-> s.end, shown |-> s.shown]
  BY GetFields
<1>4. t = [[g EXCEPT !.cur[c].set = set, !.cur[c].rownumber = 0, !.cur[c].warnings = set.warn]
           EXCEPT !.cur[c].from = 0, !.cur[c].got = <<>>, !.cur[c].skipped = FALSE]
  BY DEF _do_get_result, From
<1>5. set.rows \in Nat /\ set.warn \in BOOLEAN
  BY <1>2 DEF SetType
<1>6. RowsOf(set, 0, set.rows) \in Seq(Triples) /\ Len(RowsOf(set, 0, set.rows)) = set.rows
  <2>1. set \in SetType /\ 0 \in Nat /\ set.rows \in Nat
    BY <1>2, <1>5
  <2> HIDE DEF set
  <2> QED
    BY <2>1, RowsType, Zenon
<1>7. /\ b.state = s.cur[c].state /\ b.stream = s.cur[c].stream /\ b.executed = s.cur[c].executed
      /\ b.stole = s.cur[c].stole
      /\ b.reading = (get /\ s.cur[c].stream)
      /\ b.rows = (IF get /\ ~s.cur[c].stream THEN RowsOf(set, 0, set.rows) ELSE <<>>)
  <2>1. s.cur[c].stream => s.cur[c].rows = <<>>
    BY <1>2 DEF Rows
  <2> QED
    BY <1>1, <1>2, <2>1 DEF Taken, CurType
<1>8. b \in CurType
  <2>1. b = [s.cur[c] EXCEPT !.reading = b.reading, !.rows = b.rows]
    BY <1>1 DEF Taken, CurType
  <2> HIDE DEF b, set
  <2>2. b.reading \in BOOLEAN
    BY <1>7, Zenon
  <2>3. b.rows \in Seq(Triples)
    <3>1. <<>> \in Seq(Triples)
      OBVIOUS
    <3> QED
      BY <1>6, <1>7, <3>1, Zenon
  <2> QED
    BY <1>1, <2>1, <2>2, <2>3 DEF CurType
<1> HIDE DEF b, g, t, set, get
<1>9. a \in CurType
  <2>1. <<>> \in Seq(Triples)
    OBVIOUS
  <2> QED
    BY <1>2, <1>5, <1>8, <2>1 DEF CurType
<1>10. /\ a.state = b.state /\ a.stream = b.stream /\ a.executed = b.executed /\ a.stole = b.stole
       /\ a.reading = b.reading /\ a.rows = b.rows /\ a.set = set /\ a.rownumber = 0 /\ a.warnings = set.warn
       /\ a.from = 0 /\ a.got = <<>> /\ ~a.skipped
  BY <1>8 DEF CurType
<1> HIDE DEF a
<1>11. t.cur = [s.cur EXCEPT ![c] = a]
  BY <1>1, <1>3, <1>4, <1>8, ZenonT(40) DEF a, CursType
<1>12. t.conn = g.conn /\ t.ret = s.ret /\ t.raised = s.raised /\ t.end = s.end /\ t.shown = s.shown
  BY <1>3, <1>4
<1>13. t = [conn |-> t.conn, cur |-> t.cur, ret |-> t.ret, raised |-> t.raised, end |-> t.end, shown |-> t.shown]
  BY <1>3, <1>4, <1>12
<1>14. t.cur \in CursType /\ t.cur[c] = a /\ \A d \in Cursors \ {c} : t.cur[d] = s.cur[d]
  BY <1>1, <1>9, <1>11, NewCursor
<1>15. /\ t.conn.status = (IF ~get THEN "ready" ELSE IF s.cur[c].stream THEN "use" ELSE "ready")
       /\ t.conn = [s.conn EXCEPT !.status = t.conn.status]
       /\ t.conn \in ConnType
  <2> DEFINE status == IF ~get THEN "ready" ELSE IF s.cur[c].stream THEN "use" ELSE "ready"
  <2>1. status \in {"ready", "get", "use"}
    OBVIOUS
  <2>2. t.conn = [s.conn EXCEPT !.status = status]
    BY <1>1, <1>2, <1>3, <1>12 DEF ConnType, get
  <2> HIDE DEF status
  <2>3. t.conn.status = status /\ t.conn \in ConnType
    BY <1>1, <2>1, <2>2 DEF ConnType
  <2> QED
    BY <2>2, <2>3 DEF status
<1>16. /\ t.conn.set = set /\ t.conn.read = 0 /\ t.conn.more = s.conn.more /\ t.conn.diag = s.conn.diag
       /\ SameData(s.conn, t.conn)
  BY <1>1, <1>2, <1>15 DEF ConnType, SameData, set
<1>17. t \in State
  BY <1>12, <1>13, <1>14, <1>15, InState, StateFields
<1>18. Wire(t.conn, t.cur)
  <2>1. \A d \in Cursors : t.cur[d].reading => d = c /\ get /\ s.cur[c].stream
    BY <1>2, <1>7, <1>10, <1>14
  <2>2. t.conn.status = "use" => get /\ s.cur[c].stream
    BY <1>15
  <2>3. get /\ s.cur[c].stream => t.cur[c].reading /\ t.conn.status = "use" /\ t.cur[c].stream
    BY <1>7, <1>10, <1>14, <1>15
  <2>4. t.cur[c].set = set /\ t.cur[c].rownumber = 0
    BY <1>10, <1>14
  <2> QED
    BY <1>2, <1>5, <1>15, <1>16, <2>1, <2>2, <2>3, <2>4 DEF Wire
<1>19. Rows(a)
  <2>1. a.stream => a.rows = <<>>
    BY <1>7, <1>10
  <2>2. ~a.stream => ~a.reading
    BY <1>7, <1>10
  <2>3. a.rows # <<>> => a.rows = RowsOf(set, 0, set.rows)
    BY <1>7, <1>10
  <2>4. Len(a.rows) \in Nat
    BY <1>9, LenProperties DEF CurType
  <2>5. Full(a)
    <3>1. Len(<<>>) = 0
      OBVIOUS
    <3>2. CASE get
      BY <1>2, <1>5, <1>6, <1>7, <1>10, <3>2 DEF Full, RowsIn
    <3>3. CASE ~get
      BY <1>2, <1>5, <1>7, <1>10, <3>1, <3>3 DEF Full, RowsIn
    <3> QED
      BY <3>2, <3>3
  <2>6. Told(a)
    <3>1. Len(<<>>) = 0
      OBVIOUS
    <3> QED
      BY <1>10, <3>1, NoRows DEF Told
  <2> QED
    BY <1>2, <1>5, <1>10, <2>1, <2>2, <2>3, <2>4, <2>5, <2>6 DEF Rows
<1>20. Rest(t.conn, t.cur)
  <2>1. Database(t.conn)
    BY <1>2, <1>16, DataKept
  <2>2. Later(t.conn)
    BY <1>2, <1>16 DEF Later
  <2>3. \A d \in Cursors : Rows(t.cur[d])
    BY <1>2, <1>14, <1>19
  <2> QED
    BY <1>18, <2>1, <2>2, <2>3 DEF Rest
<1>21. a.rows # <<>> \/ a.reading => set.kind = "rows"
  BY <1>2, <1>7, <1>10
<1>22. t.conn.status = "ready" \/ a.stream
  BY <1>7, <1>10, <1>15
<1>23. At(a)
  <2>1. Len(<<>>) = 0
    OBVIOUS
  <2> QED
    BY <1>10, <2>1 DEF At
<1> QED
  BY <1>7, <1>10, <1>12, <1>14, <1>15, <1>17, <1>20, <1>21, <1>22, <1>23 DEF set, t

-----------------------------------------------------------------------------
(* Warnings, fetches and scrolls                                           *)

LEMMA Warned ==
  ASSUME NEW s \in State, NEW c \in Cursors, ~s.raised
  PROVE  LET t == _warning_check(s, c) IN
         /\ t \in State /\ t.conn = s.conn /\ t.cur = s.cur /\ t.ret = s.ret /\ t.end = s.end
         /\ t.raised => s.cur[c].warnings /\ (s.cur[c].state = "closed" \/ ~Idle(s.conn))
         /\ ~t.raised /\ s.cur[c].warnings => t.shown = s.conn.diag /\ Idle(s.conn)
<1> DEFINE t == _warning_check(s, c)
<1>1. CASE ~s.cur[c].warnings
  BY <1>1 DEF _warning_check
<1>2. CASE s.cur[c].warnings /\ s.cur[c].state = "closed"
  <2>1. t = Raise(s)
    <3>1. _get_db(s, c) = Raise(s)
      BY <1>2 DEF _get_db
    <3>2. Raise(s).raised
      BY Raised
    <3> QED
      BY <1>2, <3>1, <3>2 DEF _warning_check, Then
  <2> QED
    BY <1>2, <2>1, Raised
<1>3. CASE s.cur[c].warnings /\ s.cur[c].state # "closed"
  <2>1. t = show_warnings(s)
    BY <1>3 DEF _warning_check, Then, _get_db
  <2>2. CASE ~Idle(s.conn)
    <3>1. t = Raise(s)
      BY <2>1, <2>2 DEF show_warnings
    <3> QED
      BY <1>3, <2>2, <3>1, Raised
  <2>3. CASE Idle(s.conn)
    <3>1. t = [s EXCEPT !.shown = s.conn.diag]
      BY <2>1, <2>3 DEF show_warnings
    <3>2. s.conn.diag \in Pairs \cup {None}
      BY StateFields DEF ConnType
    <3>3. t \in State
      BY <3>1, <3>2 DEF State
    <3>4. t.conn = s.conn /\ t.cur = s.cur /\ t.ret = s.ret /\ t.end = s.end /\ ~t.raised /\ t.shown = s.conn.diag
      BY <3>1 DEF State
    <3> QED
      BY <2>3, <3>3, <3>4
  <2> QED
    BY <2>2, <2>3
<1> QED
  BY <1>1, <1>2, <1>3

\* Attributes of a cursor that its rows do not depend on.
LEMMA Relabels ==
  ASSUME NEW s \in State, NEW c \in Cursors, Rest(s.conn, s.cur), NEW b \in CurType,
         b.stream = s.cur[c].stream, b.reading = s.cur[c].reading, b.set = s.cur[c].set,
         b.rows = s.cur[c].rows, b.rownumber = s.cur[c].rownumber, Told(s.cur[c]) => Told(b)
  PROVE  LET t == [s EXCEPT !.cur = [s.cur EXCEPT ![c] = b]] IN
         /\ t \in State /\ t.conn = s.conn /\ t.cur[c] = b /\ \A d \in Cursors \ {c} : t.cur[d] = s.cur[d]
         /\ t.ret = s.ret /\ t.raised = s.raised /\ t.end = s.end /\ t.shown = s.shown
         /\ Rest(t.conn, t.cur)
<1> DEFINE t == [s EXCEPT !.cur = [s.cur EXCEPT ![c] = b]]
<1>1. s.conn \in ConnType /\ s.cur \in CursType
  BY StateFields
<1>2. /\ t.conn = s.conn /\ t.ret = s.ret /\ t.raised = s.raised /\ t.end = s.end /\ t.shown = s.shown
      /\ t.cur = [s.cur EXCEPT ![c] = b]
      /\ t = [conn |-> t.conn, cur |-> t.cur, ret |-> t.ret, raised |-> t.raised, end |-> t.end, shown |-> t.shown]
  BY DEF State
<1> HIDE DEF t
<1>3. t.cur \in CursType /\ t.cur[c] = b /\ \A d \in Cursors \ {c} : t.cur[d] = s.cur[d]
  BY <1>1, <1>2, NewCursor
<1>4. t \in State
  BY <1>1, <1>2, <1>3, InState, StateFields
<1>5. \A d \in Cursors : Rows(t.cur[d])
  <2>1. Rows(s.cur[c]) => Rows(b)
    BY DEF Rows, Full
  <2> QED
    BY <1>3, <2>1 DEF Rest
<1>6. Wire(t.conn, t.cur)
  <2>1. \A d \in Cursors : /\ t.cur[d].reading = s.cur[d].reading /\ t.cur[d].stream = s.cur[d].stream
                           /\ t.cur[d].set = s.cur[d].set /\ t.cur[d].rownumber = s.cur[d].rownumber
    BY <1>3
  <2> QED
    BY <1>2, <2>1 DEF Rest, Wire
<1>7. Rest(t.conn, t.cur)
  BY <1>2, <1>5, <1>6 DEF Rest
<1> QED
  BY <1>2, <1>3, <1>4, <1>7 DEF t

\* What is returned are rows of the cursor's set, up to its position.
Handed(ret, a) ==
  ret # <<>> => /\ a.set \in SetType /\ Len(ret) <= a.rownumber
                /\ ret = RowsOf(a.set, a.rownumber - Len(ret), Len(ret))
                /\ a.stole \/ a.set.of = a.executed

\* The connection and the cursor when n rows were read, and if the end was.
RowsRead(k, n, over) == [k EXCEPT !.read = k.read + n, !.status = IF over THEN "ready" ELSE @]
Counted(a, n, over)  == [a EXCEPT !.reading = ~over, !.rownumber = @ + n]

\* What StreamFetch leaves before it looks for warnings.
Streamed(s, c, size) ==
  LET t == _fetch_row(s, c, size) IN [t EXCEPT !.cur[c].rownumber = @ + Len(t.ret)]

StreamRead(s, c, n, over) ==
  [s EXCEPT !.ret = RowsOf(s.conn.set, s.conn.read, n), !.conn = RowsRead(s.conn, n, over),
            !.cur = [s.cur EXCEPT ![c] = Counted(s.cur[c], n, over)]]

\* A stream that is read counts what it got.
LEMMA StreamCounts ==
  ASSUME NEW s \in State, NEW c \in Cursors, s.cur[c].reading, NEW size \in Nat,
         s.conn.set \in SetType, s.conn.read <= s.conn.set.rows
  PROVE  \E n \in Nat, over \in BOOLEAN :
           /\ s.conn.read + n <= s.conn.set.rows
           /\ size = 0 \/ n = 0 => over
           /\ over => s.conn.read + n = s.conn.set.rows
           /\ Streamed(s, c, size) = StreamRead(s, c, n, over)
<1> DEFINE left == s.conn.set.rows - s.conn.read
           over == size = 0 \/ size > left
           n == IF over THEN left ELSE size
           t == _fetch_row(s, c, size)
           ret == RowsOf(s.conn.set, s.conn.read, n)
<1>1. s.conn \in ConnType /\ s.cur \in CursType /\ s.cur[c] \in CurType
  BY StateFields DEF CursType
<1>2. s.conn.read \in Nat /\ s.conn.set.rows \in Nat
  BY <1>1 DEF ConnType, SetType
<1>3. /\ left \in Nat /\ n \in Nat /\ s.conn.read + n <= s.conn.set.rows
      /\ size = 0 \/ n = 0 => over
      /\ over => s.conn.read + n = s.conn.set.rows
  BY <1>2
<1>4. over \in BOOLEAN
  OBVIOUS
<1>5. Len(ret) = n
  <2> DEFINE set   == s.conn.set
             first == s.conn.read
  <2>1. set \in SetType /\ first \in Nat /\ n \in Nat
    BY <1>2, <1>3
  <2>2. ret = RowsOf(set, first, n)
    OBVIOUS
  <2> HIDE DEF set, first, n, ret
  <2>3. Len(RowsOf(set, first, n)) = n
    BY <2>1, RowsType, Zenon
  <2> QED
    BY <2>2, <2>3
<1>6. s = [conn |-> s.conn, cur |-> s.cur, ret |-> s.ret, raised |-> s.raised, end |-> s.end, shown |-> s.shown]
  BY DEF State
<1>7. t = [s EXCEPT !.ret = ret, !.conn.read = @ + n, !.conn.status = IF over THEN "ready" ELSE @, !.cur[c].reading = ~over]
  BY DEF _fetch_row
<1> HIDE DEF left, over, n, ret, t
<1>8. t = [s EXCEPT !.ret = ret, !.conn = [s.conn EXCEPT !.read = s.conn.read + n, !.status = IF over THEN "ready" ELSE @],
                    !.cur = [s.cur EXCEPT ![c] = [s.cur[c] EXCEPT !.reading = ~over]]]
  BY <1>1, <1>6, <1>7 DEF ConnType, CursType, CurType
<1>9. t.ret = ret /\ t.cur = [s.cur EXCEPT ![c] = [s.cur[c] EXCEPT !.reading = ~over]]
  BY <1>6, <1>8
<1>10. [t EXCEPT !.cur[c].rownumber = @ + Len(t.ret)]
         = [s EXCEPT !.ret = ret,
                     !.conn = [s.conn EXCEPT !.read = s.conn.read + n, !.status = IF over THEN "ready" ELSE @],
                     !.cur = [s.cur EXCEPT ![c] = [s.cur[c] EXCEPT !.reading = ~over, !.rownumber = @ + n]]]
  <2> DEFINE b == [s.cur[c] EXCEPT !.reading = ~over]
             d == [s.cur[c] EXCEPT !.reading = ~over, !.rownumber = @ + n]
             k == [s.conn EXCEPT !.read = s.conn.read + n, !.status = IF over THEN "ready" ELSE @]
  <2>1. [b EXCEPT !.rownumber = @ + n] = d
    BY <1>1 DEF CurType
  <2>2. t.cur = [s.cur EXCEPT ![c] = b] /\ t = [s EXCEPT !.ret = ret, !.conn = k, !.cur = [s.cur EXCEPT ![c] = b]]
    BY <1>8, <1>9
  <2> HIDE DEF b, d, k
  <2>3. t.cur[c] = b /\ [t.cur EXCEPT ![c] = d] = [s.cur EXCEPT ![c] = d]
    BY <1>1, <2>2 DEF CursType
  <2>4. [t EXCEPT !.cur = [t.cur EXCEPT ![c] = d]] = [s EXCEPT !.ret = ret, !.conn = k, !.cur = [s.cur EXCEPT ![c] = d]]
    BY <1>6, <2>2, <2>3
  <2>5. [t EXCEPT !.cur[c].rownumber = @ + Len(t.ret)] = [t EXCEPT !.cur = [t.cur EXCEPT ![c] = d]]
    <3>1. Len(t.ret) = n
      BY <1>5, <1>9
    <3>2. [t EXCEPT !.cur[c].rownumber = @ + n] = [t EXCEPT !.cur = [t.cur EXCEPT ![c] = [t.cur[c] EXCEPT !.rownumber = @ + n]]]
      OBVIOUS
    <3> QED
      BY <2>1, <2>3, <3>1, <3>2
  <2> QED
    BY <2>4, <2>5 DEF d, k
<1> QED
  BY <1>3, <1>4, <1>10 DEF ret, t, RowsRead, Counted, Streamed, StreamRead

\* What a call changes neither of the connection nor of the cursors.
Kept(s, t, c) ==
  /\ t.conn.more = s.conn.more /\ t.conn.set = s.conn.set /\ t.conn.asked = s.conn.asked
  /\ \A d \in Cursors \ {c} : t.cur[d] = s.cur[d]
  /\ t.cur[c].state = s.cur[c].state /\ t.cur[c].stream = s.cur[c].stream
  /\ t.cur[c].executed = s.cur[c].executed /\ t.cur[c].stole = s.cur[c].stole
  /\ t.cur[c].set = s.cur[c].set /\ t.cur[c].warnings = s.cur[c].warnings

\* The position has moved from that of the cursor a to that of b, over the rows
\* ret; at the end it stays.
Moved(a, b, ret, size) ==
  /\ b.from = a.from /\ b.got = a.got /\ b.skipped = a.skipped
  /\ b.rownumber = a.rownumber + Len(ret)
  /\ size = 0 \/ ret = <<>> => AtEnd(b)
  /\ AtEnd(a) => ret = <<>>

\* What a fetch leaves.
Fetches(s, t, c, size) ==
  /\ t \in State /\ t.end = s.end /\ Kept(s, t, c)
  /\ Rest(t.conn, t.cur) /\ Belongs(t.cur[c]) /\ Handed(t.ret, t.cur[c])
  /\ Moved(s.cur[c], t.cur[c], t.ret, size)
  /\ size = 0 => ~t.cur[c].reading
  /\ t.raised => /\ t.cur[c].warnings /\ (t.cur[c].state = "closed" \/ ~Idle(t.conn))
                 /\ size = 0 \/ t.ret = <<>>

LEMMA ReadsStream ==
  ASSUME NEW s \in State, NEW c \in Cursors, ~s.raised, s.ret = <<>>, Rest(s.conn, s.cur),
         s.cur[c].stream, Owned(s.cur[c]), NEW size \in Nat
  PROVE  LET u == Streamed(s, c, size) IN Fetches(s, u, c, size) /\ ~u.raised
<1> DEFINE t == _fetch_row(s, c, size)
           u == Streamed(s, c, size)
           a == s.cur[c]
<1>1. s.conn \in ConnType /\ s.cur \in CursType /\ a \in CurType
  BY StateFields DEF CursType
<1>2. Wire(s.conn, s.cur) /\ (\A d \in Cursors : Rows(s.cur[d])) /\ Later(s.conn) /\ Database(s.conn)
  BY DEF Rest
<1>3. CASE ~a.reading
  <2>1. t = s
    BY <1>3 DEF _fetch_row
  <2>2. u = s
    <3>1. Len(t.ret) = 0
      BY <2>1
    <3>2. [a EXCEPT !.rownumber = @ + 0] = a
      BY <1>1 DEF CurType
    <3>3. s.cur = [s.cur EXCEPT ![c] = a]
      BY <1>1 DEF CursType
    <3>4. s = [s EXCEPT !.cur = s.cur]
      BY DEF State
    <3>5. u = [s EXCEPT !.cur = [s.cur EXCEPT ![c] = [a EXCEPT !.rownumber = @ + 0]]]
      BY <2>1, <3>1 DEF Streamed
    <3> QED
      BY <3>2, <3>3, <3>4, <3>5
  <2>3. Handed(s.ret, a)
    BY DEF Handed
  <2>4. Moved(a, a, s.ret, size)
    <3>1. Len(<<>>) = 0 /\ a.rownumber \in Nat
      BY <1>1 DEF CurType
    <3> QED
      BY <1>3, <3>1 DEF Moved, AtEnd
  <2>5. Fetches(s, s, c, size)
    BY <1>3, <2>3, <2>4 DEF Fetches, Kept, Owned
  <2> QED
    BY <2>2, <2>5
<1>4. CASE a.reading
  <2>1. /\ s.conn.status = "use" /\ s.conn.set \in SetType /\ s.conn.read <= s.conn.set.rows
        /\ a.set = s.conn.set /\ a.rownumber = s.conn.read /\ \A d \in Cursors : s.cur[d].reading => d = c
    BY <1>2, <1>4 DEF Wire
  <2>2. PICK n \in Nat, over \in BOOLEAN :
           /\ s.conn.read + n <= s.conn.set.rows /\ (size = 0 \/ n = 0 => over)
           /\ over => s.conn.read + n = s.conn.set.rows
           /\ u = StreamRead(s, c, n, over)
    <3>1. s.cur[c].reading /\ s.conn.set \in SetType /\ s.conn.read <= s.conn.set.rows
      BY <1>4, <2>1
    <3> HIDE DEF u, a
    <3> QED
      BY <3>1, StreamCounts DEF u
  <2> DEFINE k == RowsRead(s.conn, n, over)
             b == Counted(s.cur[c], n, over)
             ret == RowsOf(s.conn.set, s.conn.read, n)
  <2>3. s.conn.read \in Nat /\ s.conn.set.rows \in Nat
    BY <1>1, <2>1 DEF ConnType, SetType
  <2>4. /\ k \in ConnType /\ k.read = s.conn.read + n /\ k.status = (IF over THEN "ready" ELSE "use")
        /\ k.more = s.conn.more /\ k.set = s.conn.set /\ k.asked = s.conn.asked /\ k.diag = s.conn.diag
        /\ SameData(s.conn, k)
    <3>1. /\ k.read = s.conn.read + n /\ k.status = (IF over THEN "ready" ELSE "use")
          /\ k.more = s.conn.more /\ k.set = s.conn.set /\ k.asked = s.conn.asked /\ k.diag = s.conn.diag
          /\ SameData(s.conn, k)
      BY <1>1, <2>1 DEF ConnType, SameData, RowsRead
    <3>2. k.read \in Nat /\ k.status \in {"ready", "get", "use"}
      BY <2>3, <3>1
    <3>3. k = [s.conn EXCEPT !.read = k.read, !.status = k.status]
      BY <1>1, <2>1 DEF ConnType, RowsRead
    <3> HIDE DEF k
    <3>4. k \in ConnType
      BY <1>1, <3>2, <3>3 DEF ConnType
    <3> QED
      BY <3>1, <3>4
  <2>5. b \in CurType /\ b.reading = ~over /\ b.rownumber = s.conn.read + n
    <3>1. b.reading = ~over /\ b.rownumber = s.conn.read + n
      BY <1>1, <2>1 DEF CurType, Counted
    <3>2. b.reading \in BOOLEAN /\ b.rownumber \in Nat
      BY <2>3, <3>1
    <3>3. b = [a EXCEPT !.reading = b.reading, !.rownumber = b.rownumber]
      BY <3>1, <2>1, <1>1 DEF CurType, Counted
    <3> HIDE DEF b
    <3> QED
      BY <1>1, <3>1, <3>2, <3>3 DEF CurType
  <2>6. /\ b.state = a.state /\ b.stream = a.stream /\ b.executed = a.executed /\ b.stole = a.stole
        /\ b.set = a.set /\ b.warnings = a.warnings /\ b.rows = a.rows
        /\ b.from = a.from /\ b.got = a.got /\ b.skipped = a.skipped
    BY <1>1 DEF CurType, Counted
  <2>7. ret \in Seq(Triples) /\ Len(ret) = n
    <3>1. s.conn.set \in SetType /\ s.conn.read \in Nat /\ n \in Nat
      BY <2>1, <2>3
    <3> QED
      BY <3>1, RowsType, Zenon
  <2> HIDE DEF k, b, u
  <2>8. u = [s EXCEPT !.ret = ret, !.conn = k, !.cur = [s.cur EXCEPT ![c] = b]]
    BY <2>2 DEF k, b, StreamRead
  <2> HIDE DEF ret
  <2>9. /\ u.conn = k /\ u.ret = ret /\ u.raised = s.raised /\ u.end = s.end /\ u.shown = s.shown
        /\ u.cur = [s.cur EXCEPT ![c] = b]
    BY <2>8 DEF State
  <2>10. u = [conn |-> u.conn, cur |-> u.cur, ret |-> u.ret, raised |-> u.raised, end |-> u.end, shown |-> u.shown]
    BY <2>8 DEF State
  <2>11. u.cur \in CursType /\ u.cur[c] = b /\ \A d \in Cursors \ {c} : u.cur[d] = s.cur[d]
    BY <1>1, <2>5, <2>9, NewCursor
  <2>12. u \in State
    BY <2>4, <2>7, <2>9, <2>10, <2>11, InState, StateFields
  <2>13. Kept(s, u, c)
    BY <2>4, <2>6, <2>9, <2>11 DEF Kept
  <2>14. Wire(u.conn, u.cur)
    <3>1. \A d \in Cursors : u.cur[d].reading => d = c /\ ~over
      BY <2>1, <2>5, <2>11
    <3>2. u.conn.status = "use" => ~over
      BY <2>4, <2>9
    <3>3. ~over => u.cur[c].reading /\ u.conn.status = "use"
      BY <2>4, <2>5, <2>9, <2>11
    <3>4. u.cur[c].stream /\ u.cur[c].set = u.conn.set /\ u.cur[c].rownumber = u.conn.read /\ u.conn.set \in SetType
      BY <2>1, <2>4, <2>5, <2>6, <2>9, <2>11
    <3>5. u.conn.status \in {"ready", "use"} /\ u.conn.read <= u.conn.set.rows
      BY <2>2, <2>4, <2>9
    <3> QED
      BY <3>1, <3>2, <3>3, <3>4, <3>5 DEF Wire
  <2>15. Rows(b)
    <3>1. a.rows = <<>> /\ b.rows = <<>> /\ b.stream
      BY <1>2, <2>6 DEF Rows
    <3>2. b.rownumber <= b.set.rows
      BY <2>1, <2>2, <2>5, <2>6
    <3>3. b.set # None
      BY <2>1, <2>6, SetNotNone
    <3>4. a.set.kind = "rows"
      BY <1>2, <1>4, <2>1 DEF Rows, Full
    <3>5. Full(b)
      BY <2>1, <2>2, <2>5, <2>6, <3>1, <3>4 DEF Full, RowsIn
    <3>6. Told(b)
      BY <1>2, <2>6 DEF Rows, Told
    <3> QED
      BY <3>1, <3>2, <3>3, <3>5, <3>6 DEF Rows
  <2>16. Rest(u.conn, u.cur)
    <3>1. Database(u.conn)
      BY <1>2, <2>4, <2>9, DataKept
    <3>2. Later(u.conn)
      BY <1>2, <2>4, <2>9 DEF Later
    <3>3. \A d \in Cursors : Rows(u.cur[d])
      BY <1>2, <2>11, <2>15
    <3> QED
      BY <2>14, <3>1, <3>2, <3>3 DEF Rest
  <2>17. Belongs(b)
    BY <1>4, <2>6 DEF Owned, Belongs
  <2>18. Handed(ret, b)
    <3>1. b.set = s.conn.set /\ b.rownumber - n = s.conn.read /\ n <= b.rownumber
      BY <2>1, <2>3, <2>5, <2>6
    <3>2. ret = RowsOf(b.set, b.rownumber - Len(ret), Len(ret))
      BY <2>7, <3>1 DEF ret
    <3>3. b.stole \/ b.set.of = b.executed
      BY <1>4, <2>6 DEF Owned, Belongs
    <3> QED
      BY <2>1, <2>7, <3>1, <3>2, <3>3 DEF Handed
  <2>19. Moved(a, b, ret, size)
    <3>1. b.rownumber = a.rownumber + Len(ret)
      BY <2>1, <2>5, <2>7
    <3>2. ret = <<>> => n = 0
      BY <2>7, EmptySeq
    <3>3. size = 0 \/ ret = <<>> => AtEnd(b)
      BY <2>2, <2>5, <2>6, <3>2 DEF AtEnd
    <3>4. ~AtEnd(a)
      BY <1>4 DEF AtEnd
    <3> QED
      BY <2>6, <3>1, <3>3, <3>4 DEF Moved
  <2>20. size = 0 => ~b.reading
    BY <2>2, <2>5
  <2>21. ~u.raised
    BY <2>9
  <2> QED
    BY <2>9, <2>11, <2>12, <2>13, <2>16, <2>17, <2>18, <2>20, <2>21, <2>19 DEF Fetches, u
<1> QED
  BY <1>3, <1>4

LEMMA StreamFetches ==
  ASSUME NEW s \in State, NEW c \in Cursors, ~s.raised, s.ret = <<>>, Rest(s.conn, s.cur),
         s.cur[c].stream, Owned(s.cur[c]), NEW size \in Nat
  PROVE  Fetches(s, StreamFetch(s, c, size), c, size)
<1> DEFINE u == Streamed(s, c, size)
           w == _warning_check(u, c)
<1>1. Fetches(s, u, c, size) /\ ~u.raised
  BY ReadsStream
<1>2. StreamFetch(s, c, size) = IF size = 0 \/ u.ret = <<>> THEN w ELSE u
  <2> DEFINE t == _fetch_row(s, c, size)
  <2>1. u = [t EXCEPT !.cur = u.cur]
    BY DEF _fetch_row, Streamed, State
  <2>2. t = [s EXCEPT !.ret = t.ret, !.conn = t.conn, !.cur = t.cur]
    BY ZenonT(40) DEF _fetch_row, State
  <2> HIDE DEF t, u
  <2>3. u.ret = t.ret
    BY <2>1, <2>2 DEF State
  <2> QED
    BY <2>3 DEF StreamFetch, Streamed, t, u
<1>3. ASSUME size = 0 \/ u.ret = <<>> PROVE Fetches(s, w, c, size)
  <2>1. u \in State
    BY <1>1 DEF Fetches
  <2> HIDE DEF u, w
  <2>2. /\ w \in State /\ w.conn = u.conn /\ w.cur = u.cur /\ w.ret = u.ret /\ w.end = u.end
        /\ w.raised => u.cur[c].warnings /\ (u.cur[c].state = "closed" \/ ~Idle(u.conn))
    BY <1>1, <2>1, Warned DEF w
  <2>3. Kept(s, w, c)
    BY <1>1, <2>2 DEF Fetches, Kept
  <2> QED
    BY <1>1, <1>3, <2>2, <2>3 DEF Fetches
<1> QED
  BY <1>1, <1>2, <1>3

LEMMA StoreFetches ==
  ASSUME NEW s \in State, NEW c \in Cursors, ~s.raised, s.ret = <<>>, Rest(s.conn, s.cur),
         ~s.cur[c].stream, Owned(s.cur[c]), NEW size \in Nat
  PROVE  Fetches(s, StoreFetch(s, c, size), c, size)
<1> DEFINE a == s.cur[c]
           all == Len(a.rows)
           at == a.rownumber
           end == IF size = 0 \/ at + size > all THEN all ELSE at + size
           ret == SubSeq(a.rows, at + 1, end)
           b == [a EXCEPT !.rownumber = end]
           t == StoreFetch(s, c, size)
<1>1. s.conn \in ConnType /\ s.cur \in CursType /\ a \in CurType
  BY StateFields DEF CursType
<1>2. Rows(a)
  BY DEF Rest
<1>3. /\ a.rows \in Seq(Triples) /\ all \in Nat /\ at \in Nat /\ at <= all /\ ~a.reading
      /\ DOMAIN a.rows = 1..all
  <2>1. a.rows \in Seq(Triples) /\ at \in Nat
    BY <1>1 DEF CurType
  <2>2. all \in Nat /\ DOMAIN a.rows = 1..all
    BY <2>1, LenProperties
  <2> QED
    BY <1>2, <2>1, <2>2 DEF Rows
<1>4. /\ end \in Nat /\ at <= end /\ end <= all
      /\ size = 0 \/ end = at => end = all
      /\ at = all => end = at
  BY <1>3
<1>5. ret \in Seq(Triples) /\ Len(ret) = end - at /\ \A i \in 1..(end - at) : ret[i] = a.rows[at + i]
  <2> HIDE DEF end, all, at
  <2>1. at + 1 \in Int /\ end \in Int
    BY <1>3, <1>4
  <2>2. \A i \in (at + 1)..end : a.rows[i] \in Triples
    BY <1>3, <1>4, ElementOfSeq DEF all
  <2>3. /\ SubSeq(a.rows, at + 1, end) \in Seq(Triples)
        /\ Len(SubSeq(a.rows, at + 1, end)) = IF at + 1 <= end THEN end - (at + 1) + 1 ELSE 0
        /\ \A i \in 1..(end - (at + 1) + 1) : SubSeq(a.rows, at + 1, end)[i] = a.rows[at + 1 + i - 1]
    BY <2>1, <2>2, SubSeqProperties
  <2> QED
    BY <1>3, <1>4, <2>3
<1> HIDE DEF ret, end
<1>6. b \in CurType /\ b.rownumber = end /\ b.rows = a.rows /\ b.set = a.set /\ b.reading = a.reading
      /\ b.state = a.state /\ b.stream = a.stream /\ b.executed = a.executed /\ b.stole = a.stole
      /\ b.warnings = a.warnings /\ b.from = a.from /\ b.got = a.got /\ b.skipped = a.skipped
  BY <1>1, <1>4 DEF CurType
<1>7. t = [s EXCEPT !.ret = ret, !.cur = [s.cur EXCEPT ![c] = b]]
  BY DEF StoreFetch, ret, end
<1> HIDE DEF b, t
<1>8. /\ t.conn = s.conn /\ t.ret = ret /\ t.raised = s.raised /\ t.end = s.end /\ t.shown = s.shown
      /\ t.cur = [s.cur EXCEPT ![c] = b]
      /\ t = [conn |-> t.conn, cur |-> t.cur, ret |-> t.ret, raised |-> t.raised, end |-> t.end, shown |-> t.shown]
  BY <1>7 DEF State
<1>9. t.cur \in CursType /\ t.cur[c] = b /\ \A d \in Cursors \ {c} : t.cur[d] = s.cur[d]
  BY <1>1, <1>6, <1>8, NewCursor
<1>10. t \in State
  BY <1>1, <1>5, <1>8, <1>9, InState, StateFields
<1>11. Kept(s, t, c)
  BY <1>6, <1>8, <1>9 DEF Kept
<1>12. Rest(t.conn, t.cur)
  <2>1. \A d \in Cursors : t.cur[d].reading = s.cur[d].reading
    BY <1>6, <1>9
  <2>2. \A d \in Cursors : t.cur[d].reading => t.cur[d] = s.cur[d]
    BY <1>3, <1>6, <1>9
  <2>3. Wire(t.conn, t.cur)
    BY <1>8, <2>1, <2>2 DEF Rest, Wire
  <2>4. Rows(b)
    BY <1>2, <1>3, <1>4, <1>6 DEF Rows, Full, Told
  <2>5. \A d \in Cursors : Rows(t.cur[d])
    BY <1>9, <2>4 DEF Rest
  <2> QED
    BY <1>8, <2>3, <2>5 DEF Rest
<1>13. Belongs(b)
  BY <1>6 DEF Owned, Belongs
<1>14. Handed(ret, b)
  <2> SUFFICES ASSUME ret # <<>> PROVE Handed(ret, b)
    BY DEF Handed
  <2>1. Len(ret) \in Nat \ {0}
    BY <1>5, EmptySeq
  <2>2. a.rows # <<>>
    <3>1. all # 0
      BY <1>3, <1>4, <1>5, <2>1
    <3>2. Len(<<>>) = 0
      OBVIOUS
    <3> QED
      BY <3>1, <3>2
  <2>3. a.set \in SetType /\ a.rows = RowsOf(a.set, 0, a.set.rows) /\ a.set.rows \in Nat
    BY <1>2, <2>2 DEF Rows, SetType
  <2>4. /\ DOMAIN a.rows = 1..a.set.rows
        /\ \A i \in 1..a.set.rows : a.rows[i] = <<a.set.of, a.set.at, 0 + i>>
    <3> DEFINE set == a.set
               n == set.rows
    <3>1. set \in SetType /\ n \in Nat /\ 0 \in Nat
      BY <2>3
    <3>2. a.rows = RowsOf(set, 0, n)
      BY <2>3
    <3> HIDE DEF set, n
    <3>3. /\ DOMAIN RowsOf(set, 0, n) = 1..n
          /\ \A i \in 1..n : RowsOf(set, 0, n)[i] = <<set.of, set.at, 0 + i>>
      BY <3>1, RowsType, Zenon
    <3> QED
      BY <3>2, <3>3 DEF set, n
  <2> DEFINE again == RowsOf(a.set, at, end - at)
  <2>5. /\ again \in Seq(Triples) /\ Len(again) = end - at
        /\ \A i \in 1..(end - at) : again[i] = <<a.set.of, a.set.at, at + i>>
    <3> DEFINE set == a.set
               n   == end - at
    <3>1. set \in SetType /\ n \in Nat /\ at \in Nat
      BY <1>3, <1>4, <2>3
    <3>2. again = RowsOf(set, at, n)
      OBVIOUS
    <3> HIDE DEF set, n, at, again
    <3>3. /\ RowsOf(set, at, n) \in Seq(Triples) /\ Len(RowsOf(set, at, n)) = n
          /\ \A i \in 1..n : RowsOf(set, at, n)[i] = <<set.of, set.at, at + i>>
      BY <3>1, RowsType, Zenon
    <3> QED
      BY <3>2, <3>3 DEF set, n
  <2>6. ASSUME NEW i \in 1..(end - at) PROVE ret[i] = again[i]
    <3>1. at + i \in 1..all /\ 0 + (at + i) = at + i
      BY <1>3, <1>4
    <3>2. a.rows[at + i] = <<a.set.of, a.set.at, at + i>>
      BY <1>3, <2>4, <3>1
    <3> QED
      BY <1>5, <2>5, <3>2
  <2> HIDE DEF again
  <2>7. ret = again
    BY <1>5, <2>5, <2>6, SeqEqual
  <2>8. b.rownumber - Len(ret) = at /\ Len(ret) <= b.rownumber
    BY <1>3, <1>4, <1>5, <1>6
  <2>9. ret = RowsOf(b.set, b.rownumber - Len(ret), Len(ret))
    BY <1>5, <1>6, <2>7, <2>8 DEF again
  <2>10. b.stole \/ b.set.of = b.executed
    BY <1>6, <2>2 DEF Owned, Belongs
  <2> QED
    BY <1>6, <2>3, <2>8, <2>9, <2>10 DEF Handed
<1>15. Moved(a, b, ret, size)
  <2>1. ret = <<>> <=> end = at
    <3>1. ret = <<>> <=> Len(ret) = 0
      BY <1>5, EmptySeq
    <3> QED
      BY <1>3, <1>4, <1>5, <3>1
  <2>2. b.rownumber = a.rownumber + Len(ret)
    BY <1>3, <1>4, <1>5, <1>6
  <2> QED
    BY <1>4, <1>6, <2>1, <2>2 DEF Moved, AtEnd
<1>16. ~t.raised
  BY <1>8
<1> QED
  BY <1>3, <1>6, <1>8, <1>9, <1>10, <1>11, <1>12, <1>13, <1>14, <1>15, <1>16 DEF Fetches, t

LEMMA FetchLeaves ==
  ASSUME NEW s \in State, NEW c \in Cursors, ~s.raised, s.ret = <<>>, Rest(s.conn, s.cur),
         Owned(s.cur[c]), NEW size \in Nat
  PROVE  LET t == fetch(s, c, size) IN
         IF s.cur[c].executed = 0 THEN t = Raise(s) ELSE Fetches(s, t, c, size)
<1>1. CASE s.cur[c].executed = 0
  BY <1>1, Raised DEF fetch, _check_executed, Then
<1>2. CASE s.cur[c].executed # 0
  <2>1. fetch(s, c, size) = IF s.cur[c].stream THEN StreamFetch(s, c, size) ELSE StoreFetch(s, c, size)
    BY <1>2 DEF fetch, _check_executed, Then
  <2> QED
    BY <1>2, <2>1, StreamFetches, StoreFetches
<1> QED
  BY <1>1, <1>2

\* The client has the rows of the set to the last one, or some were thrown away.
Complete(a) == a.skipped \/ a.from + Len(a.got) = RowsIn(a.set)

LEMMA GotAll ==
  ASSUME NEW a, Full(a), AtEnd(a), At(a), a.set \in SetType
  PROVE  Complete(a)
BY DEF Full, AtEnd, At, Complete

\* What a fetch leaves, once the client has the rows or has lost them.
LEMMA HandLeaves ==
  ASSUME NEW s \in State, NEW c \in Cursors, Rest(s.conn, s.cur), Owned(s.cur[c]),
         NEW size \in Nat, NEW u, Fetches(s, u, c, size)
  PROVE  LET t == Hand(u, c, size) IN
         /\ t \in State /\ t.raised = u.raised /\ t.ret = u.ret
         /\ Rest(t.conn, t.cur) /\ Owned(t.cur[c]) /\ Handed(t.ret, t.cur[c])
         /\ (\A d \in Cursors \ {c} : t.cur[d] = s.cur[d]) /\ t.cur[c].state = s.cur[c].state
         /\ s.cur[c].executed # 0 /\ t.ret = <<>> => Complete(t.cur[c])
<1> DEFINE a == s.cur[c]
           b == u.cur[c]
           lost == b.skipped \/ (size = 0 /\ u.ret # <<>>)
           g == IF u.raised THEN [b EXCEPT !.skipped = lost] ELSE [b EXCEPT !.got = @ \o u.ret]
           t == Hand(u, c, size)
           v == [u EXCEPT !.cur = [u.cur EXCEPT ![c] = g]]
<1>1. /\ u \in State /\ Kept(s, u, c) /\ Rest(u.conn, u.cur) /\ Belongs(b) /\ Handed(u.ret, b)
      /\ Moved(a, b, u.ret, size) /\ (u.raised => size = 0 \/ u.ret = <<>>)
  BY DEF Fetches
<1>2. u.cur \in CursType /\ b \in CurType /\ u.ret \in Seq(Triples) /\ u.raised \in BOOLEAN /\ a \in CurType
  BY <1>1, StateFields DEF CursType
<1>3. t = v
  <2>1. CASE u.raised
    BY <1>2, <2>1 DEF Hand, CursType, CurType
  <2>2. CASE ~u.raised
    BY <1>2, <2>2 DEF Hand, CursType, CurType
  <2> QED
    BY <2>1, <2>2
<1>4. b.got \in Seq(Triples) /\ b.skipped \in BOOLEAN /\ b.from \in Nat /\ b.rownumber \in Nat
  BY <1>2 DEF CurType
<1>5. b.got \o u.ret \in Seq(Triples) /\ Len(b.got \o u.ret) = Len(b.got) + Len(u.ret)
  BY <1>2, <1>4, ConcatProperties
<1>6. Len(b.got) \in Nat /\ Len(u.ret) \in Nat
  BY <1>2, <1>4, LenProperties
<1>7. lost \in BOOLEAN
  BY <1>4
<1>8. g.got = (IF u.raised THEN b.got ELSE b.got \o u.ret) /\ g.skipped = (IF u.raised THEN lost ELSE b.skipped)
  BY <1>2 DEF CurType
<1>9. g \in CurType
  <2> HIDE DEF lost
  <2>1. CASE u.raised
    BY <1>2, <1>7, <2>1 DEF CurType
  <2>2. CASE ~u.raised
    BY <1>2, <1>5, <2>2 DEF CurType
  <2> QED
    BY <2>1, <2>2
<1>10. /\ g.state = b.state /\ g.stream = b.stream /\ g.executed = b.executed /\ g.reading = b.reading
       /\ g.set = b.set /\ g.rows = b.rows /\ g.rownumber = b.rownumber /\ g.stole = b.stole
       /\ g.from = b.from
  BY <1>2 DEF CurType
<1>11. /\ b.from = a.from /\ b.got = a.got /\ b.skipped = a.skipped /\ b.rownumber = a.rownumber + Len(u.ret)
       /\ size = 0 \/ u.ret = <<>> => AtEnd(b)
       /\ AtEnd(a) => u.ret = <<>>
  BY <1>1 DEF Moved
<1> HIDE DEF g, v, t, lost
<1>12. Told(b)
  BY <1>1 DEF Rest, Rows
<1>13. a.skipped => u.ret = <<>> /\ AtEnd(b)
  BY <1>11 DEF Owned, At
<1>14. ~a.skipped => b.from + Len(b.got) = b.rownumber - Len(u.ret)
  <2>1. a.rownumber \in Nat
    BY <1>2 DEF CurType
  <2> QED
    BY <1>4, <1>6, <1>11, <2>1, SMTT(20) DEF Owned, At
<1>15. Told(g)
  <2>1. CASE u.raised \/ u.ret = <<>>
    <3>1. g.got = b.got
      BY <1>4, <1>8, <2>1, ConcatEmptySeq
    <3> QED
      BY <1>10, <1>12, <3>1 DEF Told
  <2>2. CASE ~u.raised /\ u.ret # <<>>
    <3> DEFINE set == b.set
               first == b.from
               m == Len(b.got)
               n == Len(u.ret)
    <3>1. set \in SetType /\ u.ret = RowsOf(set, b.rownumber - n, n)
      BY <1>1, <2>2 DEF Handed
    <3>2. first + m = b.rownumber - n
      BY <1>13, <1>14, <2>2
    <3>3. first \in Nat /\ m \in Nat /\ n \in Nat
      BY <1>4, <1>6
    <3>4. b.got = RowsOf(set, first, m)
      BY <1>12 DEF Told
    <3>5. u.ret = RowsOf(set, first + m, n)
      BY <3>1, <3>2
    <3> HIDE DEF set, first, m, n
    <3>6. RowsOf(set, first, m) \o RowsOf(set, first + m, n) = RowsOf(set, first, m + n)
      BY <3>1, <3>3, RowsJoin, Zenon
    <3>7. b.got \o u.ret = RowsOf(set, first, m + n)
      BY <3>4, <3>5, <3>6, Zenon
    <3> QED
      BY <1>5, <1>8, <1>10, <2>2, <3>1, <3>7 DEF Told, set, first, m, n
  <2> QED
    BY <2>1, <2>2
<1>16. At(g)
  <2>1. AtEnd(b) <=> AtEnd(g)
    BY <1>10 DEF AtEnd
  <2>2. CASE u.raised /\ lost
    <3>1. AtEnd(b)
      BY <1>11, <1>13, <2>2 DEF lost
    <3> QED
      BY <1>8, <2>1, <2>2, <3>1 DEF At
  <2>3. CASE u.raised /\ ~lost
    <3>1. ~a.skipped /\ u.ret = <<>>
      BY <1>1, <1>11, <2>3 DEF lost
    <3>2. Len(u.ret) = 0
      BY <3>1
    <3>3. g.from + Len(g.got) = g.rownumber /\ ~g.skipped
      BY <1>4, <1>8, <1>10, <1>14, <2>3, <3>1, <3>2
    <3> QED
      BY <3>3 DEF At
  <2>4. CASE ~u.raised
    <3>1. CASE a.skipped
      BY <1>8, <1>11, <1>13, <2>1, <2>4, <3>1 DEF At
    <3>2. CASE ~a.skipped
      <4> DEFINE first == b.from
                 m     == Len(b.got)
                 n     == Len(u.ret)
                 now   == b.rownumber
      <4>1. first \in Nat /\ m \in Nat /\ n \in Nat /\ now \in Nat /\ first + m = now - n
        BY <1>4, <1>6, <1>14, <3>2
      <4>2. g.from = first /\ Len(g.got) = m + n /\ g.rownumber = now /\ ~g.skipped
        BY <1>5, <1>8, <1>10, <1>11, <2>4, <3>2
      <4> HIDE DEF first, m, n, now
      <4>3. g.from + Len(g.got) = g.rownumber
        BY <4>1, <4>2
      <4> QED
        BY <4>2, <4>3 DEF At
    <3> QED
      BY <3>1, <3>2
  <2> QED
    BY <2>2, <2>3, <2>4
<1>17. /\ v \in State /\ v.conn = u.conn /\ v.cur[c] = g /\ \A d \in Cursors \ {c} : v.cur[d] = u.cur[d]
       /\ v.ret = u.ret /\ v.raised = u.raised /\ Rest(v.conn, v.cur)
  BY <1>1, <1>9, <1>10, <1>15, Relabels, ZenonT(40) DEF v
<1>18. Owned(g) /\ Handed(u.ret, g)
  BY <1>1, <1>10, <1>16 DEF Owned, Belongs, Handed
<1>19. ASSUME a.executed # 0, u.ret = <<>> PROVE Complete(g)
  <2>1. AtEnd(g)
    BY <1>10, <1>11, <1>19 DEF AtEnd
  <2>2. g.executed # 0
    BY <1>1, <1>10, <1>19 DEF Kept
  <2>3. g.set \in SetType
    BY <1>18, <2>2 DEF Owned, Belongs
  <2>4. Full(g)
    BY <1>17 DEF Rest, Rows
  <2> QED
    BY <1>16, <2>1, <2>3, <2>4, GotAll
<1> QED
  BY <1>1, <1>3, <1>10, <1>17, <1>18, <1>19 DEF Kept, t

LEMMA ScrollLeaves ==
  ASSUME NEW s \in State, NEW c \in Cursors, ~s.raised, Rest(s.conn, s.cur),
         Owned(s.cur[c]), ~s.cur[c].stream, NEW r \in Int
  PROVE  LET t == scroll(s, c, r) IN
         /\ t \in State /\ Rest(t.conn, t.cur) /\ Owned(t.cur[c]) /\ t.ret = s.ret /\ Kept(s, t, c)
<1> DEFINE t == scroll(s, c, r)
           a == s.cur[c]
           b == [a EXCEPT !.rownumber = r, !.from = r, !.got = <<>>, !.skipped = FALSE]
<1>1. s.conn \in ConnType /\ s.cur \in CursType /\ a \in CurType
  BY StateFields DEF CursType
<1>2. t = Raise(s) \/ (r \in 0..(Len(a.rows) - 1) /\ t = [s EXCEPT !.cur = [s.cur EXCEPT ![c] = b]])
  <2>1. CASE s.cur[c].executed = 0 \/ r \notin 0..(Len(a.rows) - 1)
    BY <2>1, Raised DEF scroll, _check_executed, Then
  <2>2. CASE s.cur[c].executed # 0 /\ r \in 0..(Len(a.rows) - 1)
    <3>1. t = From([s EXCEPT !.cur[c].rownumber = r], c, r)
      BY <2>2 DEF scroll, _check_executed, Then
    <3> DEFINE m == [a EXCEPT !.rownumber = r]
               x == [s EXCEPT !.cur = [s.cur EXCEPT ![c] = m]]
    <3>2. [s EXCEPT !.cur[c].rownumber = r] = x
      OBVIOUS
    <3>3. b = [m EXCEPT !.from = r, !.got = <<>>, !.skipped = FALSE]
      BY <1>1 DEF CurType
    <3> HIDE DEF m, b, t
    <3>4. x.cur = [s.cur EXCEPT ![c] = m] /\ x.cur[c] = m /\ [x.cur EXCEPT ![c] = b] = [s.cur EXCEPT ![c] = b]
      BY <1>1 DEF State, CursType
    <3>5. [x EXCEPT !.cur = [s.cur EXCEPT ![c] = b]] = [s EXCEPT !.cur = [s.cur EXCEPT ![c] = b]]
      BY DEF State
    <3> HIDE DEF x
    <3>6. From(x, c, r)
            = [x EXCEPT !.cur = [x.cur EXCEPT ![c] = [x.cur[c] EXCEPT !.from = r, !.got = <<>>, !.skipped = FALSE]]]
      BY DEF From
    <3>7. From(x, c, r) = [x EXCEPT !.cur = [x.cur EXCEPT ![c] = b]]
      BY <3>3, <3>4, <3>6
    <3>8. t = From(x, c, r)
      BY <3>1, <3>2
    <3> QED
      BY <2>2, <3>4, <3>5, <3>7, <3>8
  <2> QED
    BY <2>1, <2>2
<1>3. CASE t = Raise(s)
  BY <1>3, Raised DEF Kept
<1>4. CASE r \in 0..(Len(a.rows) - 1) /\ t = [s EXCEPT !.cur = [s.cur EXCEPT ![c] = b]]
  <2>1. Len(a.rows) \in Nat
    BY <1>1, LenProperties DEF CurType
  <2>2. r \in Nat /\ r <= Len(a.rows)
    BY <1>4, <2>1
  <2>3. b \in CurType /\ b.rownumber = r /\ b.rows = a.rows /\ b.set = a.set /\ b.reading = a.reading
        /\ b.state = a.state /\ b.stream = a.stream /\ b.executed = a.executed /\ b.stole = a.stole
        /\ b.warnings = a.warnings /\ b.from = r /\ b.got = <<>> /\ ~b.skipped
    BY <1>1, <2>2, EmptySeq DEF CurType
  <2> HIDE DEF b, t
  <2>4. /\ t.conn = s.conn /\ t.ret = s.ret /\ t.raised = s.raised /\ t.end = s.end /\ t.shown = s.shown
        /\ t.cur = [s.cur EXCEPT ![c] = b]
        /\ t = [conn |-> t.conn, cur |-> t.cur, ret |-> t.ret, raised |-> t.raised, end |-> t.end, shown |-> t.shown]
    BY <1>4 DEF State
  <2>5. t.cur \in CursType /\ t.cur[c] = b /\ \A d \in Cursors \ {c} : t.cur[d] = s.cur[d]
    BY <1>1, <2>3, <2>4, NewCursor
  <2>6. t \in State
    BY <1>1, <2>4, <2>5, InState, StateFields
  <2>7. Kept(s, t, c)
    BY <2>3, <2>4, <2>5 DEF Kept
  <2>8. Rows(a) /\ ~a.reading
    BY DEF Rest, Rows
  <2>9. Rows(b) /\ Owned(b)
    <3>1. Len(<<>>) = 0
      OBVIOUS
    <3>2. Told(b)
      BY <2>3, <3>1, NoRows DEF Told
    <3>3. At(b)
      BY <2>2, <2>3, <3>1 DEF At
    <3> QED
      BY <2>2, <2>3, <2>8, <3>2, <3>3 DEF Rows, Full, Owned, Belongs
  <2>10. \A d \in Cursors : t.cur[d].reading = s.cur[d].reading /\ (t.cur[d].reading => t.cur[d] = s.cur[d])
    BY <2>3, <2>5, <2>8
  <2>11. Wire(t.conn, t.cur)
    BY <2>4, <2>10 DEF Rest, Wire
  <2>12. \A d \in Cursors : Rows(t.cur[d])
    BY <2>5, <2>9 DEF Rest
  <2>13. Rest(t.conn, t.cur)
    BY <2>4, <2>11, <2>12 DEF Rest
  <2> QED
    BY <2>4, <2>5, <2>6, <2>7, <2>9, <2>13 DEF t
<1> QED
  BY <1>2, <1>3, <1>4

-----------------------------------------------------------------------------
(* nextset and close                                                       *)

\* Why close() fails.
Reason(k, u, c) ==
  \/ \E d \in Cursors \ {c} : u[d].reading
  \/ k.set.kind = "error"
  \/ u[c].warnings /\ ~Idle(k)
  \/ u[c].reading /\ u[c].executed = 0

\* The cursor has a set, and its warnings were shown if it is stored.
Shown(t, a) == a.set \in SetType /\ (~a.stream /\ a.set.warn => t.shown = <<a.set.of, a.set.at>>)

\* What every call keeps that c makes.
Others(s, t, c) ==
  /\ \A d \in Cursors \ {c} : t.cur[d] = s.cur[d]
  /\ t.cur[c].state = s.cur[c].state /\ t.cur[c].stream = s.cur[c].stream

Nexts(s, t, c) ==
  /\ t \in State /\ Rest(t.conn, t.cur) /\ Owned(t.cur[c]) /\ t.ret = <<>>
  /\ Others(s, t, c) /\ t.conn.asked = s.conn.asked
  /\ t.raised /\ s.cur[c].state # "closed" => Reason(t.conn, t.cur, c)
  /\ ~t.raised /\ t.end => Idle(t.conn)
  /\ ~t.raised /\ ~t.end => Len(t.conn.more) = Len(s.conn.more) - 1 /\ Shown(t, t.cur[c])

\* The rest of the current set is thrown away.
LEMMA Skips ==
  ASSUME NEW s \in State, NEW c \in Cursors, ~s.raised, s.ret = <<>>, Rest(s.conn, s.cur), Owned(s.cur[c])
  PROVE  LET t == Skip(s, c) IN
         /\ t \in State /\ t.end = s.end /\ t.ret = <<>> /\ Kept(s, t, c)
         /\ Rest(t.conn, t.cur) /\ Owned(t.cur[c])
         /\ t.cur[c].reading => t.cur[c].executed = 0
         /\ t.raised => t.cur[c].warnings /\ (t.cur[c].state = "closed" \/ ~Idle(t.conn))
<1>1. CASE s.cur[c].executed = 0
  BY <1>1 DEF Skip, Kept
<1>2. CASE s.cur[c].executed # 0
  <2> DEFINE g == fetch(s, c, 0)
             a == s.cur[c]
             b == g.cur[c]
             lost == b.skipped \/ g.ret # <<>>
             d == [b EXCEPT !.skipped = lost]
             r == [g EXCEPT !.cur = [g.cur EXCEPT ![c] = d]]
             t == [r EXCEPT !.ret = <<>>, !.shown = None]
  <2>1. Fetches(s, g, c, 0)
    BY <1>2, FetchLeaves
  <2>2. /\ g \in State /\ Rest(g.conn, g.cur) /\ g.end = s.end /\ Kept(s, g, c) /\ Belongs(b) /\ ~b.reading
        /\ Moved(a, b, g.ret, 0)
        /\ g.raised => b.warnings /\ (b.state = "closed" \/ ~Idle(g.conn))
    BY <2>1 DEF Fetches
  <2>3. Skip(s, c) = [g EXCEPT !.ret = <<>>, !.shown = None, !.cur[c].skipped = @ \/ g.ret # <<>>]
    BY <1>2 DEF Skip
  <2> HIDE DEF g
  <2>4. g.cur \in CursType /\ b \in CurType /\ a \in CurType /\ b.skipped \in BOOLEAN
    BY <2>2, StateFields DEF CursType, CurType
  <2>5. Skip(s, c) = t
    BY <2>2, <2>3, <2>4 DEF State, CursType, CurType
  <2>6. d \in CurType /\ d.skipped = lost /\ d.state = b.state /\ d.stream = b.stream /\ d.executed = b.executed
        /\ d.reading = b.reading /\ d.set = b.set /\ d.rows = b.rows /\ d.rownumber = b.rownumber
        /\ d.warnings = b.warnings /\ d.stole = b.stole /\ d.from = b.from /\ d.got = b.got
    BY <2>4 DEF CurType
  <2> HIDE DEF d, lost
  <2>7. Told(b) => Told(d)
    BY <2>6 DEF Told
  <2>8. /\ r \in State /\ r.conn = g.conn /\ r.cur[c] = d /\ (\A e \in Cursors \ {c} : r.cur[e] = g.cur[e])
        /\ r.end = g.end /\ r.raised = g.raised /\ Rest(r.conn, r.cur)
    BY <2>2, <2>6, <2>7, Relabels
  <2> HIDE DEF r
  <2>9. /\ t \in State /\ t.conn = r.conn /\ t.cur = r.cur /\ t.ret = <<>> /\ t.end = r.end /\ t.raised = r.raised
    BY <2>8, EmptySeq DEF State
  <2> HIDE DEF t
  <2>10. Kept(s, t, c)
    BY <2>2, <2>6, <2>8, <2>9 DEF Kept
  <2>11. At(d)
    <3>1. AtEnd(b) /\ b.from = a.from /\ b.got = a.got /\ b.skipped = a.skipped /\ b.rownumber = a.rownumber + Len(g.ret)
      BY <2>2 DEF Moved
    <3>2. CASE lost
      BY <2>6, <3>1, <3>2 DEF At, AtEnd
    <3>3. CASE ~lost
      <4>1. ~a.skipped /\ Len(g.ret) = 0 /\ a.rownumber \in Nat
        BY <2>4, <3>1, <3>3 DEF lost, CurType
      <4> QED
        BY <2>6, <3>1, <3>3, <4>1 DEF At, Owned
    <3> QED
      BY <3>2, <3>3
  <2>12. Owned(d)
    BY <2>2, <2>6, <2>11 DEF Owned, Belongs
  <2> QED
    BY <2>2, <2>5, <2>6, <2>8, <2>9, <2>10, <2>12
<1> QED
  BY <1>1, <1>2

\* A set that the cursor takes from the wire, and whose it is.
Next1(n, c) == [_do_get_result(n, c) EXCEPT !.cur[c].stole = @ \/ n.conn.set.of # n.cur[c].executed]

LEMMA TakesOver ==
  ASSUME NEW n \in State, NEW c \in Cursors, Announced(n.conn, n.cur), ~n.raised, ~n.end
  PROVE  LET t == Next1(n, c)
             a == t.cur[c] IN
         /\ t \in State /\ t.ret = n.ret /\ ~t.raised /\ ~t.end
         /\ Rest(t.conn, t.cur) /\ Owned(a) /\ Others(n, t, c)
         /\ t.conn.more = n.conn.more /\ t.conn.asked = n.conn.asked
         /\ t.conn.diag = n.conn.diag
         /\ a.set = n.conn.set /\ a.warnings = n.conn.set.warn
<1> DEFINE v == _do_get_result(n, c)
           x == n.conn.set.of # n.cur[c].executed
           a == [v.cur[c] EXCEPT !.stole = @ \/ x]
           t == Next1(n, c)
<1>1. /\ v \in State /\ v.ret = n.ret /\ v.raised = n.raised /\ v.end = n.end /\ v.shown = n.shown
      /\ Rest(v.conn, v.cur)
      /\ v.conn = [n.conn EXCEPT !.status = v.conn.status]
      /\ \A d \in Cursors \ {c} : v.cur[d] = n.cur[d]
      /\ v.cur[c].state = n.cur[c].state /\ v.cur[c].stream = n.cur[c].stream
      /\ v.cur[c].executed = n.cur[c].executed
      /\ v.cur[c].stole = n.cur[c].stole /\ v.cur[c].set = n.conn.set
      /\ v.cur[c].warnings = n.conn.set.warn /\ At(v.cur[c])
  BY Takes
<1>2. t = [v EXCEPT !.cur = [v.cur EXCEPT ![c] = a]]
  BY DEF Next1
<1> HIDE DEF v
<1>3. v.conn \in ConnType /\ v.cur \in CursType /\ v.cur[c] \in CurType /\ n.conn \in ConnType
  BY <1>1, StateFields DEF CursType
<1>4. (v.cur[c].stole \/ x) \in BOOLEAN
  OBVIOUS
<1>5. a.stole = (v.cur[c].stole \/ x)
  BY <1>3 DEF CurType
<1>6. a \in CurType
  BY <1>3, <1>4 DEF CurType
<1>7. /\ a.state = v.cur[c].state /\ a.stream = v.cur[c].stream /\ a.executed = v.cur[c].executed
      /\ a.set = v.cur[c].set /\ a.warnings = v.cur[c].warnings /\ a.rows = v.cur[c].rows
      /\ a.rownumber = v.cur[c].rownumber /\ a.reading = v.cur[c].reading
      /\ a.from = v.cur[c].from /\ a.got = v.cur[c].got /\ a.skipped = v.cur[c].skipped
  BY <1>3 DEF CurType
<1> HIDE DEF a, t
<1>8. /\ t.conn = v.conn /\ t.ret = v.ret /\ t.raised = v.raised /\ t.end = v.end /\ t.shown = v.shown
      /\ t.cur = [v.cur EXCEPT ![c] = a]
      /\ t = [conn |-> t.conn, cur |-> t.cur, ret |-> t.ret, raised |-> t.raised, end |-> t.end, shown |-> t.shown]
  BY <1>1, <1>2 DEF State
<1>9. t.cur \in CursType /\ t.cur[c] = a /\ \A d \in Cursors \ {c} : t.cur[d] = v.cur[d]
  BY <1>3, <1>6, <1>8, NewCursor
<1>10. t \in State
  BY <1>1, <1>3, <1>8, <1>9, InState, StateFields
<1>11. Owned(a)
  <2>1. n.conn.set \in SetType
    BY DEF Announced
  <2> QED
    BY <1>1, <1>5, <1>7, <2>1, ZenonT(40) DEF Owned, Belongs, At, AtEnd
<1>12. Rest(t.conn, t.cur)
  <2>1. Rows(a)
    BY <1>1, <1>7 DEF Rest, Rows, Full, Told
  <2>2. \A d \in Cursors : Rows(t.cur[d])
    BY <1>1, <1>9, <2>1 DEF Rest
  <2>3. \A d \in Cursors : /\ t.cur[d].reading = v.cur[d].reading /\ t.cur[d].stream = v.cur[d].stream
                           /\ t.cur[d].set = v.cur[d].set /\ t.cur[d].rownumber = v.cur[d].rownumber
    BY <1>7, <1>9
  <2>4. Wire(t.conn, t.cur)
    BY <1>1, <1>8, <2>3 DEF Rest, Wire
  <2> QED
    BY <1>1, <1>8, <2>2, <2>4 DEF Rest
<1>13. t.conn.more = n.conn.more /\ t.conn.asked = n.conn.asked /\ t.conn.diag = n.conn.diag
  BY <1>1, <1>3, <1>8 DEF ConnType
<1>14. Others(n, t, c)
  BY <1>1, <1>7, <1>9 DEF Others
<1> QED
  BY <1>1, <1>7, <1>8, <1>9, <1>10, <1>11, <1>12, <1>13, <1>14 DEF t

LEMMA NextSetLeaves ==
  ASSUME NEW s \in State, NEW c \in Cursors, ~s.raised, ~s.end, s.ret = <<>>,
         Rest(s.conn, s.cur), Owned(s.cur[c])
  PROVE  Nexts(s, nextset(s, c), c)
<1> DEFINE f == Skip(s, c)
           t == nextset(s, c)
           n == next_result(f)
           w == Next1(n, c)
           z == _warning_check(w, c)
<1>1. /\ f \in State /\ f.end = s.end /\ f.ret = <<>> /\ Kept(s, f, c)
      /\ Rest(f.conn, f.cur) /\ Owned(f.cur[c])
      /\ f.cur[c].reading => f.cur[c].executed = 0
      /\ f.raised => f.cur[c].warnings /\ (f.cur[c].state = "closed" \/ ~Idle(f.conn))
  BY Skips
<1>2. t = Then(Advance(f, c), LAMBDA x : IF x.end THEN x ELSE _warning_check(x, c))
  BY DEF nextset
<1> HIDE DEF f, t
<1>3. CASE f.raised
  <2>1. Advance(f, c) = f
    BY <1>3 DEF Advance, Then
  <2>2. t = f
    BY <1>2, <1>3, <2>1 DEF Then
  <2>3. Others(s, f, c) /\ f.conn.asked = s.conn.asked
    BY <1>1 DEF Kept, Others
  <2>4. s.cur[c].state # "closed" => Reason(f.conn, f.cur, c)
    BY <1>1, <1>3 DEF Kept, Reason
  <2> QED
    BY <1>1, <1>3, <2>2, <2>3, <2>4 DEF Nexts, t
<1>4. CASE ~f.raised /\ f.cur[c].state = "closed"
  <2>1. Raise(f).raised /\ Raise(f) \in State /\ Raise(f).conn = f.conn /\ Raise(f).cur = f.cur /\ Raise(f).ret = f.ret
    BY <1>1, Raised
  <2>2. Advance(f, c) = Raise(f)
    BY <1>4, <2>1 DEF Advance, Then, _get_db
  <2>3. t = Raise(f)
    BY <1>2, <2>1, <2>2 DEF Then
  <2>4. Others(s, Raise(f), c) /\ f.conn.asked = s.conn.asked /\ s.cur[c].state = "closed"
    BY <1>1, <1>4, <2>1 DEF Kept, Others
  <2> QED
    BY <1>1, <1>4, <2>1, <2>3, <2>4 DEF Nexts, t
<1>5. CASE ~f.raised /\ f.cur[c].state # "closed"
  <2>1. Advance(f, c) = IF n.raised \/ n.end THEN n ELSE w
    BY <1>5 DEF Advance, Then, _get_db, Next1
  <2> HIDE DEF n, w
  <2>2. /\ n \in State /\ n.cur = f.cur /\ n.ret = f.ret /\ n.shown = f.shown
        /\ n.conn.asked = f.conn.asked
        /\ n.raised => /\ Rest(n.conn, n.cur)
                       /\ (f.conn.status # "ready" /\ n.conn = f.conn) \/ n.conn.set.kind = "error"
        /\ ~n.raised /\ n.end  => n.conn = f.conn /\ Idle(n.conn)
        /\ ~n.raised /\ ~n.end => Announced(n.conn, n.cur) /\ Len(n.conn.more) = Len(f.conn.more) - 1
    BY <1>1, <1>5, NextSets DEF n
  <2>3. Others(s, n, c) /\ n.conn.asked = s.conn.asked
    BY <1>1, <2>2 DEF Kept, Others
  <2>4. CASE n.raised
    <3>1. t = n
      BY <1>2, <2>1, <2>4 DEF Then
    <3>2. Reason(n.conn, n.cur, c)
      <4>1. CASE n.conn.set.kind = "error"
        BY <4>1 DEF Reason
      <4>2. CASE f.conn.status # "ready" /\ n.conn = f.conn
        <5>1. PICK d \in Cursors : f.cur[d].reading
          BY <1>1, <4>2 DEF Rest, Wire
        <5> QED
          BY <1>1, <2>2, <5>1 DEF Reason
      <4> QED
        BY <2>2, <2>4, <4>1, <4>2
    <3> QED
      BY <1>1, <2>2, <2>3, <2>4, <3>1, <3>2 DEF Nexts, t
  <2>5. CASE ~n.raised /\ n.end
    <3>1. t = n
      BY <1>2, <2>1, <2>5 DEF Then
    <3> QED
      BY <1>1, <2>2, <2>3, <2>5, <3>1 DEF Nexts, t
  <2>6. CASE ~n.raised /\ ~n.end
    <3>1. /\ w \in State /\ w.ret = n.ret /\ ~w.raised /\ ~w.end
          /\ Rest(w.conn, w.cur) /\ Owned(w.cur[c]) /\ Others(n, w, c)
          /\ w.conn.more = n.conn.more /\ w.conn.asked = n.conn.asked
          /\ w.conn.diag = n.conn.diag
          /\ w.cur[c].set = n.conn.set /\ w.cur[c].warnings = n.conn.set.warn
      BY <2>2, <2>6, TakesOver DEF w
    <3>2. t = z
      BY <1>2, <2>1, <2>6, <3>1 DEF Then
    <3> HIDE DEF z
    <3>3. /\ z \in State /\ z.conn = w.conn /\ z.cur = w.cur /\ z.ret = w.ret /\ z.end = w.end
          /\ z.raised => w.cur[c].warnings /\ (w.cur[c].state = "closed" \/ ~Idle(w.conn))
          /\ ~z.raised /\ w.cur[c].warnings => z.shown = w.conn.diag /\ Idle(w.conn)
      BY <3>1, Warned DEF z
    <3>4. Others(s, z, c) /\ z.conn.asked = s.conn.asked
      BY <2>3, <3>1, <3>3 DEF Others
    <3>5. w.cur[c].state # "closed"
      BY <1>5, <2>2, <3>1 DEF Others
    <3>6. z.raised => Reason(z.conn, z.cur, c)
      BY <3>3, <3>5 DEF Reason
    <3>7. Len(z.conn.more) = Len(s.conn.more) - 1
      BY <1>1, <2>2, <2>6, <3>1, <3>3 DEF Kept
    <3>8. ~z.raised => Shown(z, z.cur[c])
      <4> SUFFICES ASSUME ~z.raised PROVE Shown(z, z.cur[c])
        OBVIOUS
      <4>1. n.conn.set \in SetType /\ (n.conn.more = <<>> /\ n.conn.set.warn => n.conn.diag = <<n.conn.set.of, n.conn.set.at>>)
        BY <2>2, <2>6 DEF Announced
      <4>2. ASSUME n.conn.set.warn PROVE z.shown = <<n.conn.set.of, n.conn.set.at>>
        BY <3>1, <3>3, <4>1, <4>2 DEF Idle
      <4> QED
        BY <3>1, <3>3, <4>1, <4>2 DEF Shown
    <3> QED
      BY <1>1, <2>2, <3>1, <3>2, <3>3, <3>4, <3>6, <3>7, <3>8 DEF Nexts, t
  <2> QED
    BY <2>4, <2>5, <2>6
<1> QED
  BY <1>3, <1>4, <1>5

\* What close leaves.
Closes(s, t, c) ==
  /\ t \in State /\ Rest(t.conn, t.cur) /\ Owned(t.cur[c]) /\ t.ret = <<>>
  /\ (\A d \in Cursors \ {c} : t.cur[d] = s.cur[d]) /\ t.conn.asked = s.conn.asked
  /\ s.cur[c].state # "none" => t.cur[c].state # "none"
  /\ s.cur[c].state # "closed" => IF t.raised THEN Reason(t.conn, t.cur, c) ELSE Idle(t.conn)

\* The loop of close: where it stops it has raised, or the query has no more
\* sets; and it does stop, since each step takes one.
LEMMA Loop ==
  ASSUME NEW s \in State, NEW c \in Cursors, ~s.raised, ~s.end, s.ret = <<>>,
         Rest(s.conn, s.cur), Owned(s.cur[c])
  PROVE  LET m == Len(s.conn.more) + 1
             loop == CHOOSE f : f = [k \in 0..m |->
                       IF k = 0 THEN s
                       ELSE IF f[k - 1].raised \/ f[k - 1].end THEN f[k - 1] ELSE nextset(f[k - 1], c)] IN
         /\ Closes(s, loop[m], c)
         /\ loop[m].cur[c].state = s.cur[c].state /\ loop[m].cur[c].stream = s.cur[c].stream
<1> DEFINE m == Len(s.conn.more) + 1
           S == {x \in State : /\ Rest(x.conn, x.cur) /\ Owned(x.cur[c]) /\ x.ret = <<>>
                               /\ Others(s, x, c) /\ x.conn.asked = s.conn.asked
                               /\ x.raised /\ s.cur[c].state # "closed" => Reason(x.conn, x.cur, c)
                               /\ ~x.raised /\ x.end => Idle(x.conn)}
           Step(x) == IF x.raised \/ x.end THEN x ELSE nextset(x, c)
           G == [x \in S |-> Step(x)]
           Is(f) == f = [k \in 0..m |->
                       IF k = 0 THEN s
                       ELSE IF f[k - 1].raised \/ f[k - 1].end THEN f[k - 1] ELSE nextset(f[k - 1], c)]
           loop == CHOOSE f : Is(f)
<1>1. s.conn.more \in Seq(SetType) /\ Len(s.conn.more) \in Nat /\ m \in Nat
  <2>1. s.conn.more \in Seq(SetType)
    BY StateFields DEF ConnType
  <2> QED
    BY <2>1, LenProperties
<1>2. s \in S
  BY DEF Others
<1>3. ASSUME NEW x \in S PROVE Step(x) \in S
  <2>1. CASE x.raised \/ x.end
    BY <2>1
  <2>2. CASE ~x.raised /\ ~x.end
    <3> DEFINE t == nextset(x, c)
    <3>1. Nexts(x, t, c)
      BY <2>2, NextSetLeaves
    <3> HIDE DEF t
    <3>2. Others(s, t, c) /\ t.conn.asked = s.conn.asked /\ x.cur[c].state = s.cur[c].state
      BY <3>1 DEF Nexts, Others
    <3>3. t \in S
      BY <3>1, <3>2 DEF Nexts
    <3> QED
      BY <2>2, <3>3 DEF t
  <2> QED
    BY <2>1, <2>2
<1>4. G \in [S -> S]
  <2> HIDE DEF S, Step
  <2> QED
    BY <1>3
<1>5. PICK g \in [0..m -> S] : g[0] = s /\ \A k \in 1..m : g[k] = G[g[k - 1]]
  <2> HIDE DEF S, G, m
  <2> QED
    <3>1. \E g : Iterates(g, S, G, s, m)
      BY <1>1, <1>2, <1>4, Iterated
    <3> QED
      BY <3>1 DEF Iterates
<1>6. Is(g)
  <2> DEFINE h == [k \in 0..m |->
                       IF k = 0 THEN s
                       ELSE IF g[k - 1].raised \/ g[k - 1].end THEN g[k - 1] ELSE nextset(g[k - 1], c)]
  <2>1. ASSUME NEW k \in 0..m PROVE g[k] = h[k]
    <3>1. CASE k = 0
      BY <1>5, <3>1
    <3>2. CASE k # 0
      <4>1. k \in 1..m /\ k - 1 \in 0..m
        BY <1>1, <3>2
      <4>2. g[k] = G[g[k - 1]] /\ g[k - 1] \in S
        BY <1>5, <4>1
      <4>3. G[g[k - 1]] = Step(g[k - 1])
        BY <4>2
      <4> QED
        BY <3>2, <4>2, <4>3
    <3> QED
      BY <3>1, <3>2
  <2>2. g = [k \in 0..m |-> g[k]]
    BY <1>5
  <2> HIDE DEF m
  <2>3. h = [k \in 0..m |-> h[k]]
    BY Zenon
  <2> HIDE DEF h
  <2>4. g = h
    BY <2>1, <2>2, <2>3
  <2> QED
    BY <2>4 DEF h
<1>7. Is(loop)
  <2>1. \E f : Is(f)
    BY <1>6
  <2> HIDE DEF Is
  <2> QED
    BY <2>1
<1> HIDE DEF loop, m
<1>8. loop[0] = s /\ \A k \in 1..m : loop[k] = Step(loop[k - 1])
  <2>1. \A k \in 0..m : loop[k] = IF k = 0 THEN s
                       ELSE IF loop[k - 1].raised \/ loop[k - 1].end THEN loop[k - 1] ELSE nextset(loop[k - 1], c)
    BY <1>7, Zenon
  <2> QED
    BY <1>1, <2>1
<1> DEFINE A == {k \in Nat : k <= m => /\ loop[k] \in S
                                       /\ loop[k].raised \/ loop[k].end
                                          \/ Len(loop[k].conn.more) = Len(s.conn.more) - k}
<1>9. 0 \in A
  BY <1>1, <1>2, <1>8
<1>10. ASSUME NEW k \in Nat, k \in A PROVE k + 1 \in A
  <2> SUFFICES ASSUME k + 1 <= m
               PROVE  /\ loop[k + 1] \in S
                      /\ loop[k + 1].raised \/ loop[k + 1].end
                         \/ Len(loop[k + 1].conn.more) = Len(s.conn.more) - (k + 1)
    OBVIOUS
  <2> DEFINE x == loop[k]
  <2>1. loop[k + 1] = Step(x)
    <3>1. k + 1 \in 1..m /\ (k + 1) - 1 = k
      BY <1>1
    <3> QED
      BY <1>8, <3>1
  <2>2. /\ x \in S
        /\ x.raised \/ x.end \/ Len(x.conn.more) = Len(s.conn.more) - k
    BY <1>1, <1>10
  <2>3. CASE x.raised \/ x.end
    BY <2>1, <2>2, <2>3
  <2>4. CASE ~x.raised /\ ~x.end
    <3> DEFINE t == nextset(x, c)
    <3> HIDE DEF x
    <3>1. Nexts(x, t, c)
      BY <2>2, <2>4, NextSetLeaves
    <3>2. Step(x) = t /\ Step(x) \in S
      BY <1>3, <2>2, <2>4
    <3> HIDE DEF t
    <3>3. t.raised \/ t.end \/ Len(t.conn.more) = Len(s.conn.more) - (k + 1)
      <4>1. Len(x.conn.more) = Len(s.conn.more) - k
        BY <2>2, <2>4
      <4>2. t.raised \/ t.end \/ Len(t.conn.more) = Len(x.conn.more) - 1
        BY <3>1 DEF Nexts
      <4>3. (Len(s.conn.more) - k) - 1 = Len(s.conn.more) - (k + 1)
        BY <1>1
      <4> QED
        BY <4>1, <4>2, <4>3
    <3> QED
      BY <2>1, <3>2, <3>3
  <2> QED
    BY <2>3, <2>4
<1>11. Nat \subseteq A
  <2> HIDE DEF A
  <2> QED
    BY <1>9, <1>10, Numbers
<1>12. /\ loop[m] \in S
       /\ loop[m].raised \/ loop[m].end \/ Len(loop[m].conn.more) = Len(s.conn.more) - m
  BY <1>1, <1>11
<1> DEFINE y == loop[m]
<1>13. y.raised \/ y.end
  <2>1. y.conn.more \in Seq(SetType)
    BY <1>12, StateFields DEF ConnType
  <2>2. Len(y.conn.more) \in Nat
    BY <2>1, LenProperties
  <2>3. Len(s.conn.more) - m = -1
    BY <1>1 DEF m
  <2> QED
    BY <1>12, <2>2, <2>3
<1>14. Closes(s, y, c) /\ y.cur[c].state = s.cur[c].state /\ y.cur[c].stream = s.cur[c].stream
  <2> HIDE DEF y
  <2>1. y \in S
    BY <1>12 DEF y
  <2> QED
    BY <1>13, <2>1 DEF Closes, Others
<1> QED
  BY <1>14 DEF loop, m

LEMMA CloseLeaves ==
  ASSUME NEW s \in State, NEW c \in Cursors, ~s.raised, ~s.end, s.ret = <<>>,
         Rest(s.conn, s.cur), Owned(s.cur[c])
  PROVE  Closes(s, close(s, c), c)
<1>1. CASE s.cur[c].state = "closed"
  BY <1>1 DEF close, Closes
<1>2. CASE s.cur[c].state # "closed"
  <2> DEFINE m == Len(s.conn.more) + 1
             loop == CHOOSE f : f = [k \in 0..m |->
                       IF k = 0 THEN s
                       ELSE IF f[k - 1].raised \/ f[k - 1].end THEN f[k - 1] ELSE nextset(f[k - 1], c)]
             y == loop[m]
             b == [y.cur[c] EXCEPT !.state = "closed"]
             t == [y EXCEPT !.cur = [y.cur EXCEPT ![c] = b]]
  <2>1. Closes(s, y, c)
    BY Loop, Zenon
  <2>2. close(s, c) = IF y.raised THEN y ELSE [y EXCEPT !.cur[c].state = "closed"]
    BY <1>2, Zenon DEF close, Then
  <2> HIDE DEF y
  <2>3. CASE y.raised
    BY <2>1, <2>2, <2>3
  <2>4. CASE ~y.raised
    <3>1. y \in State /\ Rest(y.conn, y.cur) /\ Owned(y.cur[c])
      BY <2>1 DEF Closes
    <3>2. y.cur[c] \in CurType
      BY <3>1, StateFields DEF CursType
    <3>3. /\ b \in CurType /\ b.stream = y.cur[c].stream /\ b.reading = y.cur[c].reading /\ b.set = y.cur[c].set
          /\ b.rows = y.cur[c].rows /\ b.rownumber = y.cur[c].rownumber
          /\ b.from = y.cur[c].from /\ b.got = y.cur[c].got /\ b.skipped = y.cur[c].skipped
          /\ b.stole = y.cur[c].stole /\ b.executed = y.cur[c].executed /\ b.state = "closed"
      BY <3>2 DEF CurType
    <3>4. close(s, c) = t
      BY <2>2, <2>4
    <3> HIDE DEF b
    <3>5. Told(y.cur[c]) => Told(b)
      BY <3>3 DEF Told
    <3>6. /\ t \in State /\ t.conn = y.conn /\ t.cur[c] = b /\ \A d \in Cursors \ {c} : t.cur[d] = y.cur[d]
          /\ t.ret = y.ret /\ t.raised = y.raised /\ Rest(t.conn, t.cur)
      BY <3>1, <3>3, <3>5, Relabels, SMTT(30)
    <3> HIDE DEF t
    <3>7. Owned(b)
      BY <3>1, <3>3 DEF Owned, Belongs, At, AtEnd
    <3>8. t.cur[c].state # "none"
      BY <3>3, <3>6
    <3> QED
      BY <2>1, <2>4, <3>4, <3>6, <3>7, <3>8 DEF Closes
  <2> QED
    BY <2>3, <2>4
<1> QED
  BY <1>1, <1>2

-----------------------------------------------------------------------------
(* Queries of a cursor                                                     *)

\* The cursor has got the first set of the last query.
Sent(t, c) ==
  LET a == t.cur[c] IN
  /\ a.set \in SetType /\ a.set.of = t.conn.asked /\ a.warnings = a.set.warn
  /\ t.conn.more = <<>> /\ a.set.warn => t.conn.diag = <<a.set.of, a.set.at>>
  /\ At(a)

\* What a query leaves.
Queries(s, t, c) ==
  /\ t \in State /\ t.ret = s.ret /\ t.end = s.end /\ Others(s, t, c)
  /\ Rest(t.conn, t.cur) /\ t.conn.asked \in {s.conn.asked, s.conn.asked + 1}

LEMMA QueryLeaves ==
  ASSUME client \in Clients, NEW s \in State, ~s.raised, Rest(s.conn, s.cur), NEW c \in Cursors,
         NEW script \in Seq(Statement), script # <<>>, s.conn.asked < client.queries
  PROVE  LET t == _query(s, c, script) IN
         /\ Queries(s, t, c)
         /\ t.raised  => t.cur = s.cur
         /\ ~t.raised => Sent(t, c) /\ (script[1].kind # "rows" => t.cur[c].rows = <<>> /\ ~t.cur[c].reading)
<1> DEFINE n == query(s, script)
           v == _do_get_result(n, c)
           t == _query(s, c, script)
<1>1. /\ n \in State /\ Same(s, n) /\ n.conn.asked \in {s.conn.asked, s.conn.asked + 1}
      /\ n.raised  => Rest(n.conn, n.cur)
      /\ ~n.raised => /\ Announced(n.conn, n.cur) /\ n.conn.set.of = n.conn.asked
                      /\ n.conn.set.kind = script[1].kind
  BY Queried
<1>2. t = IF n.raised THEN n ELSE v
  BY DEF _query, Then
<1> HIDE DEF n
<1>3. CASE n.raised
  <2>1. Others(s, n, c)
    BY <1>1 DEF Same, Others
  <2> QED
    BY <1>1, <1>2, <1>3, <2>1 DEF Queries, Same
<1>4. CASE ~n.raised
  <2>1. /\ v \in State /\ v.ret = n.ret /\ v.raised = n.raised /\ v.end = n.end /\ v.shown = n.shown
        /\ Rest(v.conn, v.cur)
        /\ v.conn = [n.conn EXCEPT !.status = v.conn.status]
        /\ \A d \in Cursors \ {c} : v.cur[d] = n.cur[d]
        /\ v.cur[c].state = n.cur[c].state /\ v.cur[c].stream = n.cur[c].stream
        /\ v.cur[c].set = n.conn.set /\ v.cur[c].warnings = n.conn.set.warn
        /\ v.cur[c].rows # <<>> \/ v.cur[c].reading => n.conn.set.kind = "rows"
        /\ At(v.cur[c])
    BY <1>1, <1>4, Takes
  <2> HIDE DEF v, t
  <2>2. n.conn \in ConnType
    BY <1>1, StateFields
  <2>3. v.conn.more = n.conn.more /\ v.conn.asked = n.conn.asked /\ v.conn.diag = n.conn.diag
    BY <2>1, <2>2 DEF ConnType
  <2>4. /\ n.conn.set \in SetType
        /\ n.conn.more = <<>> /\ n.conn.set.warn => n.conn.diag = <<n.conn.set.of, n.conn.set.at>>
    BY <1>1, <1>4 DEF Announced
  <2>5. Sent(v, c)
    BY <1>1, <1>4, <2>1, <2>3, <2>4 DEF Sent
  <2>6. Others(s, v, c)
    BY <1>1, <2>1 DEF Same, Others
  <2>7. Queries(s, v, c)
    BY <1>1, <2>1, <2>3, <2>6 DEF Queries, Same
  <2>8. script[1].kind # "rows" => v.cur[c].rows = <<>> /\ ~v.cur[c].reading
    BY <1>1, <1>4, <2>1
  <2> QED
    BY <1>2, <1>4, <2>1, <2>5, <2>7, <2>8 DEF t
<1> QED
  BY <1>3, <1>4

\* What is left when the warnings of the set that was sent are looked for.
LEMMA SentShown ==
  ASSUME NEW s \in State, NEW c \in Cursors, ~s.raised, Rest(s.conn, s.cur), Sent(s, c)
  PROVE  LET t == _warning_check(s, c) IN
         /\ t \in State /\ t.conn = s.conn /\ t.cur = s.cur /\ t.ret = s.ret /\ t.end = s.end
         /\ ~t.raised => Shown(t, t.cur[c])
<1> DEFINE t == _warning_check(s, c)
<1>1. /\ t \in State /\ t.conn = s.conn /\ t.cur = s.cur /\ t.ret = s.ret /\ t.end = s.end
      /\ ~t.raised /\ s.cur[c].warnings => t.shown = s.conn.diag /\ Idle(s.conn)
  BY Warned
<1> HIDE DEF t
<1>2. ~t.raised => Shown(t, t.cur[c])
  BY <1>1 DEF Sent, Shown, Idle
<1> QED
  BY <1>1, <1>2 DEF t

LEMMA ExecutedLeaves ==
  ASSUME NEW s \in State, NEW c \in Cursors, ~s.raised, Rest(s.conn, s.cur), Sent(s, c)
  PROVE  LET t == Executed(s, c) IN
         /\ Queries(s, t, c) /\ Owned(t.cur[c]) /\ t.conn = s.conn
         /\ ~t.raised => Shown(t, t.cur[c])
<1> DEFINE b == [s.cur[c] EXCEPT !.executed = s.conn.asked, !.stole = FALSE]
           u == [s EXCEPT !.cur = [s.cur EXCEPT ![c] = b]]
           t == Executed(s, c)
           w == _warning_check(u, c)
<1>1. s.cur[c] \in CurType /\ s.conn.asked \in 0..client.queries
  BY StateFields DEF CursType, ConnType
<1>2. /\ b \in CurType /\ b.stream = s.cur[c].stream /\ b.reading = s.cur[c].reading /\ b.set = s.cur[c].set
      /\ b.rows = s.cur[c].rows /\ b.rownumber = s.cur[c].rownumber
      /\ b.state = s.cur[c].state /\ b.warnings = s.cur[c].warnings
      /\ b.executed = s.conn.asked
      /\ b.from = s.cur[c].from /\ b.got = s.cur[c].got /\ b.skipped = s.cur[c].skipped
  BY <1>1 DEF CurType
<1>3. t = IF s.cur[c].stream THEN u ELSE w
  <2>1. [s EXCEPT !.cur[c].executed = s.conn.asked, !.cur[c].stole = FALSE] = u
    BY StateFields DEF State, CursType, CurType
  <2> HIDE DEF u
  <2> QED
    BY <2>1 DEF Executed
<1> HIDE DEF b
<1>4. Told(s.cur[c]) => Told(b)
  BY <1>2 DEF Told
<1>5. /\ u \in State /\ u.conn = s.conn /\ u.cur[c] = b /\ \A d \in Cursors \ {c} : u.cur[d] = s.cur[d]
      /\ u.ret = s.ret /\ u.raised = s.raised /\ u.end = s.end /\ Rest(u.conn, u.cur)
  BY <1>2, <1>4, Relabels
<1> HIDE DEF u, t
<1>6. Owned(b)
  BY <1>2 DEF Sent, Owned, Belongs, At, AtEnd
<1>7. Others(s, u, c)
  BY <1>2, <1>5 DEF Others
<1>8. Queries(s, u, c)
  BY <1>5, <1>7 DEF Queries
<1>9. Sent(u, c)
  BY <1>2, <1>5 DEF Sent, At, AtEnd
<1>10. CASE s.cur[c].stream
  <2>1. Shown(u, b)
    BY <1>2, <1>10 DEF Shown, Sent
  <2> QED
    BY <1>3, <1>5, <1>6, <1>8, <1>10, <2>1 DEF t
<1>11. CASE ~s.cur[c].stream
  <2>1. /\ w \in State /\ w.conn = u.conn /\ w.cur = u.cur /\ w.ret = u.ret /\ w.end = u.end
        /\ ~w.raised => Shown(w, w.cur[c])
    BY <1>5, <1>9, SentShown
  <2> HIDE DEF w
  <2>2. Queries(s, w, c)
    BY <1>8, <2>1 DEF Queries, Others
  <2> QED
    BY <1>3, <1>5, <1>6, <1>11, <2>1, <2>2 DEF t
<1> QED
  BY <1>10, <1>11

\* What an execute leaves.
Executes(s, t, c) == Queries(s, t, c) /\ Owned(t.cur[c]) /\ (~t.raised => Shown(t, t.cur[c]))

LEMMA ExecuteLeaves ==
  ASSUME client \in Clients, NEW s \in State, ~s.raised, Rest(s.conn, s.cur), NEW c \in Cursors,
         Owned(s.cur[c]), NEW script \in Seq(Statement), script # <<>>, s.conn.asked < client.queries
  PROVE  Executes(s, execute(s, c, script), c)
<1> DEFINE q == _query(s, c, script)
           t == execute(s, c, script)
           e == Executed(q, c)
<1>1. CASE s.cur[c].state = "closed"
  <2>1. t = Raise(s)
    BY <1>1, Raised DEF execute, Then, _get_db
  <2>2. /\ Raise(s) \in State /\ Raise(s).conn = s.conn /\ Raise(s).cur = s.cur /\ Raise(s).ret = s.ret
        /\ Raise(s).raised /\ Raise(s).end = s.end
    BY Raised
  <2> QED
    BY <2>1, <2>2 DEF Executes, Queries, Others
<1>2. CASE s.cur[c].state # "closed"
  <2>1. t = IF q.raised THEN q ELSE e
    BY <1>2 DEF execute, Then, _get_db
  <2>2. /\ Queries(s, q, c) /\ (q.raised => q.cur = s.cur) /\ (~q.raised => Sent(q, c))
    BY QueryLeaves
  <2> HIDE DEF q, t
  <2>3. q \in State /\ Rest(q.conn, q.cur)
    BY <2>2 DEF Queries
  <2>4. CASE q.raised
    BY <2>1, <2>2, <2>4 DEF Executes, t
  <2>5. CASE ~q.raised
    <3>1. Queries(q, e, c) /\ Owned(e.cur[c]) /\ (~e.raised => Shown(e, e.cur[c])) /\ e.conn.asked = q.conn.asked
      BY <2>2, <2>3, <2>5, ExecutedLeaves
    <3>2. Queries(s, e, c)
      BY <2>2, <3>1 DEF Queries, Others
    <3> QED
      BY <2>1, <2>5, <3>1, <3>2 DEF Executes, t
  <2> QED
    BY <2>4, <2>5
<1> QED
  BY <1>1, <1>2

LEMMA InsertLeaves ==
  ASSUME client \in Clients, NEW s \in State, ~s.raised, Rest(s.conn, s.cur), NEW c \in Cursors,
         Owned(s.cur[c]), NEW answer \in Statement, answer.kind # "rows", s.conn.asked < client.queries
  PROVE  Executes(s, InsertMany(s, c, answer), c)
<1> DEFINE script == <<answer>>
           q == _query(s, c, script)
           t == InsertMany(s, c, answer)
           w == _warning_check(q, c)
<1>1. CASE s.cur[c].state = "closed"
  <2>1. t = Raise(s)
    BY <1>1, Raised DEF InsertMany, Then, _get_db
  <2>2. /\ Raise(s) \in State /\ Raise(s).conn = s.conn /\ Raise(s).cur = s.cur /\ Raise(s).ret = s.ret
        /\ Raise(s).raised /\ Raise(s).end = s.end
    BY Raised
  <2> QED
    BY <2>1, <2>2 DEF Executes, Queries, Others
<1>2. CASE s.cur[c].state # "closed"
  <2>1. t = IF q.raised THEN q ELSE IF q.cur[c].stream THEN q ELSE w
    BY <1>2 DEF InsertMany, Then, _get_db
  <2>2. script \in Seq(Statement) /\ script # <<>> /\ script[1] = answer
    OBVIOUS
  <2> HIDE DEF script
  <2>3. /\ Queries(s, q, c) /\ (q.raised => q.cur = s.cur)
        /\ ~q.raised => Sent(q, c) /\ q.cur[c].rows = <<>> /\ ~q.cur[c].reading
    BY <2>2, QueryLeaves
  <2> HIDE DEF q, t
  <2>4. q \in State /\ Rest(q.conn, q.cur)
    BY <2>3 DEF Queries
  <2>5. CASE q.raised
    BY <2>1, <2>3, <2>5 DEF Executes, t
  <2>6. CASE ~q.raised /\ q.cur[c].stream
    <3>1. Owned(q.cur[c])
      BY <2>3, <2>6 DEF Owned, Belongs, Sent
    <3>2. Shown(q, q.cur[c])
      BY <2>3, <2>6 DEF Shown, Sent
    <3> QED
      BY <2>1, <2>3, <2>6, <3>1, <3>2 DEF Executes, t
  <2>7. CASE ~q.raised /\ ~q.cur[c].stream
    <3>1. /\ w \in State /\ w.conn = q.conn /\ w.cur = q.cur /\ w.ret = q.ret /\ w.end = q.end
          /\ ~w.raised => Shown(w, w.cur[c])
      BY <2>3, <2>4, <2>7, SentShown
    <3> HIDE DEF w
    <3>2. Owned(w.cur[c])
      BY <2>3, <2>7, <3>1 DEF Owned, Belongs, Sent
    <3>3. Queries(s, w, c)
      BY <2>3, <3>1 DEF Queries, Others
    <3> QED
      BY <2>1, <2>7, <3>1, <3>2, <3>3 DEF Executes, t
  <2> QED
    BY <2>5, <2>6, <2>7
<1> QED
  BY <1>1, <1>2

\* One argument of callproc: a SET, and its answer is thrown away.
SetArgument(t, c) ==
  LET q == _query(t, c, <<Ok>>) IN IF q.raised THEN q ELSE [nextset(q, c) EXCEPT !.end = FALSE]

LEMMA SetLeaves ==
  ASSUME client \in Clients, NEW s \in State, ~s.raised, ~s.end, s.ret = <<>>, Rest(s.conn, s.cur),
         NEW c \in Cursors, Owned(s.cur[c]), s.conn.asked < client.queries
  PROVE  LET t == SetArgument(s, c) IN Queries(s, t, c) /\ Owned(t.cur[c]) /\ ~t.end
<1> DEFINE script == <<Ok>>
           q == _query(s, c, script)
           n == nextset(q, c)
           u == [n EXCEPT !.end = FALSE]
           t == SetArgument(s, c)
<1>1. script \in Seq(Statement) /\ script # <<>> /\ script[1].kind # "rows"
  BY DEF Ok, Statement
<1>2. t = IF q.raised THEN q ELSE u
  BY DEF SetArgument
<1> HIDE DEF script
<1>3. /\ Queries(s, q, c) /\ (q.raised => q.cur = s.cur)
      /\ ~q.raised => Sent(q, c) /\ q.cur[c].rows = <<>> /\ ~q.cur[c].reading
  BY <1>1, QueryLeaves
<1> HIDE DEF q, t
<1>4. q \in State /\ Rest(q.conn, q.cur) /\ ~q.end /\ q.ret = <<>>
  BY <1>3 DEF Queries
<1>5. CASE q.raised
  BY <1>2, <1>3, <1>4, <1>5 DEF t
<1>6. CASE ~q.raised
  <2>1. Owned(q.cur[c])
    BY <1>3, <1>6 DEF Owned, Belongs, Sent
  <2>2. Nexts(q, n, c)
    BY <1>4, <1>6, <2>1, NextSetLeaves
  <2> HIDE DEF n
  <2>3. n \in State
    BY <2>2 DEF Nexts
  <2>4. u \in State /\ u.conn = n.conn /\ u.cur = n.cur /\ u.ret = n.ret /\ ~u.end
    BY <2>3 DEF State
  <2> HIDE DEF u
  <2>5. Queries(s, u, c)
    <3>1. u.conn.asked \in {s.conn.asked, s.conn.asked + 1}
      BY <1>3, <2>2, <2>4 DEF Queries, Nexts
    <3>2. Others(s, u, c)
      BY <1>3, <2>2, <2>4 DEF Queries, Nexts, Others
    <3>3. Rest(u.conn, u.cur) /\ u.ret = s.ret
      BY <1>3, <1>4, <2>2, <2>4 DEF Nexts, Queries
    <3>4. u.end = s.end
      BY <2>4, StateFields
    <3> QED
      BY <2>4, <3>1, <3>2, <3>3, <3>4 DEF Queries
  <2>6. Owned(u.cur[c])
    BY <2>2, <2>4 DEF Nexts
  <2> QED
    BY <1>2, <1>6, <2>4, <2>5, <2>6 DEF t
<1> QED
  BY <1>5, <1>6

\* The fold of callproc over its only argument.
LEMMA OneArgument ==
  ASSUME NEW s, NEW c
  PROVE  FoldLeft(LAMBDA t, arg : Then(t, LAMBDA u : Then(_query(u, c, <<Ok>>), LAMBDA v : [nextset(v, c) EXCEPT !.end = FALSE])),
                  s, <<None>>)
           = IF s.raised THEN s ELSE SetArgument(s, c)
<1> DEFINE Op(t) == IF t.raised THEN t ELSE SetArgument(t, c)
           g == [T \in SUBSET {1} |-> IF T = {} THEN s ELSE Op(s)]
           Is(f) == f = [T \in SUBSET {1} |-> IF T = {} THEN s ELSE Op(f[T \ {Max(T)}])]
           h == CHOOSE f : Is(f)
<1>1. Max({1}) = 1 /\ DOMAIN <<None>> = {1} /\ {1} \ {1} = {}
  <2>1. DOMAIN <<None>> = {1}
    OBVIOUS
  <2> QED
    BY <2>1 DEF Max
<1>2. Is(g)
  <2>1. \A T \in SUBSET {1} : T = {} \/ T = {1}
    OBVIOUS
  <2> HIDE DEF Op
  <2>2. g[{}] = s
    OBVIOUS
  <2>3. \A T \in SUBSET {1} : (IF T = {} THEN s ELSE Op(s)) = IF T = {} THEN s ELSE Op(g[T \ {Max(T)}])
    BY <1>1, <2>1, <2>2
  <2> QED
    BY <2>3
<1>3. Is(h)
  <2> HIDE DEF Is, g
  <2> QED
    BY <1>2
<1>4. h[{1}] = Op(h[{}]) /\ h[{}] = s
  <2> HIDE DEF h, Op
  <2>1. \A T \in SUBSET {1} : h[T] = IF T = {} THEN s ELSE Op(h[T \ {Max(T)}])
    BY <1>3, Zenon
  <2> QED
    BY <1>1, <2>1
<1>5. FoldLeft(LAMBDA t, arg : Then(t, LAMBDA u : Then(_query(u, c, <<Ok>>), LAMBDA v : [nextset(v, c) EXCEPT !.end = FALSE])),
               s, <<None>>) = h[{1}]
  BY <1>1, Zenon DEF FoldLeft, MapThenFoldSet, Then, SetArgument
<1> QED
  BY <1>4, <1>5, Zenon

LEMMA CallProcLeaves ==
  ASSUME client \in Clients, NEW s \in State, ~s.raised, ~s.end, s.ret = <<>>, Rest(s.conn, s.cur),
         NEW c \in Cursors, Owned(s.cur[c]), NEW script \in Seq(Statement), script # <<>>,
         s.conn.asked + 1 < client.queries
  PROVE  LET t == callproc(s, c, <<None>>, script) IN
         /\ t \in State /\ t.ret = <<>> /\ Others(s, t, c) /\ Rest(t.conn, t.cur) /\ Owned(t.cur[c])
         /\ ~t.raised => Shown(t, t.cur[c])
<1> DEFINE base == _get_db(s, c)
           d == IF base.raised THEN base ELSE SetArgument(base, c)
           q == _query(d, c, script)
           e == Executed(q, c)
           t == callproc(s, c, <<None>>, script)
<1>1. t = IF d.raised THEN d ELSE IF q.raised THEN q ELSE e
  <2>1. FoldLeft(LAMBDA x, arg : Then(x, LAMBDA u : Then(_query(u, c, <<Ok>>), LAMBDA v : [nextset(v, c) EXCEPT !.end = FALSE])),
                 base, <<None>>) = d
    BY OneArgument, Zenon
  <2> HIDE DEF d, base
  <2> QED
    BY <2>1, Zenon DEF callproc, Then, base
<1>2. Queries(s, d, c) /\ Owned(d.cur[c]) /\ ~d.end
  <2>1. CASE s.cur[c].state = "closed"
    <3>1. /\ Raise(s) \in State /\ Raise(s).conn = s.conn /\ Raise(s).cur = s.cur /\ Raise(s).ret = s.ret
          /\ Raise(s).raised /\ Raise(s).end = s.end
      BY Raised
    <3>2. d = Raise(s)
      BY <2>1, <3>1 DEF _get_db
    <3> QED
      BY <3>1, <3>2 DEF Queries, Others
  <2>2. CASE s.cur[c].state # "closed"
    <3>1. base = s
      BY <2>2 DEF _get_db
    <3>2. s.conn.asked < client.queries
      <4>1. client.queries \in Nat
        BY ClientsTyped
      <4>2. s.conn.asked \in 0..client.queries
        BY StateFields DEF ConnType
      <4> QED
        BY <4>1, <4>2
    <3>3. d = SetArgument(s, c)
      BY <3>1
    <3> QED
      BY <3>2, <3>3, SetLeaves
  <2> QED
    BY <2>1, <2>2
<1> HIDE DEF d, t
<1>3. /\ d \in State /\ d.ret = <<>> /\ Rest(d.conn, d.cur) /\ Others(s, d, c)
      /\ d.conn.asked \in {s.conn.asked, s.conn.asked + 1}
  BY <1>2 DEF Queries
<1>4. d.conn.asked < client.queries
  <2>1. client.queries \in Nat
    BY ClientsTyped
  <2>2. s.conn.asked \in 0..client.queries
    BY StateFields DEF ConnType
  <2> QED
    BY <1>3, <2>1, <2>2
<1>5. CASE d.raised
  BY <1>1, <1>2, <1>3, <1>5 DEF t
<1>6. CASE ~d.raised
  <2>1. /\ Queries(d, q, c) /\ (q.raised => q.cur = d.cur) /\ (~q.raised => Sent(q, c))
    BY <1>3, <1>4, <1>6, QueryLeaves
  <2> HIDE DEF q
  <2>2. /\ q \in State /\ q.ret = <<>> /\ Rest(q.conn, q.cur) /\ Others(s, q, c)
    BY <1>3, <2>1 DEF Queries, Others
  <2>3. CASE q.raised
    BY <1>1, <1>2, <1>6, <2>1, <2>2, <2>3 DEF t
  <2>4. CASE ~q.raised
    <3>1. Queries(q, e, c) /\ Owned(e.cur[c]) /\ (~e.raised => Shown(e, e.cur[c]))
      BY <2>1, <2>2, <2>4, ExecutedLeaves
    <3> HIDE DEF e
    <3>2. e \in State /\ e.ret = <<>> /\ Rest(e.conn, e.cur) /\ Others(s, e, c)
      BY <2>2, <3>1 DEF Queries, Others
    <3> QED
      BY <1>1, <1>6, <2>4, <3>1, <3>2 DEF t
  <2> QED
    BY <2>3, <2>4
<1> QED
  BY <1>5, <1>6

\* The fold of executemany: a query after the other.
Folds(h, base, batch, c) ==
  h = [T \in SUBSET (1..Len(batch)) |->
         IF T = {} THEN base
         ELSE LET x == Max(T) IN
              IF h[T \ {x}].raised THEN h[T \ {x}] ELSE execute(h[T \ {x}], c, batch[x])]

LEMMA FoldExists ==
  ASSUME NEW base, NEW c, NEW batch, Len(batch) \in Nat
  PROVE  \E h : Folds(h, base, batch, c)
<1> DEFINE Op(t, x) == IF t.raised THEN t ELSE execute(t, c, batch[x])
           F(h, n) == h = [T \in SUBSET (1..n) |-> IF T = {} THEN base ELSE Op(h[T \ {Max(T)}], Max(T))]
           A == {n \in Nat : \E h : F(h, n)}
<1>1. ASSUME NEW n \in Nat, NEW T \in SUBSET (1..n), T # {}
      PROVE  Max(T) \in T /\ \A y \in T : Max(T) >= y
  BY <1>1, Maximum DEF Max
<1>2. 0 \in A
  <2> DEFINE h == [T \in SUBSET (1..0) |-> base]
  <2>1. \A T \in SUBSET (1..0) : T = {}
    OBVIOUS
  <2>2. F(h, 0)
    BY <2>1
  <2> HIDE DEF F, h
  <2> QED
    BY <2>2
<1>3. ASSUME NEW n \in Nat, n \in A PROVE n + 1 \in A
  <2>1. PICK f : F(f, n)
    BY <1>3
  <2> DEFINE h == [T \in SUBSET (1..(n + 1)) |-> IF n + 1 \in T THEN Op(f[T \ {n + 1}], n + 1) ELSE f[T]]
             Rhs(T) == IF T = {} THEN base ELSE Op(h[T \ {Max(T)}], Max(T))
  <2> HIDE DEF Op
  <2>2. \A T \in SUBSET (1..n) : T \in SUBSET (1..(n + 1)) /\ n + 1 \notin T
    OBVIOUS
  <2>3. \A T \in SUBSET (1..n) : h[T] = f[T]
    BY <2>2
  <2>4. \A T \in SUBSET (1..n) : f[T] = IF T = {} THEN base ELSE Op(f[T \ {Max(T)}], Max(T))
    BY <2>1
  <2>5. ASSUME NEW T \in SUBSET (1..(n + 1)) PROVE h[T] = Rhs(T)
    <3>1. CASE n + 1 \in T
      <4>1. Max(T) = n + 1
        <5> DEFINE m == Max(T)
        <5>1. n + 1 \in Nat /\ T # {}
          BY <3>1
        <5>2. m \in T /\ \A y \in T : m >= y
          BY <1>1, <5>1
        <5> HIDE DEF m
        <5>3. m \in T /\ m >= n + 1
          BY <3>1, <5>2
        <5>4. m \in 1..(n + 1)
          BY <5>3
        <5>5. m = n + 1
          BY <5>3, <5>4
        <5> QED
          BY <5>5 DEF m
      <4>2. T \ {n + 1} \in SUBSET (1..n)
        OBVIOUS
      <4>3. h[T] = Op(f[T \ {n + 1}], n + 1)
        BY <3>1
      <4>4. h[T \ {n + 1}] = f[T \ {n + 1}]
        BY <2>3, <4>2
      <4> HIDE DEF h
      <4> QED
        BY <3>1, <4>1, <4>3, <4>4
    <3>2. CASE n + 1 \notin T
      <4>1. T \in SUBSET (1..n)
        BY <3>2
      <4>2. h[T] = f[T]
        BY <2>3, <4>1
      <4>3. CASE T = {}
        BY <2>4, <4>1, <4>2, <4>3
      <4>4. CASE T # {}
        <5>1. T \ {Max(T)} \in SUBSET (1..n)
          BY <4>1
        <5>2. h[T \ {Max(T)}] = f[T \ {Max(T)}]
          BY <2>3, <5>1
        <5> HIDE DEF h
        <5> QED
          BY <2>4, <4>1, <4>2, <4>4, <5>2
      <4> QED
        BY <4>3, <4>4
    <3> QED
      BY <3>1, <3>2
  <2>6. F(h, n + 1)
    <3>1. h = [T \in SUBSET (1..(n + 1)) |-> h[T]]
      OBVIOUS
    <3> HIDE DEF h
    <3> QED
      BY <2>5, <3>1
  <2> HIDE DEF F, h
  <2> QED
    BY <2>6
<1>4. Nat \subseteq A
  <2> HIDE DEF A
  <2> QED
    BY <1>2, <1>3, Numbers
<1>5. \E h : F(h, Len(batch))
  BY <1>4
<1> QED
  BY <1>5, Zenon DEF Folds

LEMMA ExecuteManyLeaves ==
  ASSUME client \in Clients, NEW s \in State, ~s.raised, s.ret = <<>>, Rest(s.conn, s.cur),
         NEW c \in Cursors, Owned(s.cur[c]), NEW batch \in Seq(Seq(Statement) \ {<<>>}), batch # <<>>,
         s.conn.asked + Len(batch) <= client.queries
  PROVE  LET t == executemany(s, c, batch) IN
         /\ t \in State /\ t.ret = <<>> /\ Others(s, t, c) /\ Rest(t.conn, t.cur) /\ Owned(t.cur[c])
         /\ ~t.raised => Shown(t, t.cur[c])
<1> DEFINE n == Len(batch)
           base == _get_db(s, c)
           t == executemany(s, c, batch)
           h == CHOOSE f : Folds(f, base, batch, c)
           Good(x, k) == /\ x \in State /\ x.ret = <<>> /\ Others(s, x, c) /\ Rest(x.conn, x.cur) /\ Owned(x.cur[c])
                         /\ x.conn.asked <= s.conn.asked + k
                         /\ k > 0 /\ ~x.raised => Shown(x, x.cur[c])
           A == {k \in Nat : k <= n => Good(h[1..k], k)}
<1>1. n \in Nat /\ n > 0 /\ DOMAIN batch = 1..n /\ \A k \in 1..n : batch[k] \in Seq(Statement) /\ batch[k] # <<>>
  BY LenProperties, EmptySeq
<1>2. s.conn.asked \in Nat /\ client.queries \in Nat
  <2>1. client.queries \in Nat
    BY ClientsTyped
  <2>2. s.conn.asked \in 0..client.queries
    BY StateFields DEF ConnType
  <2> QED
    BY <2>1, <2>2
<1>3. Folds(h, base, batch, c)
  <2>1. \E f : Folds(f, base, batch, c)
    BY <1>1, FoldExists
  <2> HIDE DEF base
  <2> QED
    BY <2>1, Zenon
<1>4. t = h[1..n]
  <2> HIDE DEF base
  <2>1. t = LET iter == CHOOSE f : f = [T \in SUBSET (DOMAIN batch) |->
         IF T = {} THEN base
         ELSE LET x == Max(T) IN
              IF f[T \ {x}].raised THEN f[T \ {x}] ELSE execute(f[T \ {x}], c, batch[x])] IN iter[DOMAIN batch]
    BY Zenon DEF executemany, FoldLeft, MapThenFoldSet, Then, base
  <2> QED
    BY <1>1, <2>1, Zenon DEF Folds
<1> HIDE DEF h, t
<1>5. Good(base, 0)
  <2>1. CASE s.cur[c].state = "closed"
    <3>1. base = Raise(s)
      BY <2>1 DEF _get_db
    <3> HIDE DEF base
    <3>2. /\ base \in State /\ base.conn = s.conn /\ base.cur = s.cur /\ base.ret = s.ret
      BY <3>1, Raised
    <3> QED
      BY <1>2, <3>2 DEF Others
  <2>2. CASE s.cur[c].state # "closed"
    <3>1. base = s
      BY <2>2 DEF _get_db
    <3> HIDE DEF base
    <3> QED
      BY <1>2, <3>1 DEF Others
  <2> QED
    BY <2>1, <2>2
<1> HIDE DEF base
<1>6. \A T \in SUBSET (1..n) :
        h[T] = IF T = {} THEN base
               ELSE LET x == Max(T) IN
                    IF h[T \ {x}].raised THEN h[T \ {x}] ELSE execute(h[T \ {x}], c, batch[x])
  BY <1>3, Zenon DEF Folds
<1>7. 0 \in A
  <2>1. 1..0 = {} /\ {} \in SUBSET (1..n)
    OBVIOUS
  <2>2. h[1..0] = base
    BY <1>6, <2>1
  <2> HIDE DEF Good
  <2> QED
    BY <1>5, <2>2
<1>8. ASSUME NEW k \in Nat, k \in A PROVE k + 1 \in A
  <2> SUFFICES ASSUME k + 1 <= n PROVE Good(h[1..(k + 1)], k + 1)
    OBVIOUS
  <2> DEFINE x == h[1..k]
             y == h[1..(k + 1)]
             z == execute(x, c, batch[k + 1])
  <2>1. Good(x, k)
    BY <1>1, <1>8
  <2>2. Max(1..(k + 1)) = k + 1
    BY DEF Max
  <2>3. (1..(k + 1)) \ {k + 1} = 1..k /\ 1..(k + 1) # {} /\ 1..(k + 1) \in SUBSET (1..n) /\ k + 1 \in 1..n
    <3> HIDE DEF n
    <3>1. (1..(k + 1)) \ {k + 1} = 1..k
      OBVIOUS
    <3>2. 1 \in 1..(k + 1)
      OBVIOUS
    <3>3. 1..(k + 1) \in SUBSET (1..n) /\ k + 1 \in 1..n
      BY <1>1
    <3> QED
      BY <3>1, <3>2, <3>3
  <2>4. y = IF x.raised THEN x ELSE z
    BY <1>6, <2>2, <2>3
  <2> HIDE DEF x, y
  <2>5. x.conn.asked \in Nat
    <3>1. x.conn \in ConnType
      BY <2>1, StateFields
    <3>2. x.conn.asked \in 0..client.queries
      BY <3>1 DEF ConnType
    <3> QED
      BY <1>2, <3>2
  <2>6. CASE x.raised
    <3>1. x.conn.asked <= s.conn.asked + k
      BY <2>1
    <3> DEFINE was == s.conn.asked
               now == x.conn.asked
    <3>2. was \in Nat /\ now \in Nat /\ now <= was + k
      BY <1>2, <2>5, <3>1
    <3> HIDE DEF was, now
    <3>3. now <= was + (k + 1)
      BY <1>8, <3>2
    <3>4. x.conn.asked <= s.conn.asked + (k + 1)
      BY <3>3 DEF was, now
    <3> QED
      BY <2>1, <2>4, <2>6, <3>4 DEF y
  <2>7. CASE ~x.raised
    <3>1. x.conn.asked < client.queries
      <4> DEFINE was  == s.conn.asked
                 now  == x.conn.asked
                 most == client.queries
      <4>1. was \in Nat /\ now \in Nat /\ most \in Nat /\ n \in Nat
        BY <1>1, <1>2, <2>5
      <4>2. now <= was + k /\ was + n <= most /\ k + 1 <= n
        BY <1>2, <2>1
      <4> HIDE DEF was, now, most, n
      <4>3. now < most
        BY <1>8, <4>1, <4>2
      <4> QED
        BY <4>3 DEF was, now, most, n
    <3>2. Executes(x, z, c)
      BY <1>1, <2>1, <2>3, <2>7, <3>1, ExecuteLeaves
    <3> HIDE DEF z
    <3>3. z.conn.asked \in {x.conn.asked, x.conn.asked + 1}
      BY <3>2 DEF Executes, Queries
    <3>4. z.conn.asked <= s.conn.asked + (k + 1)
      <4> DEFINE was  == s.conn.asked
                 now  == x.conn.asked
                 next == z.conn.asked
      <4>1. was \in Nat /\ now \in Nat /\ now <= was + k
        BY <1>2, <2>1, <2>5
      <4>2. next \in {now, now + 1}
        BY <3>3
      <4> HIDE DEF was, now, next
      <4>3. next <= was + (k + 1)
        BY <1>8, <4>1, <4>2
      <4> QED
        BY <4>3 DEF was, now, next
    <3>5. /\ z \in State /\ z.ret = <<>> /\ Others(s, z, c) /\ Rest(z.conn, z.cur) /\ Owned(z.cur[c])
          /\ ~z.raised => Shown(z, z.cur[c])
      BY <2>1, <3>2 DEF Executes, Queries, Others
    <3> QED
      BY <2>4, <2>7, <3>4, <3>5 DEF y
  <2> QED
    BY <2>6, <2>7
<1>9. Nat \subseteq A
  <2> HIDE DEF A
  <2> QED
    BY <1>7, <1>8, Numbers
<1>10. Good(h[1..n], n)
  BY <1>1, <1>9
<1> QED
  BY <1>1, <1>4, <1>10 DEF t

-----------------------------------------------------------------------------
(* Methods of the connection                                               *)

Base(k, u) == Wire(k, u) /\ (\A c \in Cursors : Rows(u[c])) /\ Later(k)

\* What a method of the connection leaves of all but its settings and writes.
Leaves(s, t) == t \in State /\ t.cur = s.cur /\ t.ret = s.ret /\ Base(t.conn, t.cur)

\* A command whose effect on the connection is k.
LEMMA Commands ==
  ASSUME NEW s \in State, Base(s.conn, s.cur), NEW k \in ConnType,
         k.status = s.conn.status, k.set = s.conn.set, k.read = s.conn.read, k.more = s.conn.more,
         Idle(s.conn)
  PROVE  LET t == [s EXCEPT !.conn = [k EXCEPT !.diag = None]] IN
         Leaves(s, t) /\ SameData(k, t.conn) /\ t.raised = s.raised
<1> DEFINE l == [k EXCEPT !.diag = None]
           t == [s EXCEPT !.conn = l]
<1>1. /\ l \in ConnType /\ l.status = k.status /\ l.set = k.set /\ l.read = k.read /\ l.more = k.more
      /\ SameData(k, l)
  BY DEF ConnType, SameData
<1> HIDE DEF l
<1>2. t \in State /\ t.conn = l /\ t.cur = s.cur /\ t.ret = s.ret /\ t.raised = s.raised
  BY <1>1, NewConn
<1> HIDE DEF t
<1>3. Base(t.conn, t.cur)
  <2>1. Wire(t.conn, t.cur)
    BY <1>1, <1>2 DEF Base, Wire
  <2>2. Later(t.conn)
    BY <1>1, <1>2 DEF Later, Idle
  <2> QED
    BY <1>2, <2>1, <2>2 DEF Base
<1> QED
  BY <1>1, <1>2, <1>3 DEF Leaves, t, l

LEMMA Committed ==
  ASSUME NEW k \in ConnType
  PROVE  LET l == Commit(k) IN
         /\ l \in ConnType /\ l.status = k.status /\ l.set = k.set /\ l.read = k.read /\ l.more = k.more
         /\ l.stored = k.stored \cup k.pending /\ l.pending = {} /\ ~l.begun /\ l.autocommit = k.autocommit
         /\ l.asked = k.asked /\ l.written = k.written
         /\ l.charset = k.charset /\ l.string_decoder = k.string_decoder /\ l.unicode_literal = k.unicode_literal
<1> DEFINE l == Commit(k)
<1>1. /\ l.status = k.status /\ l.set = k.set /\ l.read = k.read /\ l.more = k.more
      /\ l.stored = k.stored \cup k.pending /\ l.pending = {} /\ l.begun = FALSE /\ l.autocommit = k.autocommit
      /\ l.asked = k.asked /\ l.written = k.written
      /\ l.charset = k.charset /\ l.string_decoder = k.string_decoder /\ l.unicode_literal = k.unicode_literal
      /\ l = [k EXCEPT !.stored = k.stored \cup k.pending, !.pending = {}, !.begun = FALSE]
  BY DEF Commit, ConnType
<1>2. (k.stored \cup k.pending) \in SUBSET Pairs
  BY DEF ConnType
<1>3. l \in ConnType
  BY <1>1, <1>2 DEF ConnType
<1> QED
  BY <1>1, <1>3

\* What is stored by COMMIT was written, and by no block that failed.
LEMMA CommitKeeps ==
  ASSUME NEW k \in ConnType, Written(k), NEW e, Transaction(k, None, e), NEW l,
         l.stored = k.stored \cup k.pending, l.pending = {}, l.written = k.written, l.asked = k.asked
  PROVE  Written(l) /\ Transaction(l, None, e)
BY DEF Written, Transaction

LEMMA AutocommitLeaves ==
  ASSUME NEW s \in State, ~s.raised, Base(s.conn, s.cur), InSync(s.conn), Written(s.conn),
         NEW e, Transaction(s.conn, None, e), NEW on \in BOOLEAN
  PROVE  LET t == autocommit(s, on) IN
         Leaves(s, t) /\ InSync(t.conn) /\ Written(t.conn) /\ Transaction(t.conn, None, e)
<1> DEFINE t == autocommit(s, on)
           b == IF on THEN Commit(s.conn) ELSE s.conn
           k == [b EXCEPT !.autocommit = on]
           u == [s EXCEPT !.conn = [k EXCEPT !.diag = None]]
<1>1. s.conn \in ConnType
  BY StateFields
<1>2. t = s \/ t = Raise(s) \/ (Idle(s.conn) /\ t = u)
  BY DEF autocommit, Command
<1>3. CASE t = s
  BY <1>3 DEF Leaves
<1>4. CASE t = Raise(s)
  BY <1>4, Raised DEF Leaves
<1>5. CASE Idle(s.conn) /\ t = u
  <2>1. /\ b \in ConnType /\ b.status = s.conn.status /\ b.set = s.conn.set /\ b.read = s.conn.read /\ b.more = s.conn.more
        /\ b.asked = s.conn.asked /\ b.written = s.conn.written /\ b.charset = s.conn.charset
        /\ b.string_decoder = s.conn.string_decoder /\ b.unicode_literal = s.conn.unicode_literal
    BY <1>1, Committed
  <2>2. Written(b) /\ Transaction(b, None, e)
    <3>1. CASE on
      BY <1>1, <3>1, Committed, CommitKeeps
    <3>2. CASE ~on
      BY <3>2
    <3> QED
      BY <3>1, <3>2
  <2> HIDE DEF b
  <2>3. /\ k \in ConnType /\ k.status = b.status /\ k.set = b.set /\ k.read = b.read /\ k.more = b.more
        /\ k.asked = b.asked /\ k.written = b.written /\ k.charset = b.charset
        /\ k.string_decoder = b.string_decoder /\ k.unicode_literal = b.unicode_literal
        /\ k.stored = b.stored /\ k.pending = b.pending
    BY <2>1 DEF ConnType
  <2> HIDE DEF k
  <2>4. Leaves(s, u) /\ SameData(k, u.conn)
    BY <1>5, <2>1, <2>3, Commands
  <2> HIDE DEF u, t
  <2>5. InSync(u.conn)
    BY <2>1, <2>3, <2>4 DEF InSync, SameData
  <2>6. Written(u.conn)
    BY <2>2, <2>3, <2>4 DEF Written, SameData
  <2>7. Transaction(u.conn, None, e)
    BY <2>2, <2>3, <2>4 DEF Transaction, SameData
  <2> QED
    BY <1>5, <2>4, <2>5, <2>6, <2>7 DEF t
<1> QED
  BY <1>2, <1>3, <1>4, <1>5

\* BEGIN commits what was written before.
LEMMA BeginLeaves ==
  ASSUME NEW s \in State, ~s.raised, Base(s.conn, s.cur), InSync(s.conn), Written(s.conn),
         NEW e, Transaction(s.conn, None, e)
  PROVE  LET t == begin(s) IN
         /\ Leaves(s, t) /\ InSync(t.conn) /\ Written(t.conn) /\ Transaction(t.conn, None, e)
         /\ t.conn.asked = s.conn.asked /\ (~t.raised => t.conn.begun)
<1> DEFINE t == begin(s)
           b == Commit(s.conn)
           k == [b EXCEPT !.begun = TRUE]
           u == [s EXCEPT !.conn = [k EXCEPT !.diag = None]]
<1>1. s.conn \in ConnType
  BY StateFields
<1>2. t = IF Idle(s.conn) THEN u ELSE Raise(s)
  BY DEF begin, Command, Begin
<1>3. CASE ~Idle(s.conn)
  BY <1>2, <1>3, Raised DEF Leaves
<1>4. CASE Idle(s.conn)
  <2>1. /\ b \in ConnType /\ b.status = s.conn.status /\ b.set = s.conn.set /\ b.read = s.conn.read /\ b.more = s.conn.more
        /\ b.asked = s.conn.asked /\ b.written = s.conn.written /\ b.charset = s.conn.charset
        /\ b.string_decoder = s.conn.string_decoder /\ b.unicode_literal = s.conn.unicode_literal
    BY <1>1, Committed
  <2>2. Written(b) /\ Transaction(b, None, e)
    BY <1>1, Committed, CommitKeeps
  <2> HIDE DEF b
  <2>3. /\ k \in ConnType /\ k.status = b.status /\ k.set = b.set /\ k.read = b.read /\ k.more = b.more
        /\ k.asked = b.asked /\ k.written = b.written /\ k.charset = b.charset
        /\ k.string_decoder = b.string_decoder /\ k.unicode_literal = b.unicode_literal
        /\ k.stored = b.stored /\ k.pending = b.pending /\ k.begun
    BY <2>1 DEF ConnType
  <2> HIDE DEF k
  <2>4. Leaves(s, u) /\ SameData(k, u.conn)
    BY <1>4, <2>1, <2>3, Commands
  <2> HIDE DEF u, t
  <2>5. InSync(u.conn)
    BY <2>1, <2>3, <2>4 DEF InSync, SameData
  <2>6. Written(u.conn)
    BY <2>2, <2>3, <2>4 DEF Written, SameData
  <2>7. Transaction(u.conn, None, e)
    BY <2>2, <2>3, <2>4 DEF Transaction, SameData
  <2>8. u.conn.asked = s.conn.asked /\ u.conn.begun
    BY <2>1, <2>3, <2>4 DEF SameData
  <2> QED
    BY <1>2, <1>4, <2>4, <2>5, <2>6, <2>7, <2>8 DEF t
<1> QED
  BY <1>3, <1>4

\* `with connection', before the block: a transaction is open.
LEMMA EnterLeaves ==
  ASSUME NEW s \in State, ~s.raised, Base(s.conn, s.cur), InSync(s.conn), Written(s.conn),
         NEW e, Transaction(s.conn, None, e), s.conn.asked \in Nat
  PROVE  LET t == enter(s) IN
         /\ Leaves(s, t) /\ InSync(t.conn) /\ Written(t.conn)
         /\ Transaction(t.conn, IF t.raised THEN None ELSE s.conn.asked, e)
<1> DEFINE t == enter(s)
           g == begin(s)
<1>1. t = IF s.conn.autocommit THEN g ELSE s
  BY DEF enter, begin
<1>2. /\ Leaves(s, g) /\ InSync(g.conn) /\ Written(g.conn) /\ Transaction(g.conn, None, e)
      /\ g.conn.asked = s.conn.asked /\ (~g.raised => g.conn.begun)
  BY BeginLeaves
<1> HIDE DEF g, t
<1>3. Leaves(s, t) /\ InSync(t.conn) /\ Written(t.conn) /\ Transaction(t.conn, None, e) /\ t.conn.asked = s.conn.asked
  BY <1>1, <1>2 DEF Leaves
<1>4. ~t.raised => (t.conn.autocommit => t.conn.begun)
  BY <1>1, <1>2
<1>5. Transaction(t.conn, IF t.raised THEN None ELSE s.conn.asked, e)
  <2>1. CASE t.raised
    BY <1>3, <2>1
  <2>2. CASE ~t.raised
    <3>1. ASSUME NEW w \in t.conn.written PROVE ~(w[1] > s.conn.asked)
      <4>1. w[1] <= s.conn.asked
        BY <1>3 DEF Written
      <4>2. w \in Pairs
        <5>1. t.conn \in ConnType
          BY <1>3, StateFields DEF Leaves
        <5> QED
          BY <5>1 DEF ConnType
      <4>3. w[1] \in Nat
        BY <4>2 DEF Pairs
      <4> QED
        BY <4>1, <4>3
    <3>2. /\ e.writes \subseteq t.conn.written
          /\ e.exc  => e.writes \cap t.conn.stored = {} /\ e.writes \cap t.conn.pending = {}
          /\ ~e.exc => e.writes \subseteq t.conn.stored
      BY <1>3 DEF Transaction
    <3>3. s.conn.asked <= t.conn.asked
      BY <1>3
    <3>4. Transaction(t.conn, s.conn.asked, e)
      BY <1>4, <2>2, <3>1, <3>2, <3>3 DEF Transaction
    <3> QED
      BY <2>2, <3>4
  <2> QED
    BY <2>1, <2>2
<1> QED
  BY <1>3, <1>5 DEF t

\* After it: what it wrote is stored, or nothing of it.
LEMMA ExitLeaves ==
  ASSUME NEW s \in State, ~s.raised, Base(s.conn, s.cur), InSync(s.conn), Written(s.conn),
         NEW b, b # None, NEW e, Transaction(s.conn, b, e), NEW exc \in BOOLEAN
  PROVE  LET t == exit(s, exc)
             f == IF t.raised THEN e ELSE [exc |-> exc, writes |-> {w \in s.conn.written : w[1] > b}] IN
         Leaves(s, t) /\ InSync(t.conn) /\ Written(t.conn) /\ Transaction(t.conn, None, f)
<1> DEFINE t == exit(s, exc)
           k == IF exc THEN Rollback(s.conn) ELSE Commit(s.conn)
           u == [s EXCEPT !.conn = [k EXCEPT !.diag = None]]
           f == [exc |-> exc, writes |-> {w \in s.conn.written : w[1] > b}]
<1>1. s.conn \in ConnType
  BY StateFields
<1>2. t = IF Idle(s.conn) THEN u ELSE Raise(s)
  BY DEF exit, Command
<1>3. CASE ~Idle(s.conn)
  <2>1. /\ Raise(s) \in State /\ Raise(s).conn = s.conn /\ Raise(s).cur = s.cur /\ Raise(s).ret = s.ret
        /\ Raise(s).raised
    BY Raised
  <2>2. Transaction(s.conn, None, e)
    BY DEF Transaction
  <2> QED
    BY <1>2, <1>3, <2>1, <2>2 DEF Leaves
<1>4. CASE Idle(s.conn)
  <2>1. /\ k \in ConnType /\ k.status = s.conn.status /\ k.set = s.conn.set /\ k.read = s.conn.read /\ k.more = s.conn.more
        /\ k.asked = s.conn.asked /\ k.written = s.conn.written /\ k.charset = s.conn.charset
        /\ k.string_decoder = s.conn.string_decoder /\ k.unicode_literal = s.conn.unicode_literal
        /\ k.pending = {} /\ k.stored = IF exc THEN s.conn.stored ELSE s.conn.stored \cup s.conn.pending
    <3>1. CASE exc
      BY <1>1, <3>1 DEF Rollback, ConnType
    <3>2. CASE ~exc
      BY <1>1, <3>2, Committed
    <3> QED
      BY <3>1, <3>2
  <2> HIDE DEF k
  <2>2. Leaves(s, u) /\ SameData(k, u.conn) /\ ~u.raised
    BY <1>4, <2>1, Commands
  <2> HIDE DEF u, t
  <2>3. InSync(u.conn)
    BY <2>1, <2>2 DEF InSync, SameData
  <2>4. Written(u.conn)
    BY <2>1, <2>2 DEF Written, SameData
  <2>5. Transaction(u.conn, None, f)
    <3>1. f.exc = exc /\ f.writes = {w \in s.conn.written : w[1] > b}
      OBVIOUS
    <3>2. \A w \in f.writes : w \in s.conn.written /\ w \in s.conn.pending /\ w \notin s.conn.stored
      BY <3>1 DEF Transaction
    <3> HIDE DEF f
    <3>3. u.conn.written = s.conn.written /\ u.conn.pending = {} /\ u.conn.stored = k.stored
      BY <2>1, <2>2 DEF SameData
    <3> QED
      BY <2>1, <3>1, <3>2, <3>3 DEF Transaction
  <2> QED
    BY <1>2, <1>4, <2>2, <2>3, <2>4, <2>5 DEF t
<1> QED
  BY <1>3, <1>4

LEMMA SqlModeLeaves ==
  ASSUME NEW s \in State, ~s.raised, Base(s.conn, s.cur)
  PROVE  LET t == set_sql_mode(s) IN Leaves(s, t) /\ SameData(s.conn, t.conn)
<1> DEFINE t == set_sql_mode(s)
           u == [s EXCEPT !.conn = [s.conn EXCEPT !.diag = None]]
<1>1. s.conn \in ConnType
  BY StateFields
<1>2. t = IF Idle(s.conn) THEN u ELSE Raise(s)
  BY DEF set_sql_mode, Command
<1>3. CASE ~Idle(s.conn)
  BY <1>2, <1>3, Raised DEF Leaves, SameData
<1>4. CASE Idle(s.conn)
  <2>1. Leaves(s, u) /\ SameData(s.conn, u.conn)
    BY <1>1, <1>4, Commands
  <2> QED
    BY <1>2, <1>4, <2>1
<1> QED
  BY <1>3, <1>4

\* The decoders follow the character set, or neither changes.
LEMMA CharsetLeaves ==
  ASSUME NEW s \in State, ~s.raised, Base(s.conn, s.cur), Written(s.conn),
         NEW b, NEW e, Transaction(s.conn, b, e), NEW charset \in Names
  PROVE  LET t == set_character_set(s, charset) IN
         /\ Leaves(s, t) /\ Written(t.conn) /\ Transaction(t.conn, b, e)
         /\ t.raised => t.conn = s.conn
         /\ ~t.raised => InSync(t.conn)
<1> DEFINE t == set_character_set(s, charset)
           k == [s.conn EXCEPT !.charset = charset]
           m == [s EXCEPT !.conn = [k EXCEPT !.diag = None]]
           u == IF s.conn.charset = charset THEN s ELSE m
           d == Decode(u, charset)
<1>1. s.conn \in ConnType
  BY StateFields
<1>2. t = Raise(s) \/ ((s.conn.charset = charset \/ Idle(s.conn)) /\ t = d)
  <2>1. s.conn.charset = charset => t = Decode(s, charset)
    BY DEF set_character_set, Then
  <2>2. Raise(s).raised
    BY Raised
  <2>3. ~m.raised
    BY DEF State
  <2>4. s.conn.charset # charset => t = Raise(s) \/ (Idle(s.conn) /\ t = Decode(m, charset))
    BY <2>2, <2>3 DEF set_character_set, Then, SetNames, Command
  <2> QED
    BY <2>1, <2>4
<1>3. CASE t = Raise(s)
  BY <1>3, Raised DEF Leaves
<1>4. CASE (s.conn.charset = charset \/ Idle(s.conn)) /\ t = d
  <2>1. /\ k \in ConnType /\ k.status = s.conn.status /\ k.set = s.conn.set /\ k.read = s.conn.read /\ k.more = s.conn.more
        /\ k.asked = s.conn.asked /\ k.written = s.conn.written /\ k.charset = charset
        /\ k.stored = s.conn.stored /\ k.pending = s.conn.pending
        /\ k.autocommit = s.conn.autocommit /\ k.begun = s.conn.begun
    BY <1>1 DEF ConnType
  <2>2. /\ Leaves(s, u) /\ ~u.raised
        /\ u.conn.asked = s.conn.asked /\ u.conn.written = s.conn.written /\ u.conn.charset = charset
        /\ u.conn.stored = s.conn.stored /\ u.conn.pending = s.conn.pending
        /\ u.conn.autocommit = s.conn.autocommit /\ u.conn.begun = s.conn.begun
    <3>1. CASE s.conn.charset = charset
      BY <3>1 DEF Leaves
    <3>2. CASE s.conn.charset # charset
      <4> HIDE DEF k
      <4>1. Leaves(s, m) /\ SameData(k, m.conn) /\ m.raised = s.raised
        BY <1>4, <2>1, <3>2, Commands
      <4> HIDE DEF m
      <4> QED
        BY <2>1, <3>2, <4>1 DEF SameData
    <3> QED
      BY <3>1, <3>2
  <2> HIDE DEF u, k, m, t
  <2>3. u \in State /\ u.conn \in ConnType
    BY <2>2, StateFields DEF Leaves
  <2> DEFINE py == py_charset(charset)
             l == [u.conn EXCEPT !.string_decoder = py, !.unicode_literal = py]
  <2>4. py \in Names \cup {"utf8", None}
    BY DEF py_charset
  <2>5. d = [u EXCEPT !.conn = l]
    BY <2>3 DEF Decode, State, ConnType
  <2> HIDE DEF py
  <2>6. /\ l \in ConnType /\ l.string_decoder = py /\ l.unicode_literal = py
        /\ l.status = u.conn.status /\ l.set = u.conn.set /\ l.read = u.conn.read /\ l.more = u.conn.more
        /\ l.diag = u.conn.diag /\ l.asked = u.conn.asked /\ l.written = u.conn.written /\ l.charset = u.conn.charset
        /\ l.stored = u.conn.stored /\ l.pending = u.conn.pending
        /\ l.autocommit = u.conn.autocommit /\ l.begun = u.conn.begun
    BY <2>3, <2>4 DEF ConnType
  <2> HIDE DEF l, d
  <2>7. d \in State /\ d.conn = l /\ d.cur = u.cur /\ d.ret = u.ret /\ d.raised = u.raised
    BY <2>3, <2>5, <2>6, NewConn
  <2>8. Wire(d.conn, d.cur)
    BY <2>2, <2>6, <2>7 DEF Leaves, Base, Wire
  <2>9. Later(d.conn)
    BY <2>2, <2>6, <2>7 DEF Leaves, Base, Later
  <2>10. Leaves(s, d)
    BY <2>2, <2>7, <2>8, <2>9 DEF Leaves, Base
  <2>11. InSync(d.conn)
    BY <2>2, <2>6, <2>7 DEF InSync, py
  <2>12. Written(d.conn)
    BY <2>2, <2>6, <2>7 DEF Written
  <2>13. Transaction(d.conn, b, e)
    BY <2>2, <2>6, <2>7 DEF Transaction
  <2> QED
    BY <1>4, <2>2, <2>7, <2>10, <2>11, <2>12, <2>13 DEF t
<1> QED
  BY <1>2, <1>3, <1>4

-----------------------------------------------------------------------------
(* The calls                                                               *)

PerCall == CloseFrees /\ CloseRaises /\ WarningsShown /\ FetchedAll
Inv     == IInv /\ PerCall

Entry(a) == Owned(a) /\ (a.state = "none" => a = NoCursor)

\* What PerCall says of the call `name' on cursor c.
Facts(name, c, s) ==
  /\ name = "close" => IF s.raised THEN Reason(s.conn, s.cur, c) ELSE Idle(s.conn)
  /\ name \in {"execute", "executemany", "insert", "callproc", "nextset"} /\ ~s.raised /\ ~s.end
       => Shown(s, s.cur[c])
  /\ name = "fetch" /\ ~s.raised /\ s.ret = <<>> => Complete(s.cur[c])

LEMMA CallPreserves ==
  ASSUME client \in Clients, NEW name, NEW c \in Cursors \cup {None}, NEW s \in State, Call(name, c, s),
         Base(s.conn, s.cur), InSync(s.conn), Written(s.conn), Transaction(s.conn, block', ended'),
         \A d \in Cursors : Entry(s.cur[d]),
         ~s.raised /\ s.ret # <<>> => c \in Cursors /\ Handed(s.ret, s.cur[c]),
         Facts(name, c, s)
  PROVE  Inv'
<1>1. /\ client' = client /\ conn' = s.conn /\ cur' = s.cur
      /\ last' = [call |-> name, by |-> c, ret |-> IF s.raised THEN <<>> ELSE s.ret,
                  raised |-> s.raised, end |-> s.end, shown |-> s.shown]
  BY DEF Call
<1>2. SetType' = SetType
  BY <1>1 DEF SetType
<1>3. ConnType' = ConnType /\ CursType' = CursType
  BY <1>1, <1>2 DEF ConnType, CursType, CurType, Names, Pairs, Triples
<1>4. Wire(conn, cur)'
  BY <1>1, <1>2 DEF Base, Wire
<1>5. \A d \in Cursors : Rows(cur[d])'
  BY <1>1, <1>2 DEF Base, Rows, Full, Told, RowsIn, RowsOf
<1>6. Later(conn)'
  BY <1>1 DEF Base, Later, LastWarns
<1>7. Database(conn)'
  BY <1>1 DEF Database, InSync, Written, Transaction, py_charset
<1>8. Rest(conn, cur)'
  BY <1>4, <1>5, <1>6, <1>7 DEF Rest
<1>9. \A d \in Cursors : Owned(cur[d])' /\ (cur'[d].state = "none" => cur'[d] = NoCursor)
  BY <1>1, <1>2 DEF Entry, Owned, Belongs, At, AtEnd
<1>10. Returned'
  <2>1. CASE s.raised
    BY <1>1, <2>1 DEF Returned
  <2>2. CASE ~s.raised
    BY <1>1, <1>2, <2>2 DEF Returned, Handed, RowsOf
  <2> QED
    BY <2>1, <2>2
<1>11. conn' \in ConnType' /\ cur' \in CursType'
  BY <1>1, <1>3, StateFields
<1>12. IInv'
  BY <1>1, <1>8, <1>9, <1>10, <1>11 DEF IInv
<1>13. CloseFrees'
  BY <1>1 DEF CloseFrees, Facts, Idle
<1>14. CloseRaises'
  BY <1>1 DEF CloseRaises, Facts, Reason, Idle
<1>15. WarningsShown'
  BY <1>1, <1>2 DEF WarningsShown, Facts, Shown
<1>16. FetchedAll'
  BY <1>1 DEF FetchedAll, Facts, Complete, RowsIn
<1> QED
  BY <1>12, <1>13, <1>14, <1>15, <1>16 DEF Inv, PerCall

LEMMA AtRest ==
  ASSUME IInv
  PROVE  /\ client \in Clients /\ Now \in State /\ Now.conn = conn /\ Now.cur = cur /\ Now.ret = <<>>
         /\ ~Now.raised /\ ~Now.end /\ Rest(conn, cur) /\ Base(conn, cur)
         /\ InSync(conn) /\ Written(conn) /\ Transaction(conn, block, ended)
         /\ \A c \in Cursors : Entry(cur[c])
<1>1. <<>> \in Seq(Triples)
  OBVIOUS
<1>2. Now \in State
  BY <1>1 DEF Now, State, IInv
<1> QED
  BY <1>2 DEF Now, IInv, Entry, Rest, Base, Database

LEMMA CursorPreserves ==
  ASSUME IInv, NEW name, NEW c \in Cursors, NEW s \in State, CursorCall(name, c, s),
         Rest(s.conn, s.cur), Entry(s.cur[c]), \A d \in Cursors \ {c} : s.cur[d] = cur[d],
         ~s.raised /\ s.ret # <<>> => Handed(s.ret, s.cur[c]),
         Facts(name, c, s)
  PROVE  Inv'
<1>1. client \in Clients /\ \A d \in Cursors : Entry(cur[d])
  BY AtRest
<1>2. \A d \in Cursors : Entry(s.cur[d])
  <2> SUFFICES ASSUME NEW d \in Cursors PROVE Entry(s.cur[d])
    OBVIOUS
  <2> QED
    BY <1>1
<1>3. Base(s.conn, s.cur) /\ InSync(s.conn) /\ Written(s.conn) /\ Transaction(s.conn, block, ended)
  BY DEF Rest, Base, Database
<1>4. Call(name, c, s) /\ block' = block /\ ended' = ended
  BY DEF CursorCall
<1>5. Transaction(s.conn, block', ended')
  BY <1>3, <1>4
<1> QED
  BY <1>1, <1>2, <1>3, <1>4, <1>5, CallPreserves

\* A connection's method that leaves the cursors alone.
LEMMA ConnectionPreserves ==
  ASSUME IInv, NEW name, NEW s, Call(name, None, s), name \in {"autocommit", "begin", "set_character_set",
         "set_sql_mode", "enter", "exit"},
         Leaves(Now, s), InSync(s.conn), Written(s.conn), Transaction(s.conn, block', ended')
  PROVE  Inv'
<1>1. client \in Clients /\ Now.cur = cur /\ Now.ret = <<>> /\ \A d \in Cursors : Entry(cur[d])
  BY AtRest
<1>2. s \in State /\ s.cur = cur /\ s.ret = <<>> /\ Base(s.conn, s.cur)
  BY <1>1 DEF Leaves
<1>3. Facts(name, None, s)
  BY DEF Facts
<1>4. \A d \in Cursors : Entry(s.cur[d])
  BY <1>1, <1>2
<1> QED
  BY <1>1, <1>2, <1>3, <1>4, CallPreserves

LEMMA Programs ==
  ASSUME client \in Clients
  PROVE  /\ \A script \in client.scripts : script \in Seq(Statement) /\ script # <<>>
         /\ \A batch \in client.batches :
              batch \in Seq(Seq(Statement) \ {<<>>}) /\ batch # <<>> /\ Len(batch) \in Nat
         /\ client.queries \in Nat
<1>1. /\ client.scripts \subseteq Seq(Statement) \ {<<>>} /\ client.batches \subseteq Seq(client.scripts) \ {<<>>}
      /\ {client.cursors, client.queries} \subseteq Nat
  BY ClientsTyped
<1>2. Seq(client.scripts) \subseteq Seq(Seq(Statement) \ {<<>>})
  BY <1>1, SeqMonotonic
<1>3. \A batch \in client.batches : batch \in Seq(Seq(Statement) \ {<<>>})
  BY <1>1, <1>2
<1>4. \A batch \in client.batches : Len(batch) \in Nat
  BY <1>3, LenProperties
<1> QED
  BY <1>1, <1>3, <1>4

\* Cursor c is replaced by one without rows; a result half read is freed.
Freed(k, u, c) == IF u[c].reading THEN [k EXCEPT !.status = "ready"] ELSE k

LEMMA Replaced ==
  ASSUME NEW k \in ConnType, NEW u \in CursType, Rest(k, u), NEW c \in Cursors, NEW b \in CurType,
         ~b.reading, b.rows = <<>>, b.rownumber = 0, b.set = None, b.got = <<>>
  PROVE  LET l == Freed(k, u, c)
             v == [u EXCEPT ![c] = b] IN
         /\ l \in ConnType /\ v \in CursType /\ v[c] = b /\ \A d \in Cursors \ {c} : v[d] = u[d]
         /\ Rest(l, v)
<1> DEFINE l == Freed(k, u, c)
           v == [u EXCEPT ![c] = b]
<1>1. v \in CursType /\ v[c] = b /\ \A d \in Cursors \ {c} : v[d] = u[d]
  BY NewCursor
<1>2. /\ l \in ConnType /\ l.set = k.set /\ l.read = k.read /\ l.more = k.more /\ l.diag = k.diag
      /\ l.status = (IF u[c].reading THEN "ready" ELSE k.status) /\ SameData(k, l)
  BY DEF Freed, ConnType, SameData
<1> HIDE DEF l, v
<1>3. Rows(b)
  <2>1. Len(<<>>) = 0
    OBVIOUS
  <2>2. Full(b) /\ Told(b)
    BY <2>1, SetNotNone, NoRows DEF Full, Told
  <2> QED
    BY <2>2 DEF Rows
<1>4. \A d \in Cursors : Rows(v[d])
  BY <1>1, <1>3 DEF Rest
<1>5. Later(l) /\ Database(l)
  BY <1>2, DataKept DEF Rest, Later
<1>6. Wire(l, v)
  <2>1. Wire(k, u)
    BY DEF Rest
  <2>2. CASE u[c].reading
    <3>1. \A d \in Cursors : ~v[d].reading
      BY <1>1, <2>1, <2>2 DEF Wire
    <3> QED
      BY <1>2, <2>1, <2>2, <3>1 DEF Wire
  <2>3. CASE ~u[c].reading
    <3>1. \A d \in Cursors : v[d].reading => d # c /\ v[d] = u[d]
      BY <1>1
    <3>2. \A d \in Cursors : u[d].reading => v[d] = u[d]
      BY <1>1, <2>3
    <3> QED
      BY <1>2, <2>1, <2>3, <3>1, <3>2 DEF Wire
  <2> QED
    BY <2>2, <2>3
<1>7. Rest(l, v)
  BY <1>4, <1>5, <1>6 DEF Rest
<1> QED
  BY <1>1, <1>2, <1>7 DEF l, v

LEMMA NewCursors ==
  /\ client \in Clients => NoCursor \in CurType /\ \A stream \in BOOLEAN : cursor(stream) \in CurType
  /\ Entry(NoCursor) /\ ~NoCursor.reading /\ NoCursor.rows = <<>> /\ NoCursor.rownumber = 0 /\ NoCursor.set = None
  /\ NoCursor.got = <<>>
  /\ \A stream \in BOOLEAN :
       LET b == cursor(stream) IN
       Entry(b) /\ ~b.reading /\ b.rows = <<>> /\ b.rownumber = 0 /\ b.set = None /\ b.got = <<>>
<1>1. ASSUME client \in Clients PROVE 0 \in 0..client.queries /\ <<>> \in Seq(Triples)
  BY <1>1, Programs
<1>2. ASSUME client \in Clients PROVE NoCursor \in CurType
  BY <1>1, <1>2 DEF NoCursor, CurType
<1>3. ASSUME client \in Clients, NEW stream \in BOOLEAN PROVE cursor(stream) \in CurType
  BY <1>1, <1>3 DEF NoCursor, CurType, cursor
<1>4. Len(<<>>) = 0
  OBVIOUS
<1>5. /\ Entry(NoCursor) /\ ~NoCursor.reading /\ NoCursor.rows = <<>> /\ NoCursor.rownumber = 0
      /\ NoCursor.set = None /\ NoCursor.got = <<>>
  BY <1>4 DEF NoCursor, Entry, Owned, Belongs, At
<1>6. ASSUME NEW stream \in BOOLEAN
      PROVE  LET b == cursor(stream) IN
             Entry(b) /\ ~b.reading /\ b.rows = <<>> /\ b.rownumber = 0 /\ b.set = None /\ b.got = <<>>
  BY <1>4 DEF NoCursor, cursor, Entry, Owned, Belongs, At
<1> QED
  BY <1>2, <1>3, <1>5, <1>6

LEMMA OpenPreserves ==
  ASSUME Inv, NEW c \in Cursors, Open(c)
  PROVE  Inv'
<1>1. IInv /\ cur[c] = NoCursor
  BY DEF Inv, IInv, Open
<1>2. PICK stream \in BOOLEAN : CursorCall("cursor", c, [Now EXCEPT !.cur[c] = cursor(stream)])
  BY Zenon DEF Open
<1> DEFINE b == cursor(stream)
           s == [Now EXCEPT !.cur[c] = b]
           v == [cur EXCEPT ![c] = b]
<1>3. /\ b \in CurType /\ Entry(b) /\ ~b.reading /\ b.rows = <<>> /\ b.rownumber = 0 /\ b.set = None
      /\ b.got = <<>>
      /\ ~cur[c].reading /\ conn \in ConnType /\ cur \in CursType /\ Rest(conn, cur)
  BY <1>1, NewCursors, AtRest DEF IInv
<1>4. CursorCall("cursor", c, s)
  BY <1>2, Zenon
<1> HIDE DEF b
<1>5. v \in CursType /\ v[c] = b /\ (\A d \in Cursors \ {c} : v[d] = cur[d]) /\ Rest(conn, v)
  <2>1. Freed(conn, cur, c) = conn
    BY <1>3 DEF Freed
  <2> QED
    BY <1>3, <2>1, Replaced
<1>6. /\ s.conn = conn /\ s.cur = v /\ s.ret = <<>> /\ ~s.raised
      /\ s = [conn |-> conn, cur |-> v, ret |-> <<>>, raised |-> FALSE, end |-> FALSE, shown |-> None]
  <2>1. Now.cur = cur
    BY DEF Now
  <2>2. s = [Now EXCEPT !.cur = v]
    BY <2>1
  <2> HIDE DEF s, v
  <2> QED
    BY <2>2 DEF Now
<1> HIDE DEF v, s
<1>7. s \in State
  <2>1. <<>> \in Seq(Triples)
    OBVIOUS
  <2> QED
    BY <1>3, <1>5, <1>6, <2>1 DEF State
<1>8. Facts("cursor", c, s)
  BY DEF Facts
<1> QED
  BY <1>1, <1>3, <1>4, <1>5, <1>6, <1>7, <1>8, CursorPreserves

LEMMA ExecutePreserves ==
  ASSUME Inv, NEW c \in Cursors, Execute(c)
  PROVE  Inv'
<1>1. PICK script \in client.scripts : CursorCall("execute", c, execute(Now, c, script))
  BY Zenon DEF Execute
<1>2. IInv /\ cur[c].state # "none" /\ conn.asked < client.queries
  BY DEF Inv, Execute
<1>3. /\ client \in Clients /\ Now \in State /\ Now.conn = conn /\ Now.cur = cur /\ Now.ret = <<>>
      /\ ~Now.raised /\ ~Now.end /\ Rest(conn, cur) /\ Owned(cur[c])
  BY <1>2, AtRest DEF Entry
<1>4. script \in Seq(Statement) /\ script # <<>>
  BY <1>3, Programs
<1> DEFINE s == execute(Now, c, script)
<1>5. Executes(Now, s, c)
  BY <1>2, <1>3, <1>4, ExecuteLeaves
<1> HIDE DEF s
<1>6. /\ s \in State /\ Rest(s.conn, s.cur) /\ Entry(s.cur[c]) /\ (\A d \in Cursors \ {c} : s.cur[d] = cur[d])
      /\ s.ret = <<>> /\ Facts("execute", c, s)
  BY <1>2, <1>3, <1>5 DEF Executes, Queries, Others, Entry, Facts
<1>7. CursorCall("execute", c, s)
  BY <1>1 DEF s
<1> QED
  BY <1>2, <1>6, <1>7, CursorPreserves

LEMMA InsertPreserves ==
  ASSUME Inv, NEW c \in Cursors, ExecuteInsert(c)
  PROVE  Inv'
<1>1. PICK script \in client.scripts :
        /\ Len(script) = 1 /\ Head(script).kind # "rows"
        /\ CursorCall("insert", c, InsertMany(Now, c, Head(script)))
  BY Zenon DEF ExecuteInsert
<1>2. IInv /\ cur[c].state # "none" /\ conn.asked < client.queries
  BY DEF Inv, ExecuteInsert
<1>3. /\ client \in Clients /\ Now \in State /\ Now.conn = conn /\ Now.cur = cur /\ Now.ret = <<>>
      /\ ~Now.raised /\ ~Now.end /\ Rest(conn, cur) /\ Owned(cur[c])
  BY <1>2, AtRest DEF Entry
<1>4. Head(script) \in Statement
  BY <1>3, Programs, HeadTailProperties
<1> DEFINE s == InsertMany(Now, c, Head(script))
<1>5. Executes(Now, s, c)
  BY <1>1, <1>2, <1>3, <1>4, InsertLeaves
<1> HIDE DEF s
<1>6. /\ s \in State /\ Rest(s.conn, s.cur) /\ Entry(s.cur[c]) /\ (\A d \in Cursors \ {c} : s.cur[d] = cur[d])
      /\ s.ret = <<>> /\ Facts("insert", c, s)
  BY <1>2, <1>3, <1>5 DEF Executes, Queries, Others, Entry, Facts
<1>7. CursorCall("insert", c, s)
  BY <1>1 DEF s
<1> QED
  BY <1>2, <1>6, <1>7, CursorPreserves

LEMMA ExecuteManyPreserves ==
  ASSUME Inv, NEW c \in Cursors, ExecuteMany(c)
  PROVE  Inv'
<1>1. PICK batch \in client.batches :
        /\ conn.asked + Len(batch) <= client.queries
        /\ CursorCall("executemany", c, executemany(Now, c, batch))
  BY Zenon DEF ExecuteMany
<1>2. IInv /\ cur[c].state # "none"
  BY DEF Inv, ExecuteMany
<1>3. /\ client \in Clients /\ Now \in State /\ Now.conn = conn /\ Now.cur = cur /\ Now.ret = <<>>
      /\ ~Now.raised /\ ~Now.end /\ Rest(conn, cur) /\ Owned(cur[c])
  BY <1>2, AtRest DEF Entry
<1>4. batch \in Seq(Seq(Statement) \ {<<>>}) /\ batch # <<>>
  BY <1>3, Programs
<1> DEFINE s == executemany(Now, c, batch)
<1>5. /\ s \in State /\ s.ret = <<>> /\ Others(Now, s, c) /\ Rest(s.conn, s.cur) /\ Owned(s.cur[c])
      /\ ~s.raised => Shown(s, s.cur[c])
  BY <1>1, <1>3, <1>4, ExecuteManyLeaves
<1>6. CursorCall("executemany", c, s)
  BY <1>1
<1> HIDE DEF s
<1>7. Entry(s.cur[c]) /\ (\A d \in Cursors \ {c} : s.cur[d] = cur[d]) /\ Facts("executemany", c, s)
  BY <1>2, <1>3, <1>5 DEF Others, Entry, Facts
<1> QED
  BY <1>2, <1>5, <1>7, <1>6, CursorPreserves

LEMMA CallProcPreserves ==
  ASSUME Inv, NEW c \in Cursors, CallProc(c)
  PROVE  Inv'
<1>1. PICK script \in client.scripts : CursorCall("callproc", c, callproc(Now, c, <<None>>, script))
  BY Zenon DEF CallProc
<1>2. IInv /\ cur[c].state # "none" /\ conn.asked + 1 < client.queries
  BY DEF Inv, CallProc
<1>3. /\ client \in Clients /\ Now \in State /\ Now.conn = conn /\ Now.cur = cur /\ Now.ret = <<>>
      /\ ~Now.raised /\ ~Now.end /\ Rest(conn, cur) /\ Owned(cur[c])
  BY <1>2, AtRest DEF Entry
<1>4. script \in Seq(Statement) /\ script # <<>>
  BY <1>3, Programs
<1> DEFINE s == callproc(Now, c, <<None>>, script)
<1>5. /\ s \in State /\ s.ret = <<>> /\ Others(Now, s, c) /\ Rest(s.conn, s.cur) /\ Owned(s.cur[c])
      /\ ~s.raised => Shown(s, s.cur[c])
  BY <1>2, <1>3, <1>4, CallProcLeaves
<1> HIDE DEF s
<1>6. Entry(s.cur[c]) /\ (\A d \in Cursors \ {c} : s.cur[d] = cur[d]) /\ Facts("callproc", c, s)
  BY <1>2, <1>3, <1>5 DEF Others, Entry, Facts
<1>7. CursorCall("callproc", c, s)
  BY <1>1 DEF s
<1> QED
  BY <1>2, <1>5, <1>6, <1>7, CursorPreserves

LEMMA FetchPreserves ==
  ASSUME Inv, NEW c \in Cursors, Fetch(c)
  PROVE  Inv'
<1>1. PICK size \in 0..2 : CursorCall("fetch", c, Hand(fetch(Now, c, size), c, size))
  BY Zenon DEF Fetch
<1>2. IInv /\ cur[c].state # "none"
  BY DEF Inv, Fetch
<1>3. /\ client \in Clients /\ Now \in State /\ Now.conn = conn /\ Now.cur = cur /\ Now.ret = <<>>
      /\ ~Now.raised /\ ~Now.end /\ Rest(conn, cur) /\ Owned(cur[c]) /\ Entry(cur[c])
  BY <1>2, AtRest DEF Entry
<1> DEFINE u == fetch(Now, c, size)
           s == Hand(u, c, size)
<1>4. size \in Nat
  OBVIOUS
<1>5. IF cur[c].executed = 0 THEN u = Raise(Now) ELSE Fetches(Now, u, c, size)
  BY <1>3, <1>4, FetchLeaves
<1>6. CursorCall("fetch", c, s)
  BY <1>1
<1> HIDE DEF u
<1>7. CASE cur[c].executed = 0
  <2>1. u \in State /\ u.conn = conn /\ u.cur = cur /\ u.raised /\ u.ret = <<>>
    BY <1>3, <1>5, <1>7, Raised
  <2>2. s = [u EXCEPT !.cur = [u.cur EXCEPT ![c] = [u.cur[c] EXCEPT !.skipped = @]]]
    BY <2>1 DEF Hand, State, CursType, CurType, IInv
  <2>3. s = u
    <3>1. u.cur \in CursType /\ u.cur[c] \in CurType
      BY <2>1, StateFields DEF CursType
    <3>2. [u.cur[c] EXCEPT !.skipped = @] = u.cur[c]
      BY <3>1 DEF CurType
    <3>3. [u.cur EXCEPT ![c] = u.cur[c]] = u.cur
      BY <3>1 DEF CursType
    <3>4. [u EXCEPT !.cur = u.cur] = u
      BY <2>1 DEF State
    <3> QED
      BY <2>2, <3>2, <3>3, <3>4
  <2> HIDE DEF s
  <2>4. Facts("fetch", c, s)
    BY <2>1, <2>3 DEF Facts
  <2> QED
    BY <1>2, <1>3, <1>6, <2>1, <2>3, <2>4, CursorPreserves
<1>8. CASE cur[c].executed # 0
  <2>1. Fetches(Now, u, c, size)
    BY <1>5, <1>8
  <2>2. /\ s \in State /\ Rest(s.conn, s.cur) /\ Owned(s.cur[c]) /\ Handed(s.ret, s.cur[c])
        /\ (\A d \in Cursors \ {c} : s.cur[d] = cur[d]) /\ s.cur[c].state = cur[c].state
        /\ s.ret = <<>> => Complete(s.cur[c])
    BY <1>3, <1>4, <1>8, <2>1, HandLeaves
  <2> HIDE DEF s
  <2>3. Entry(s.cur[c]) /\ Facts("fetch", c, s)
    BY <1>2, <2>2 DEF Entry, Facts
  <2> QED
    BY <1>2, <1>6, <2>2, <2>3, CursorPreserves
<1> QED
  BY <1>7, <1>8

LEMMA ScrollPreserves ==
  ASSUME Inv, NEW c \in Cursors, Scroll(c)
  PROVE  Inv'
<1>1. PICK r \in {-1, 0, 1, cur[c].rownumber + 1} : CursorCall("scroll", c, scroll(Now, c, r))
  BY Zenon DEF Scroll
<1>2. IInv /\ cur[c].state # "none" /\ ~cur[c].stream
  BY DEF Inv, Scroll
<1>3. /\ client \in Clients /\ Now \in State /\ Now.conn = conn /\ Now.cur = cur /\ Now.ret = <<>>
      /\ ~Now.raised /\ Rest(conn, cur) /\ Owned(cur[c])
  BY <1>2, AtRest DEF Entry
<1>4. r \in Int
  <2>1. cur[c].rownumber \in Nat
    BY <1>2 DEF IInv, CursType, CurType
  <2> QED
    BY <2>1
<1> DEFINE s == scroll(Now, c, r)
<1>5. s \in State /\ Rest(s.conn, s.cur) /\ Owned(s.cur[c]) /\ s.ret = <<>> /\ Kept(Now, s, c)
  BY <1>2, <1>3, <1>4, ScrollLeaves
<1>6. CursorCall("scroll", c, s)
  BY <1>1
<1> HIDE DEF s
<1>7. Entry(s.cur[c]) /\ (\A d \in Cursors \ {c} : s.cur[d] = cur[d]) /\ Facts("scroll", c, s)
  BY <1>2, <1>3, <1>5 DEF Kept, Entry, Facts
<1> QED
  BY <1>2, <1>5, <1>6, <1>7, CursorPreserves

LEMMA NextSetPreserves ==
  ASSUME Inv, NEW c \in Cursors, NextSet(c)
  PROVE  Inv'
<1> DEFINE s == nextset(Now, c)
<1>1. IInv /\ cur[c].state # "none" /\ CursorCall("nextset", c, s)
  BY DEF Inv, NextSet
<1>2. /\ Now \in State /\ Now.conn = conn /\ Now.cur = cur /\ Now.ret = <<>>
      /\ ~Now.raised /\ ~Now.end /\ Rest(conn, cur) /\ Owned(cur[c])
  BY <1>1, AtRest DEF Entry
<1>3. Nexts(Now, s, c)
  BY <1>2, NextSetLeaves
<1> HIDE DEF s
<1>4. /\ s \in State /\ Rest(s.conn, s.cur) /\ Entry(s.cur[c]) /\ (\A d \in Cursors \ {c} : s.cur[d] = cur[d])
      /\ s.ret = <<>> /\ Facts("nextset", c, s)
  BY <1>1, <1>2, <1>3 DEF Nexts, Others, Entry, Facts
<1> QED
  BY <1>1, <1>4, CursorPreserves

LEMMA ClosePreserves ==
  ASSUME Inv, NEW c \in Cursors, Close(c)
  PROVE  Inv'
<1> DEFINE s == close(Now, c)
<1>1. IInv /\ cur[c].state = "open" /\ CursorCall("close", c, s)
  BY DEF Inv, Close
<1>2. /\ Now \in State /\ Now.conn = conn /\ Now.cur = cur /\ Now.ret = <<>>
      /\ ~Now.raised /\ ~Now.end /\ Rest(conn, cur) /\ Owned(cur[c])
  BY <1>1, AtRest DEF Entry
<1>3. Closes(Now, s, c)
  BY <1>2, CloseLeaves
<1> HIDE DEF s
<1>4. /\ s \in State /\ Rest(s.conn, s.cur) /\ Entry(s.cur[c]) /\ (\A d \in Cursors \ {c} : s.cur[d] = cur[d])
      /\ s.ret = <<>> /\ Facts("close", c, s)
  BY <1>1, <1>2, <1>3 DEF Closes, Entry, Facts
<1> QED
  BY <1>1, <1>4, CursorPreserves

LEMMA CollectPreserves ==
  ASSUME Inv, NEW c \in Cursors, Collect(c)
  PROVE  Inv'
<1> DEFINE y == close(Now, c)
           s == [Free(y, c) EXCEPT !.cur[c] = NoCursor, !.raised = FALSE]
           l == Freed(y.conn, y.cur, c)
           v == [y.cur EXCEPT ![c] = NoCursor]
<1>1. IInv /\ cur[c].state # "none" /\ CursorCall("del", c, s)
  BY DEF Inv, Collect
<1>2. /\ client \in Clients /\ Now \in State /\ Now.conn = conn /\ Now.cur = cur /\ Now.ret = <<>>
      /\ ~Now.raised /\ ~Now.end /\ Rest(conn, cur) /\ Owned(cur[c])
  BY <1>1, AtRest DEF Entry
<1>3. Closes(Now, y, c)
  BY <1>2, CloseLeaves
<1> HIDE DEF y
<1>4. /\ y \in State /\ Rest(y.conn, y.cur) /\ y.conn \in ConnType /\ y.cur \in CursType /\ y.ret = <<>>
      /\ \A d \in Cursors \ {c} : y.cur[d] = cur[d]
  BY <1>2, <1>3, StateFields DEF Closes
<1>5. /\ l \in ConnType /\ v \in CursType /\ v[c] = NoCursor /\ (\A d \in Cursors \ {c} : v[d] = y.cur[d])
      /\ Rest(l, v)
  BY <1>2, <1>4, NewCursors, Replaced
<1>6. s.conn = l /\ s.cur = v /\ s.ret = <<>> /\ s.raised = FALSE
  BY <1>4 DEF Free, Freed, State
<1>7. s = [conn |-> l, cur |-> v, ret |-> <<>>, raised |-> FALSE, end |-> y.end, shown |-> y.shown]
  <2> DEFINE f == Free(y, c)
  <2>1. f = [conn |-> l, cur |-> y.cur, ret |-> <<>>, raised |-> y.raised, end |-> y.end, shown |-> y.shown]
    BY <1>4 DEF Free, Freed, State
  <2>2. s = [f EXCEPT !.cur = [f.cur EXCEPT ![c] = NoCursor], !.raised = FALSE]
    OBVIOUS
  <2> HIDE DEF f, s, l
  <2> QED
    BY <2>1, <2>2
<1> HIDE DEF s, l, v
<1>8. s \in State
  <2>1. <<>> \in Seq(Triples) /\ y.end \in BOOLEAN /\ y.shown \in Pairs \cup {None}
    BY <1>4, StateFields
  <2> QED
    BY <1>5, <1>7, <2>1 DEF State
<1>9. Entry(s.cur[c]) /\ (\A d \in Cursors \ {c} : s.cur[d] = cur[d]) /\ Rest(s.conn, s.cur) /\ Facts("del", c, s)
  BY <1>4, <1>5, <1>6, NewCursors DEF Facts
<1> QED
  BY <1>1, <1>6, <1>8, <1>9, CursorPreserves

LEMMA SessionPreserves ==
  ASSUME Inv, Session
  PROVE  Inv'
<1>1. IInv /\ block' = block /\ ended' = ended
  BY Zenon DEF Inv, Session, ConnectionCall, CursorCall
<1>2. /\ Now \in State /\ Now.conn = conn /\ Now.cur = cur /\ Now.ret = <<>> /\ ~Now.raised
      /\ Base(conn, cur) /\ InSync(conn) /\ Written(conn) /\ Transaction(conn, block, ended)
  BY <1>1, AtRest
<1>3. ASSUME NEW on \in BOOLEAN, block = None, ConnectionCall("autocommit", autocommit(Now, on))
      PROVE  Inv'
  <2> DEFINE s == autocommit(Now, on)
  <2>1. Leaves(Now, s) /\ InSync(s.conn) /\ Written(s.conn) /\ Transaction(s.conn, None, ended)
    BY <1>2, <1>3, AutocommitLeaves
  <2>2. Call("autocommit", None, s)
    BY <1>3 DEF ConnectionCall, CursorCall
  <2> HIDE DEF s
  <2>3. Transaction(s.conn, block', ended')
    BY <1>1, <1>3, <2>1
  <2> QED
    BY <1>1, <2>1, <2>2, <2>3, ConnectionPreserves
<1>4. ASSUME block = None, ConnectionCall("begin", begin(Now))
      PROVE  Inv'
  <2> DEFINE s == begin(Now)
  <2>1. Leaves(Now, s) /\ InSync(s.conn) /\ Written(s.conn) /\ Transaction(s.conn, None, ended)
    BY <1>2, <1>4, BeginLeaves
  <2>2. Call("begin", None, s)
    BY <1>4 DEF ConnectionCall, CursorCall
  <2> HIDE DEF s
  <2>3. Transaction(s.conn, block', ended')
    BY <1>1, <1>4, <2>1
  <2> QED
    BY <1>1, <2>1, <2>2, <2>3, ConnectionPreserves
<1>5. ASSUME NEW charset \in Charsets, ConnectionCall("set_character_set", set_character_set(Now, charset))
      PROVE  Inv'
  <2> DEFINE s == set_character_set(Now, charset)
  <2>1. charset \in Names
    BY DEF Names
  <2>2. /\ Leaves(Now, s) /\ Written(s.conn) /\ Transaction(s.conn, block, ended)
        /\ s.raised => s.conn = conn
        /\ ~s.raised => InSync(s.conn)
    BY <1>2, <2>1, CharsetLeaves
  <2>3. Call("set_character_set", None, s)
    BY <1>5 DEF ConnectionCall, CursorCall
  <2> HIDE DEF s
  <2>4. InSync(s.conn) /\ Transaction(s.conn, block', ended')
    BY <1>1, <1>2, <2>2
  <2> QED
    BY <1>1, <2>2, <2>3, <2>4, ConnectionPreserves
<1>6. ASSUME ConnectionCall("set_sql_mode", set_sql_mode(Now))
      PROVE  Inv'
  <2> DEFINE s == set_sql_mode(Now)
  <2>1. Leaves(Now, s) /\ SameData(conn, s.conn)
    BY <1>2, SqlModeLeaves
  <2>2. Call("set_sql_mode", None, s)
    BY <1>6 DEF ConnectionCall, CursorCall
  <2> HIDE DEF s
  <2>3. Database(s.conn)
    BY <1>2, <2>1, DataKept DEF Database
  <2>4. InSync(s.conn) /\ Written(s.conn) /\ Transaction(s.conn, block', ended')
    BY <1>1, <2>3 DEF Database
  <2> QED
    BY <1>1, <2>1, <2>2, <2>4, ConnectionPreserves
<1> QED
  BY <1>3, <1>4, <1>5, <1>6, Zenon DEF Session

LEMMA EnterPreserves ==
  ASSUME Inv, Enter
  PROVE  Inv'
<1> DEFINE s == enter(Now)
<1>1. /\ IInv /\ block = None /\ ended' = ended /\ Call("enter", None, s)
      /\ block' = IF s.raised THEN None ELSE conn.asked
  BY Zenon DEF Inv, Enter
<1>2. /\ Now \in State /\ Now.conn = conn /\ Now.cur = cur /\ Now.ret = <<>> /\ ~Now.raised
      /\ Base(conn, cur) /\ InSync(conn) /\ Written(conn) /\ Transaction(conn, None, ended)
  BY <1>1, AtRest
<1>3. conn.asked \in Nat
  <2>1. client.queries \in Nat /\ conn.asked \in 0..client.queries
    BY <1>1, AtRest, Programs DEF IInv, ConnType
  <2> QED
    BY <2>1
<1>4. /\ Leaves(Now, s) /\ InSync(s.conn) /\ Written(s.conn)
      /\ Transaction(s.conn, IF s.raised THEN None ELSE conn.asked, ended)
  BY <1>2, <1>3, EnterLeaves
<1> HIDE DEF s
<1>5. Transaction(s.conn, block', ended')
  BY <1>1, <1>4, Zenon
<1> QED
  BY <1>1, <1>4, <1>5, ConnectionPreserves

LEMMA ExitPreserves ==
  ASSUME Inv, NEW exc \in BOOLEAN, Exit(exc)
  PROVE  Inv'
<1> DEFINE s == exit(Now, exc)
           f == IF s.raised THEN ended ELSE [exc |-> exc, writes |-> {w \in conn.written : w[1] > block}]
<1>1. IInv /\ block # None /\ Call("exit", None, s) /\ ended' = f /\ block' = None
  BY Zenon DEF Inv, Exit
<1>2. /\ Now \in State /\ Now.conn = conn /\ Now.cur = cur /\ Now.ret = <<>> /\ ~Now.raised
      /\ Base(conn, cur) /\ InSync(conn) /\ Written(conn) /\ Transaction(conn, block, ended)
  BY <1>1, AtRest
<1>3. Leaves(Now, s) /\ InSync(s.conn) /\ Written(s.conn) /\ Transaction(s.conn, None, f)
  BY <1>1, <1>2, ExitLeaves
<1> HIDE DEF s, f
<1>4. Transaction(s.conn, block', ended')
  BY <1>1, <1>3, Zenon
<1> QED
  BY <1>1, <1>3, <1>4, ConnectionPreserves

-----------------------------------------------------------------------------
(* The constructor                                                         *)

Begins(k) ==
  /\ k \in ConnType /\ k.status = "ready" /\ k.set = None /\ k.read = 0 /\ k.more = <<>> /\ Idle(k)
  /\ k.pending = {} /\ k.stored = {} /\ k.written = {}

LEMMA FreshBegins ==
  ASSUME client \in Clients
  PROVE  Begins(Fresh("latin1")) /\ Fresh("latin1").charset = "latin1"
<1>1. 0 \in 0..client.queries /\ <<>> \in Seq(SetType)
  BY Programs
<1> HIDE DEF SetType
<1>2. Fresh("latin1") \in ConnType
  BY <1>1 DEF Fresh, ConnType, Names
<1> QED
  BY <1>2 DEF Fresh, Begins, Idle

CallType == [conn : ConnType, raised : BOOLEAN, end : BOOLEAN, shown : {None}]

LEMMA NewCall ==
  ASSUME NEW s \in CallType, NEW k \in ConnType
  PROVE  LET t == [s EXCEPT !.conn = k] IN t \in CallType /\ t.conn = k /\ t.raised = s.raised
BY DEF CallType

LEMMA Redecoded ==
  ASSUME NEW k, Begins(k), NEW charset \in Names, k.charset = charset
  PROVE  LET l == [k EXCEPT !.string_decoder = py_charset(charset), !.unicode_literal = py_charset(charset)] IN
         Begins(l) /\ InSync(l)
<1> DEFINE py == py_charset(charset)
           l  == [k EXCEPT !.string_decoder = py, !.unicode_literal = py]
<1>1. py \in Names \cup {"utf8", None}
  BY DEF py_charset
<1> HIDE DEF py
<1>2. Begins(l) /\ l.charset = charset /\ l.string_decoder = py /\ l.unicode_literal = py
  BY <1>1 DEF Begins, ConnType, Idle
<1>3. InSync(l)
  BY <1>2 DEF InSync, py
<1> QED
  BY <1>2, <1>3 DEF py

\* The character set of a connection that has just been made.
LEMMA Named ==
  ASSUME client \in Clients, NEW s \in CallType, ~s.raised, Begins(s.conn), NEW charset \in Names,
         ~set_character_set(s, charset).raised
  PROVE  LET t == set_character_set(s, charset) IN t \in CallType /\ Begins(t.conn) /\ InSync(t.conn)
<1> DEFINE k  == s.conn
           n  == [[k EXCEPT !.charset = charset] EXCEPT !.diag = None]
           o  == [s EXCEPT !.conn = n]
           t  == set_character_set(s, charset)
<1>1. k \in ConnType /\ Begins(k) /\ Idle(k)
  BY DEF Begins, CallType
<1>2. n \in ConnType /\ n.charset = charset
  BY <1>1 DEF ConnType
<1>3. Begins(n)
  BY <1>1, <1>2 DEF Begins, ConnType, Idle
<1>4. PICK u \in CallType : Begins(u.conn) /\ u.conn.charset = charset /\ t = Decode(u, charset)
  <2>1. CASE k.charset = charset
    BY <1>1, <2>1 DEF set_character_set, Then
  <2>2. CASE k.charset # charset
    <3>1. Raise(s).raised
      BY DEF Raise, CallType
    <3> HIDE DEF n
    <3>2. o \in CallType /\ o.conn = n /\ ~o.raised
      BY <1>2, NewCall
    <3>3. t = Decode(o, charset)
      BY <1>1, <2>2, <3>1, <3>2 DEF set_character_set, Then, SetNames, Command, n
    <3> HIDE DEF o, t
    <3> QED
      BY <1>2, <1>3, <3>2, <3>3
  <2> QED
    BY <2>1, <2>2
<1> DEFINE l == [u.conn EXCEPT !.string_decoder = py_charset(charset), !.unicode_literal = py_charset(charset)]
<1>5. Decode(u, charset) = [u EXCEPT !.conn = l]
  <2>1. u.conn \in ConnType
    BY DEF CallType
  <2> QED
    BY <2>1 DEF Decode, CallType, ConnType
<1>6. Begins(l) /\ InSync(l)
  BY <1>4, Redecoded
<1> HIDE DEF l, t
<1>7. t \in CallType /\ t.conn = l
  <2>1. l \in ConnType
    BY <1>6 DEF Begins
  <2> QED
    BY <1>4, <1>5, <2>1, NewCall
<1> QED
  BY <1>6, <1>7 DEF t

LEMMA Connected ==
  ASSUME client \in Clients,
         NEW charset \in Charsets \cup {None}, NEW on \in BOOLEAN \cup {None}, NEW transactional \in BOOLEAN,
         ~connect(charset, on, transactional).raised
  PROVE  LET k == connect(charset, on, transactional).conn IN Begins(k) /\ InSync(k)
<1> DEFINE name  == IF charset = None THEN "latin1" ELSE charset
           fresh == NoCall(Fresh("latin1"))
           t     == set_character_set(fresh, name)
<1>1. name \in Names
  BY DEF Names
<1>2. fresh.conn = Fresh("latin1") /\ fresh.conn.charset = "latin1"
  BY DEF NoCall, Fresh
<1>3. connect(charset, on, transactional)
        = IF t.raised THEN t ELSE IF transactional /\ on # None THEN autocommit(t, on) ELSE t
  BY <1>2 DEF connect, Then
<1>4. ~t.raised
  BY <1>3
<1>5. fresh \in CallType /\ ~fresh.raised /\ Begins(fresh.conn)
  <2>1. Begins(Fresh("latin1")) /\ Fresh("latin1") \in ConnType
    BY FreshBegins DEF Begins
  <2> QED
    BY <2>1, <1>2 DEF NoCall, CallType
<1> HIDE DEF name, fresh
<1>6. t \in CallType /\ Begins(t.conn) /\ InSync(t.conn)
  BY <1>1, <1>4, <1>5, Named, Zenon
<1> HIDE DEF t
<1>7. CASE transactional /\ on # None
  <2> DEFINE k == t.conn
             b == IF on THEN Commit(k) ELSE k
             m == [[b EXCEPT !.autocommit = on] EXCEPT !.diag = None]
  <2>1. on \in BOOLEAN /\ Idle(k)
    BY <1>6, <1>7 DEF Begins
  <2>2. autocommit(t, on) = t \/ autocommit(t, on) = [t EXCEPT !.conn = m]
    BY <2>1 DEF autocommit, Command
  <2>3. Begins(b) /\ InSync(b)
    <3>1. k \in ConnType
      BY <1>6 DEF Begins
    <3> QED
      BY <1>6, <3>1, Committed DEF Begins, InSync, Idle
  <2> HIDE DEF b
  <2>4. Begins(m) /\ InSync(m) /\ m \in ConnType
    <3>1. b \in ConnType
      BY <2>3 DEF Begins
    <3>2. m \in ConnType
      BY <2>1, <3>1 DEF ConnType
    <3>3. InSync(m)
      BY <2>3, <3>1 DEF InSync, ConnType
    <3>4. /\ m.status = b.status /\ m.set = b.set /\ m.read = b.read /\ m.more = b.more /\ m.diag = None
          /\ m.pending = b.pending /\ m.stored = b.stored /\ m.written = b.written /\ m.begun = b.begun
          /\ m.asked = b.asked /\ m.autocommit = on
      BY <3>1 DEF ConnType
    <3> QED
      BY <2>3, <3>2, <3>3, <3>4 DEF Begins, Idle
  <2> HIDE DEF m
  <2>5. [t EXCEPT !.conn = m].conn = m
    BY <1>6, <2>4, NewCall
  <2> QED
    BY <1>3, <1>4, <1>6, <1>7, <2>2, <2>4, <2>5
<1>8. CASE ~(transactional /\ on # None)
  BY <1>3, <1>4, <1>6, <1>8
<1> QED
  BY <1>7, <1>8


LEMMA Beginning ==
  ASSUME Init
  PROVE  Inv
<1>1. client \in Clients /\ cur = [c \in Cursors |-> NoCursor] /\ block = None
      /\ last.call = "connect" /\ last.by = None /\ last.ret = <<>> /\ ~last.raised
      /\ ended = [exc |-> FALSE, writes |-> {}]
  BY DEF Init
<1>2. PICK charset \in Charsets \cup {None}, on \in BOOLEAN \cup {None}, transactional \in BOOLEAN :
        ~connect(charset, on, transactional).raised /\ conn = connect(charset, on, transactional).conn
  BY Zenon DEF Init
<1>3. Begins(conn) /\ InSync(conn)
  BY <1>1, <1>2, Connected
<1>4. conn \in ConnType /\ conn.asked \in Nat
  <2>1. client.queries \in Nat /\ conn.asked \in 0..client.queries
    BY <1>1, <1>3, Programs DEF Begins, ConnType
  <2> QED
    BY <1>3, <2>1 DEF Begins
<1>5. cur \in CursType /\ \A c \in Cursors : cur[c] = NoCursor
  BY <1>1, NewCursors DEF CursType
<1>6. \A c \in Cursors : Entry(cur[c]) /\ ~cur[c].reading /\ Rows(cur[c])
  <2>1. Len(<<>>) = 0
    OBVIOUS
  <2>2. Full(NoCursor) /\ Told(NoCursor)
    BY <2>1, NewCursors, SetNotNone, NoRows DEF Full, Told
  <2>3. Rows(NoCursor)
    BY <2>1, <2>2, NewCursors DEF Rows
  <2> QED
    BY <1>5, <2>3, NewCursors
<1>7. Wire(conn, cur)
  BY <1>3, <1>6, SetNotNone DEF Wire, Begins
<1>8. Later(conn) /\ Written(conn)
  BY <1>3 DEF Begins, Later, Written
<1>9. Transaction(conn, block, ended)
  BY <1>1, <1>3 DEF Begins, Transaction
<1>10. Rest(conn, cur)
  BY <1>3, <1>6, <1>7, <1>8, <1>9 DEF Rest, Database
<1>11. Returned
  BY <1>1 DEF Returned
<1>12. IInv
  BY <1>1, <1>4, <1>5, <1>6, <1>10, <1>11 DEF IInv, Entry
<1>13. PerCall
  BY <1>1 DEF PerCall, CloseFrees, CloseRaises, WarningsShown, FetchedAll
<1> QED
  BY <1>12, <1>13 DEF Inv

LEMMA Steps ==
  ASSUME Inv, [Next]_vars
  PROVE  Inv'
<1>1. ASSUME UNCHANGED vars PROVE Inv'
  <2>1. client' = client /\ conn' = conn /\ cur' = cur /\ block' = block /\ last' = last /\ ended' = ended
    BY <1>1 DEF vars
  <2>2. SetType' = SetType
    BY <2>1 DEF SetType
  <2>3. ConnType' = ConnType /\ CursType' = CursType
    BY <2>1, <2>2 DEF ConnType, CursType, CurType, Names, Pairs, Triples
  <2>4. Rest(conn, cur)'
    BY <2>1, <2>2 DEF Inv, IInv, Rest, Wire, Rows, Full, Told, RowsIn, RowsOf, Later, LastWarns, Database, InSync, Written,
                      Transaction, py_charset
  <2>5. Returned'
    BY <2>1, <2>2 DEF Inv, IInv, Returned, RowsOf
  <2>6. IInv'
    BY <2>1, <2>2, <2>3, <2>4, <2>5 DEF Inv, IInv, Owned, Belongs, At, AtEnd
  <2>7. PerCall'
    BY <2>1 DEF Inv, PerCall, CloseFrees, CloseRaises, WarningsShown, FetchedAll, RowsIn, Idle
  <2> QED
    BY <2>6, <2>7 DEF Inv
<1>2. ASSUME NEW c \in Cursors,
             \/ Open(c) \/ Execute(c) \/ ExecuteMany(c) \/ ExecuteInsert(c) \/ CallProc(c)
             \/ Fetch(c) \/ Scroll(c) \/ NextSet(c) \/ Close(c) \/ Collect(c)
      PROVE  Inv'
  BY <1>2, OpenPreserves, ExecutePreserves, ExecuteManyPreserves, InsertPreserves, CallProcPreserves,
     FetchPreserves, ScrollPreserves, NextSetPreserves, ClosePreserves, CollectPreserves
<1>3. ASSUME Session PROVE Inv'
  BY <1>3, SessionPreserves
<1>4. ASSUME Enter PROVE Inv'
  BY <1>4, EnterPreserves
<1>5. ASSUME NEW exc \in BOOLEAN, Exit(exc) PROVE Inv'
  BY <1>5, ExitPreserves
<1> QED
  BY <1>1, <1>2, <1>3, <1>4, <1>5, Zenon DEF Next

LEMMA Always ==
  Spec => []Inv
<1>1. Init => Inv
  BY Beginning
<1>2. Inv /\ [Next]_vars => Inv'
  BY Steps
<1> QED
  BY <1>1, <1>2, PTL DEF Spec

-----------------------------------------------------------------------------
(* Theorems                                                                *)

(* The attributes of the connection and of every cursor keep their types,  *)
(* and a position stays inside the rows, through every call of cursors.py. *)
THEOREM Typing ==
  Spec => []TypeOK
<1>1. ASSUME Inv PROVE TypeOK
  <2>1. client \in Clients /\ conn \in ConnType /\ cur \in CursType /\ Rest(conn, cur)
    BY <1>1 DEF Inv, IInv
  <2>2. /\ conn.status \in {"ready", "get", "use"} /\ conn.asked \in 0..client.queries
        /\ conn.set \in SetType \cup {None} /\ conn.more \in Seq(SetType)
    BY <2>1 DEF ConnType
  <2>3. conn.set # None => conn.read \in 0..conn.set.rows
    <3>1. conn.read \in Nat
      BY <2>1 DEF ConnType
    <3>2. conn.set # None => conn.set.rows \in Nat /\ conn.read <= conn.set.rows
      BY <2>1, <2>2 DEF Rest, Wire, SetType
    <3> QED
      BY <3>1, <3>2
  <2>4. conn.stored \cup conn.pending \subseteq conn.written
    BY <2>1 DEF Rest, Database, Written
  <2>5. ASSUME NEW c \in Cursors
        PROVE  /\ cur[c].state \in {"none", "open", "closed"} /\ cur[c].executed \in 0..client.queries
               /\ cur[c].rownumber \in 0..(IF cur[c].stream /\ cur[c].set # None THEN cur[c].set.rows ELSE Len(cur[c].rows))
               /\ {cur[c].stream, cur[c].reading, cur[c].warnings, cur[c].stole} \subseteq BOOLEAN
    <3>1. cur[c] \in CurType /\ Rows(cur[c])
      BY <2>1 DEF Rest, CursType
    <3>2. /\ cur[c].state \in {"none", "open", "closed"} /\ cur[c].executed \in 0..client.queries
          /\ cur[c].rownumber \in Nat /\ cur[c].set \in SetType \cup {None} /\ cur[c].rows \in Seq(Triples)
          /\ {cur[c].stream, cur[c].reading, cur[c].warnings, cur[c].stole} \subseteq BOOLEAN
      BY <3>1 DEF CurType
    <3>3. (IF cur[c].stream /\ cur[c].set # None THEN cur[c].set.rows ELSE Len(cur[c].rows)) \in Nat
      <4>1. Len(cur[c].rows) \in Nat
        BY <3>2, LenProperties
      <4> QED
        BY <3>2, <4>1 DEF SetType
    <3>4. cur[c].rownumber <= (IF cur[c].stream /\ cur[c].set # None THEN cur[c].set.rows ELSE Len(cur[c].rows))
      BY <3>1 DEF Rows
    <3> QED
      BY <3>2, <3>3, <3>4
  <2>6. DOMAIN cur = Cursors
    BY <2>1 DEF CursType
  <2>7. block \in Nat \cup {None} /\ last.by \in Cursors \cup {None}
    BY <1>1, <2>1 DEF Rest, Database, Transaction, Inv, IInv, Returned
  <2> QED
    BY <2>2, <2>3, <2>4, <2>5, <2>6, <2>7 DEF TypeOK
<1> QED
  BY <1>1, Always, PTL

(* cursors.py:410-425: however the calls on several cursors follow each    *)
(* other, fail or stop half way, at most one SSCursor has rows on the      *)
(* wire, and it stands where the wire stands.                              *)
THEOREM OneReader ==
  Spec => []WireOwned
<1>1. ASSUME Inv PROVE WireOwned
  BY <1>1 DEF Inv, IInv, Rest, Wire, WireOwned
<1> QED
  BY <1>1, Always, PTL

(* cursors.py:362-407, 427-453: what fetchone, fetchmany and fetchall hand *)
(* out of a set, put together, are its rows in order from the first one,   *)
(* or from where scroll went: none twice and none left out in between, for *)
(* any number of rows and cursors, and whatever calls fail between them.   *)
(* A set of which nextset or a fetchall that raises lost the rest hands    *)
(* out nothing more.                                                       *)
THEOREM RowsInOrder ==
  Spec => []FetchIsNext
<1>1. ASSUME Inv PROVE FetchIsNext
  BY <1>1 DEF Inv, IInv, Rest, Rows, Told, FetchIsNext
<1> QED
  BY <1>1, Always, PTL

(* cursors.py:122-138, 362-388, 427-453: when a fetch returns nothing, the *)
(* client has the rows of the set to the last one.  Rows are lost only to  *)
(* nextset and close, which throw them away, and to the fetchall of a      *)
(* stream that raises because SHOW WARNINGS is refused.                    *)
THEOREM NothingLeft ==
  Spec => []FetchedAll
<1>1. ASSUME Inv PROVE FetchedAll
  BY <1>1 DEF Inv, PerCall
<1> QED
  BY <1>1, Always, PTL

(* cursors.py:122-138, 164-208: rows that a cursor hands out belong to the *)
(* query it executed last with success, unless a nextset of its own took   *)
(* over the sets of another cursor's query.                                *)
THEOREM OwnRows ==
  Spec => []RowsOfExecuted
<1>1. ASSUME Inv PROVE RowsOfExecuted
  <2> SUFFICES ASSUME last.ret # <<>>, ~cur[last.by].stole, NEW i \in DOMAIN last.ret
               PROVE  last.ret[i][1] = cur[last.by].executed
    BY DEF RowsOfExecuted
  <2> DEFINE a     == cur[last.by]
             n     == Len(last.ret)
             first == a.rownumber - n
  <2>1. /\ last.by \in Cursors /\ a.set \in SetType /\ n <= a.rownumber
        /\ last.ret = RowsOf(a.set, first, n) /\ a.set.of = a.executed
    BY <1>1 DEF Inv, IInv, Returned
  <2>2. i \in 1..n /\ last.ret[i] = <<a.set.of, a.set.at, first + i>>
    BY <2>1 DEF RowsOf
  <2> QED
    BY <2>1, <2>2
<1> QED
  BY <1>1, Always, PTL

(* cursors.py:97-101: a close() that returns has read all the sets of the  *)
(* query, so that the connection takes other queries.                      *)
THEOREM CloseRests ==
  Spec => []CloseFrees
<1>1. ASSUME Inv PROVE CloseFrees
  BY <1>1 DEF Inv, PerCall
<1> QED
  BY <1>1, Always, PTL

(* cursors.py:97-101, 107-138: the reasons for which a close() may fail.   *)
THEOREM CloseReasons ==
  Spec => []CloseRaises
<1>1. ASSUME Inv PROVE CloseRaises
  BY <1>1 DEF Inv, PerCall
<1> QED
  BY <1>1, Always, PTL

(* cursors.py:107-120: warnings of a stored set are shown by the call that *)
(* gets it, whichever statement of a query they belong to.                 *)
THEOREM NotInSilence ==
  Spec => []WarningsShown
<1>1. ASSUME Inv PROVE WarningsShown
  BY <1>1 DEF Inv, PerCall
<1> QED
  BY <1>1, Always, PTL

(* connections.py:256-265: `with connection' stores all or nothing,        *)
(* whatever the calls inside of it, for any number of writes.              *)
THEOREM AllOrNothing ==
  Spec => []AtomicBlocks
<1>1. ASSUME Inv PROVE AtomicBlocks
  BY <1>1 DEF Inv, IInv, Rest, Database, Transaction, AtomicBlocks
<1> QED
  BY <1>1, Always, PTL

(* connections.py:301-319: rows are decoded in the character set that the  *)
(* server sends, also after a set_character_set that failed.               *)
THEOREM SameCharset ==
  Spec => []CharsetInSync
<1>1. ASSUME Inv PROVE CharsetInSync
  BY <1>1 DEF Inv, IInv, Rest, Database, InSync, CharsetInSync
<1> QED
  BY <1>1, Always, PTL
===============================================================================
