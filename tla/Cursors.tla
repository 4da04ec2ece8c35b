------------------------------- MODULE Cursors -------------------------------
(***************************************************************************)
(* MySQLdb/cursors.py: cursors over one connection.  A Cursor takes a      *)
(* result set to the client at once; an SSCursor (`stream') reads it row   *)
(* by row, and meanwhile the connection can do nothing else.  Each action  *)
(* is a call that a client makes; cursors are collected (__del__) at any   *)
(* time.                                                                   *)
(***************************************************************************)
EXTENDS Connections

CONSTANTS
  Cursors,
  Clients     \* programs that use the connection

\* scripts: its queries, by what the server answers to each statement; batches:
\* arguments of executemany, a query for each (222: without any it does nothing);
\* session: it changes settings and uses transactions; cursors, queries: bounds on
\* open cursors and on queries.
ASSUME ClientsTyped ==
  \A k \in Clients :
    /\ k.scripts \subseteq Seq(Statement) \ {<<>>} /\ k.batches \subseteq Seq(k.scripts) \ {<<>>}
    /\ k.session \in BOOLEAN /\ {k.cursors, k.queries} \subseteq Nat

\* No result set is taken for Python's None.
ASSUME NoneIsNoSet ==
  None \notin [of : Nat, at : Nat, kind : {"rows", "ok", "error"}, rows : Nat, warn : BOOLEAN]

VARIABLES
  client,     \* the program that runs
  cur,        \* cur[c]: the attributes of the cursor c; history: got, the rows of
              \* its set that the client has, from row `from' on; skipped: nextset
              \* or a fetchall that raised has thrown rows away
  block,      \* inside `with connection': the number of queries before it, else None
  last,       \* the last call and what the client got of it
  ended       \* history: the last block that __exit__ ended without an exception

vars == <<client, conn, cur, block, last, ended>>

NoCursor ==
  [state |-> "none", stream |-> FALSE, executed |-> 0, reading |-> FALSE, set |-> None,
   rows |-> <<>>, rownumber |-> 0, warnings |-> FALSE, stole |-> FALSE,
   from |-> 0, got |-> <<>>, skipped |-> FALSE]

\* 75-90
cursor(stream) == [NoCursor EXCEPT !.state = "open", !.stream = stream]

\* What a method finds.
Now == [conn |-> conn, cur |-> cur, ret |-> <<>>, raised |-> FALSE, end |-> FALSE, shown |-> None]

-----------------------------------------------------------------------------
(* BaseCursor                                                              *)

\* 103-105, 159-162
_check_executed(s, c) == IF s.cur[c].executed = 0 THEN Raise(s) ELSE s
_get_db(s, c)         == IF s.cur[c].state = "closed" THEN Raise(s) ELSE s

\* 107-120
_warning_check(s, c) ==
  IF s.cur[c].warnings THEN Then(_get_db(s, c), show_warnings) ELSE s

RowsOf(set, first, n) == [i \in 1..n |-> <<set.of, set.at, first + i>>]

\* 351, 358-360, 425: use_result or store_result; a set without rows has no result.
_get_result(s, c) ==
  LET set == s.conn.set IN
  IF s.conn.status # "get" THEN [s EXCEPT !.cur[c].reading = FALSE, !.cur[c].rows = <<>>]
  ELSE IF s.cur[c].stream
  THEN [s EXCEPT !.conn.status = "use", !.cur[c].reading = TRUE]
  ELSE [s EXCEPT !.conn.status = "ready", !.cur[c].rows = RowsOf(set, 0, set.rows)]

\* History: the client is to get the rows from number r on.
From(s, c, r) == [s EXCEPT !.cur[c].from = r, !.cur[c].got = <<>>, !.cur[c].skipped = FALSE]

\* 142-151
_do_get_result(s, c) ==
  From([_get_result(s, c) EXCEPT !.cur[c].set = s.conn.set, !.cur[c].rownumber = 0,
                                 !.cur[c].warnings = s.conn.set.warn], c, 0)

\* 315-320, 353-356
_query(s, c, script) == Then(query(s, script), LAMBDA t : _do_get_result(t, c))

\* 324-327: a result that was read to its end gives nothing more.
_fetch_row(s, c, size) ==
  LET left == s.conn.set.rows - s.conn.read
      n    == IF size = 0 \/ size > left THEN left ELSE size IN
  IF ~s.cur[c].reading THEN s
  ELSE [s EXCEPT !.ret = RowsOf(s.conn.set, s.conn.read, n), !.conn.read = @ + n,
                 !.conn.status = IF size = 0 \/ size > left THEN "ready" ELSE @,
                 !.cur[c].reading = ~(size = 0 \/ size > left)]

\* Mutant: one row is counted.
StreamFetch_CountsOne(s, c, size) ==
  LET t == _fetch_row(s, c, size)
      u == [t EXCEPT !.cur[c].rownumber = @ + (IF t.ret = <<>> THEN 0 ELSE 1)] IN
  IF size = 0 \/ t.ret = <<>> THEN _warning_check(u, c) ELSE u

\* Mutant: warnings are asked for with every row.
StreamFetch_WarnsEach(s, c, size) ==
  LET t == _fetch_row(s, c, size) IN
  _warning_check([t EXCEPT !.cur[c].rownumber = @ + Len(t.ret)], c)

\* 427-453: of a stream.  size = 0 is fetchall, which always asks for warnings.
StreamFetch(s, c, size) ==
  LET t == _fetch_row(s, c, size)
      u == [t EXCEPT !.cur[c].rownumber = @ + Len(t.ret)] IN
  IF size = 0 \/ t.ret = <<>> THEN _warning_check(u, c) ELSE u

\* Mutant: the end may lie behind the rows.
StoreFetch_Beyond(s, c, size) ==
  LET at  == s.cur[c].rownumber
      all == Len(s.cur[c].rows)
      end == IF size = 0 THEN all ELSE at + size IN
  [s EXCEPT !.ret = SubSeq(s.cur[c].rows, at + 1, IF end > all THEN all ELSE end),
            !.cur[c].rownumber = end]

\* Mutant: the position is that of the last row, not the one behind it.
StoreFetch_AtLast(s, c, size) ==
  LET at  == s.cur[c].rownumber
      all == Len(s.cur[c].rows)
      end == IF size = 0 \/ at + size > all THEN all ELSE at + size IN
  [s EXCEPT !.ret = SubSeq(s.cur[c].rows, at + 1, end), !.cur[c].rownumber = IF end > at THEN end - 1 ELSE at]

\* 362-388: of stored rows.
StoreFetch(s, c, size) ==
  LET at  == s.cur[c].rownumber
      all == Len(s.cur[c].rows)
      end == IF size = 0 \/ at + size > all THEN all ELSE at + size IN
  [s EXCEPT !.ret = SubSeq(s.cur[c].rows, at + 1, end), !.cur[c].rownumber = end]

\* fetchone, fetchmany, fetchall
fetch(s, c, size) ==
  Then(_check_executed(s, c),
       LAMBDA t : IF t.cur[c].stream THEN StreamFetch(t, c, size) ELSE StoreFetch(t, c, size))

\* 390-407
scroll(s, c, r) ==
  Then(_check_executed(s, c),
       LAMBDA t : IF r \in 0..(Len(t.cur[c].rows) - 1)
                  THEN From([t EXCEPT !.cur[c].rownumber = r], c, r) ELSE Raise(t))

\* 127-128: the rest of the current set is thrown away.
Skip(s, c) ==
  LET t == fetch(s, c, 0) IN
  IF s.cur[c].executed = 0 THEN s
  ELSE [t EXCEPT !.ret = <<>>, !.shown = None, !.cur[c].skipped = @ \/ t.ret # <<>>]

\* The next set, if the fetch of the rest of the current one went well.  stole:
\* it belongs to the query of another cursor.
Advance(fetched, c) ==
  LET next == Then(Then(fetched, LAMBDA t : _get_db(t, c)), next_result) IN
  Then(next, LAMBDA t :
    IF t.end THEN t
    ELSE [_do_get_result(t, c) EXCEPT !.cur[c].stole = @ \/ t.conn.set.of # t.cur[c].executed])

\* Mutants: the rest of the current set stays unread; no warnings are asked for.
nextset_NoFetch(s, c) ==
  Then(Advance(s, c), LAMBDA t : IF t.end THEN t ELSE _warning_check(t, c))
nextset_NoWarnings(s, c) ==
  Advance(Skip(s, c), c)

\* 122-138
nextset(s, c) ==
  Then(Advance(Skip(s, c), c), LAMBDA t : IF t.end THEN t ELSE _warning_check(t, c))

\* Mutant: one set is taken for the last.
close_Once(s, c) ==
  IF s.cur[c].state = "closed" THEN s
  ELSE Then(nextset(s, c), LAMBDA t : [t EXCEPT !.cur[c].state = "closed"])

\* 97-101.  A nextset that returns leaves one set less.
close(s, c) ==
  LET loop[k \in 0..(Len(s.conn.more) + 1)] ==
        IF k = 0 THEN s
        ELSE IF loop[k - 1].raised \/ loop[k - 1].end THEN loop[k - 1] ELSE nextset(loop[k - 1], c)
  IN  IF s.cur[c].state = "closed" THEN s
      ELSE Then(loop[Len(s.conn.more) + 1], LAMBDA t : [t EXCEPT !.cur[c].state = "closed"])

Executed(s, c) ==
  LET t == [s EXCEPT !.cur[c].executed = s.conn.asked, !.cur[c].stole = FALSE] IN
  IF s.cur[c].stream THEN t ELSE _warning_check(t, c)

\* Mutant: a query counts as executed before it is sent.
execute_Early(s, c, script) ==
  Then(_get_db(s, c), LAMBDA t :
    _query([t EXCEPT !.cur[c].executed = t.conn.asked + 1], c, script))

\* 164-208.  Arguments that cannot be formatted raise before anything is done.
execute(s, c, script) ==
  Then(Then(_get_db(s, c), LAMBDA t : _query(t, c, script)), LAMBDA t : Executed(t, c))

\* 221-234: other queries than INSERT ... VALUES, one for each argument.
executemany(s, c, batch) ==
  FoldLeft(LAMBDA t, script : Then(t, LAMBDA u : execute(u, c, script)), _get_db(s, c), batch)

\* 235-264: one INSERT of all the rows; it does not count as executed.
InsertMany(s, c, answer) ==
  Then(Then(_get_db(s, c), LAMBDA t : _query(t, c, <<answer>>)),
       LAMBDA t : IF t.cur[c].stream THEN t ELSE _warning_check(t, c))

\* 266-313: a SET for each argument, then CALL.
callproc(s, c, args, script) ==
  LET set(t) == Then(_query(t, c, <<Ok>>), LAMBDA u : [nextset(u, c) EXCEPT !.end = FALSE])
      done   == FoldLeft(LAMBDA t, arg : Then(t, set), _get_db(s, c), args) IN
  Then(Then(done, LAMBDA t : _query(t, c, script)), LAMBDA t : Executed(t, c))

-----------------------------------------------------------------------------
(* What clients call                                                       *)

Init ==
  /\ client \in Clients
  /\ \E charset \in Charsets \cup {None}, on \in BOOLEAN \cup {None}, transactional \in BOOLEAN :
       /\ ~client.session => charset = None /\ on = FALSE
       /\ LET s == connect(charset, on, transactional) IN ~s.raised /\ conn = s.conn
  /\ cur = [c \in Cursors |-> NoCursor]
  /\ block = None
  /\ last = [call |-> "connect", by |-> None, ret |-> <<>>, raised |-> FALSE, end |-> FALSE, shown |-> None]
  /\ ended = [exc |-> FALSE, writes |-> {}]

Call(name, c, s) ==
  /\ UNCHANGED client
  /\ conn' = s.conn /\ cur' = s.cur
  /\ last' = [call |-> name, by |-> c, ret |-> IF s.raised THEN <<>> ELSE s.ret,
              raised |-> s.raised, end |-> s.end, shown |-> s.shown]

CursorCall(name, c, s) == Call(name, c, s) /\ UNCHANGED <<block, ended>>

\* connections.py 245-254
Open(c) ==
  /\ cur[c].state = "none" /\ Cardinality({d \in Cursors : cur[d].state # "none"}) < client.cursors
  /\ \E stream \in BOOLEAN : CursorCall("cursor", c, [Now EXCEPT !.cur[c] = cursor(stream)])

Execute(c) ==
  /\ cur[c].state # "none" /\ conn.asked < client.queries
  /\ \E script \in client.scripts : CursorCall("execute", c, execute(Now, c, script))

ExecuteMany(c) ==
  /\ cur[c].state # "none"
  /\ \E batch \in client.batches :
       conn.asked + Len(batch) <= client.queries /\ CursorCall("executemany", c, executemany(Now, c, batch))

ExecuteInsert(c) ==
  /\ cur[c].state # "none" /\ conn.asked < client.queries
  /\ \E script \in client.scripts :
       /\ Len(script) = 1 /\ Head(script).kind # "rows"
       /\ CursorCall("insert", c, InsertMany(Now, c, Head(script)))

CallProc(c) ==
  /\ cur[c].state # "none" /\ conn.asked + 1 < client.queries
  /\ \E script \in client.scripts : CursorCall("callproc", c, callproc(Now, c, <<None>>, script))

\* History: what the client has after a fetch.
Hand(s, c, size) ==
  IF s.raised THEN [s EXCEPT !.cur[c].skipped = @ \/ (size = 0 /\ s.ret # <<>>)]
  ELSE [s EXCEPT !.cur[c].got = @ \o s.ret]

Fetch(c) ==
  /\ cur[c].state # "none"
  /\ \E size \in 0..2 : CursorCall("fetch", c, Hand(fetch(Now, c, size), c, size))

Scroll(c) ==
  /\ cur[c].state # "none" /\ ~cur[c].stream
  /\ \E r \in {-1, 0, 1, cur[c].rownumber + 1} : CursorCall("scroll", c, scroll(Now, c, r))

NextSet(c) == cur[c].state # "none" /\ CursorCall("nextset", c, nextset(Now, c))

Close(c) == cur[c].state = "open" /\ CursorCall("close", c, close(Now, c))

\* _mysql reads the rest of a result that is freed.
Free(s, c) == IF s.cur[c].reading THEN [s EXCEPT !.conn.status = "ready"] ELSE s

\* 92-95: what close raises is not seen by anybody.
Collect(c) ==
  /\ cur[c].state # "none"
  /\ CursorCall("del", c, [Free(close(Now, c), c) EXCEPT !.cur[c] = NoCursor, !.raised = FALSE])

ConnectionCall(name, s) == CursorCall(name, None, s)

\* Clients leave `autocommit' and `begin' alone inside of a block.
Session ==
  /\ client.session
  /\ \/ \E on \in BOOLEAN : block = None /\ ConnectionCall("autocommit", autocommit(Now, on))
     \/ block = None /\ ConnectionCall("begin", begin(Now))
     \/ \E charset \in Charsets : ConnectionCall("set_character_set", set_character_set(Now, charset))
     \/ ConnectionCall("set_sql_mode", set_sql_mode(Now))

\* with connection as ...:
Enter ==
  /\ client.session /\ block = None
  /\ LET s == enter(Now) IN
       Call("enter", None, s) /\ block' = (IF s.raised THEN None ELSE conn.asked)
  /\ UNCHANGED ended

Exit(exc) ==
  /\ block # None
  /\ LET s == exit(Now, exc) IN
     /\ Call("exit", None, s)
     /\ ended' = IF s.raised THEN ended
                 ELSE [exc |-> exc, writes |-> {w \in conn.written : w[1] > block}]
  /\ block' = None

Next ==
  \/ \E c \in Cursors :
       \/ Open(c) \/ Execute(c) \/ ExecuteMany(c) \/ ExecuteInsert(c) \/ CallProc(c)
       \/ Fetch(c) \/ Scroll(c) \/ NextSet(c) \/ Close(c) \/ Collect(c)
  \/ Session \/ Enter \/ \E exc \in BOOLEAN : Exit(exc)

Spec == Init /\ [][Next]_vars

-----------------------------------------------------------------------------
(* Properties                                                              *)

SetType == [of : 1..client.queries, at : Nat, kind : {"rows", "ok", "error"}, rows : Nat, warn : BOOLEAN]

(* Every variable has a value of its type; a position is inside the rows.  *)
TypeOK ==
  /\ conn.status \in {"ready", "get", "use"} /\ conn.asked \in 0..client.queries
  /\ conn.set \in SetType \cup {None} /\ conn.more \in Seq(SetType)
  /\ conn.set # None => conn.read \in 0..conn.set.rows
  /\ conn.stored \cup conn.pending \subseteq conn.written
  /\ DOMAIN cur = Cursors
  /\ \A c \in Cursors :
       /\ cur[c].state \in {"none", "open", "closed"} /\ cur[c].executed \in 0..client.queries
       /\ cur[c].rownumber \in 0..(IF cur[c].stream /\ cur[c].set # None THEN cur[c].set.rows ELSE Len(cur[c].rows))
       /\ {cur[c].stream, cur[c].reading, cur[c].warnings, cur[c].stole} \subseteq BOOLEAN
  /\ block \in Nat \cup {None}
  /\ last.by \in Cursors \cup {None}

(* Cursors share one wire: rows are on it exactly when some cursor reads   *)
(* them, that cursor is alone, and its position is that of the wire.  Only *)
(* __del__ frees a result half read.                                       *)
WireOwned ==
  LET readers == {c \in Cursors : cur[c].reading} IN
  /\ conn.status = (IF readers = {} THEN "ready" ELSE "use")
  /\ \A c, d \in readers : c = d
  /\ \A c \in readers : cur[c].set = conn.set /\ cur[c].rownumber = conn.read

(* All that a client was handed of a result set, put together, are its     *)
(* rows in order, from the first one or from where it scrolled to: no call *)
(* of its own, of another cursor's or that fails makes a fetch repeat a row*)
(* or leave one out in between.                                            *)
FetchIsNext ==
  \A c \in Cursors : cur[c].got = RowsOf(cur[c].set, cur[c].from, Len(cur[c].got))

RowsIn(set) == IF set.kind = "rows" THEN set.rows ELSE 0

(* Who fetches until nothing comes has all the rows.  Two calls lose some: *)
(* nextset (and close) throws away the rest of the set, also where no set  *)
(* follows or it fails; the fetchall of a stream raises with the rows in   *)
(* hand, if SHOW WARNINGS is refused.  A fetchone or fetchmany that raises *)
(* has lost nothing.                                                       *)
FetchedAll ==
  last.call = "fetch" /\ ~last.raised /\ last.ret = <<>> =>
    LET c == cur[last.by] IN c.skipped \/ c.from + Len(c.got) = RowsIn(c.set)

(* Rows that are fetched belong to the query that the cursor executed last *)
(* with success: a failed execute leaves the old rows and says so; only a  *)
(* nextset can take over the sets of another cursor's query.               *)
RowsOfExecuted ==
  last.ret # <<>> =>
    LET c == cur[last.by] IN ~c.stole => \A i \in DOMAIN last.ret : last.ret[i][1] = c.executed

(* cursors.py:418-421: after close() the connection takes other queries.   *)
CloseFrees == last.call = "close" /\ ~last.raised => Idle(conn)

(* close() fails for four reasons only: another cursor is reading rows; a  *)
(* statement of the query failed; the set has warnings and SHOW WARNINGS   *)
(* is out of sync, since sets are pending, or rows that nextset has just   *)
(* begun to read; the cursor never executed, so nextset does not fetch,    *)
(* and it has begun to read a set of another one's query.                  *)
CloseRaises ==
  last.call = "close" /\ last.raised =>
    \/ \E c \in Cursors \ {last.by} : cur[c].reading
    \/ conn.set.kind = "error"
    \/ cur[last.by].warnings /\ ~Idle(conn)
    \/ cur[last.by].reading /\ cur[last.by].executed = 0

(* A stored result set with warnings is not handed out in silence: the     *)
(* call that gets it shows its own warnings, or raises.                    *)
WarningsShown ==
  last.call \in {"execute", "executemany", "insert", "callproc", "nextset"} /\ ~last.raised /\ ~last.end =>
    LET c == cur[last.by] IN
    ~c.stream /\ c.set.warn => last.shown = <<c.set.of, c.set.at>>

(* A block that ends normally is stored as a whole; one that ends with an  *)
(* exception leaves nothing, whether autocommit is on or off.  (An __exit__*)
(* that raises, on a busy connection, promises neither.)                   *)
AtomicBlocks ==
  IF ended.exc THEN ended.writes \cap conn.stored = {} ELSE ended.writes \subseteq conn.stored

=============================================================================
