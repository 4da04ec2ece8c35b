----------------------------- MODULE Connections -----------------------------
(***************************************************************************)
(* MySQLdb/connections.py: a connection, with what _mysql (the C client    *)
(* library) and the server do for it.  A connection serves one call at a   *)
(* time (`threadsafety = 1'), so a method is an operator: from what it     *)
(* finds, `s', it makes what it leaves.  A query may hold several          *)
(* statements; the server runs them at once, and the client takes one      *)
(* result set after the other.  The server is 4.1 or newer.                *)
(***************************************************************************)
EXTENDS Integers, Sequences, FiniteSets, SequencesExt

CONSTANTS
  Charsets,   \* character sets that a client asks for
  Unknown,    \* those that the server does not know
  None

ASSUME CharsetsNamed == Unknown \subseteq Charsets /\ {"utf8", "latin1"} \cap Unknown = {}

VARIABLE conn

\* What the server answers to one statement of a query.
Statement == [kind : {"rows", "ok", "error"}, rows : Nat, warn : BOOLEAN, write : BOOLEAN]
Ok == [kind |-> "ok", rows |-> 0, warn |-> FALSE, write |-> FALSE]

-----------------------------------------------------------------------------
(* Steps of a method: what follows an exception is not run.                *)

Raise(s) == [s EXCEPT !.raised = TRUE]
Then(s, Step(_)) == IF s.raised THEN s ELSE Step(s)

-----------------------------------------------------------------------------
(* _mysql and the server.  conn.status: "ready", "get" (a result set has   *)
(* been announced), "use" (its rows come one by one); set, read: that set, *)
(* and how many of its rows were read; more: the sets behind it.           *)

\* Otherwise a command is refused: "Commands out of sync".
Idle(c) == c.status = "ready" /\ c.more = <<>>

ReadHeader(s, sets) ==
  LET t == [s EXCEPT !.conn.set = Head(sets), !.conn.read = 0, !.conn.more = Tail(sets)] IN
  CASE Head(sets).kind = "error" -> Raise([t EXCEPT !.conn.more = <<>>])
    [] Head(sets).kind = "rows"  -> [t EXCEPT !.conn.status = "get"]
    [] Head(sets).kind = "ok"    -> t

\* The statements of query n that run: all before one that fails.
Run(script) == {k \in DOMAIN script : \A i \in 1..k : script[i].kind # "error"}
Writes(script, n) == {<<n, k>> : k \in {j \in Run(script) : script[j].write}}

\* Outside a transaction a write is stored at once.  diag: what SHOW WARNINGS
\* knows, of the last statement.
OnServer(c, script) ==
  LET n    == c.asked + 1
      new  == Writes(script, n)
      last == Cardinality(Run(script))
      once == c.autocommit /\ ~c.begun IN
  [c EXCEPT !.asked = n, !.written = @ \cup new,
            !.stored = IF once THEN @ \cup new ELSE @,
            !.pending = IF once THEN @ ELSE @ \cup new,
            !.diag = IF last > 0 /\ script[last].warn THEN <<n, last>> ELSE None]

query(s, script) ==
  IF ~Idle(s.conn) THEN Raise(s)
  ELSE ReadHeader([s EXCEPT !.conn = OnServer(@, script)],
         [k \in DOMAIN script |-> [of |-> s.conn.asked + 1, at |-> k, kind |-> script[k].kind,
                                   rows |-> script[k].rows, warn |-> script[k].warn]])

\* `end' is its -1.
next_result(s) ==
  IF s.conn.status # "ready" THEN Raise(s)
  ELSE IF s.conn.more = <<>> THEN [s EXCEPT !.end = TRUE] ELSE ReadHeader(s, s.conn.more)

\* A query whose only answer is "ok".
Command(s, Effect(_)) ==
  IF Idle(s.conn) THEN [s EXCEPT !.conn = [Effect(@) EXCEPT !.diag = None]] ELSE Raise(s)

Commit(c)   == [c EXCEPT !.stored = @ \cup c.pending, !.pending = {}, !.begun = FALSE]
Rollback(c) == [c EXCEPT !.pending = {}, !.begun = FALSE]
Begin(c)    == [Commit(c) EXCEPT !.begun = TRUE]

-----------------------------------------------------------------------------
(* connections.py                                                          *)

\* 240-243
autocommit(s, on) ==
  IF s.conn.autocommit = on THEN s
  ELSE Command(s, LAMBDA c : [(IF on THEN Commit(c) ELSE c) EXCEPT !.autocommit = on])

\* Mutant: a block relies on autocommit being off.
enter_NoBegin(s) == s

\* 256-259; the cursor is opened by whoever calls it.
enter(s) == IF s.conn.autocommit THEN Command(s, Begin) ELSE s

\* 261-265
exit(s, exc) == IF exc THEN Command(s, Rollback) ELSE Command(s, Commit)

\* 280-287
begin(s) == Command(s, Begin)

py_charset(charset) == IF charset = "utf8mb4" THEN "utf8" ELSE charset

\* The server's part of set_character_set.
SetNames(s, charset) ==
  IF charset \in Unknown THEN Raise(s)
  ELSE Command(s, LAMBDA c : [c EXCEPT !.charset = charset])

Decode(s, charset) ==
  [s EXCEPT !.conn.string_decoder = py_charset(charset), !.conn.unicode_literal = py_charset(charset)]

\* Mutant: the decoders are switched first.
set_character_set_DecodersFirst(s, charset) ==
  IF s.conn.charset = charset THEN Decode(s, charset) ELSE SetNames(Decode(s, charset), charset)

\* 301-319
set_character_set(s, charset) ==
  Then(IF s.conn.charset = charset THEN s ELSE SetNames(s, charset), LAMBDA t : Decode(t, charset))

\* 321-327
set_sql_mode(s) == Command(s, LAMBDA c : c)

\* 335-338: SHOW WARNINGS and its only result set.
show_warnings(s) == IF Idle(s.conn) THEN [s EXCEPT !.shown = s.conn.diag] ELSE Raise(s)

\* What the constructor finds on the server: autocommit on.
Fresh(charset) ==
  [status |-> "ready", set |-> None, read |-> 0, more |-> <<>>, diag |-> None, asked |-> 0,
   autocommit |-> TRUE, begun |-> FALSE, pending |-> {}, stored |-> {}, written |-> {},
   charset |-> charset, string_decoder |-> None, unicode_literal |-> None]

NoCall(c) == [conn |-> c, raised |-> FALSE, end |-> FALSE, shown |-> None]

\* 189-192, 213-219, 234-238.  charset = None: the server's; on = None: autocommit
\* is left as it is.
connect(charset, on, transactional) ==
  LET fresh == NoCall(Fresh("latin1"))
      named == set_character_set(fresh, IF charset = None THEN fresh.conn.charset ELSE charset) IN
  Then(named, LAMBDA s : IF transactional /\ on # None THEN autocommit(s, on) ELSE s)

-----------------------------------------------------------------------------
(* Whatever fails, rows are decoded, and unicode encoded, in the character *)
(* set that the connection has.                                            *)
CharsetInSync ==
  /\ conn.string_decoder = py_charset(conn.charset)
  /\ conn.unicode_literal = py_charset(conn.charset)

=============================================================================
