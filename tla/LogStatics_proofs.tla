-------------------------- MODULE LogStatics_proofs --------------------------
(***************************************************************************)
(* Proofs about LogStatics, for any servers, logs and lengths of windows.  *)
(***************************************************************************)
EXTENDS LogStatics, Induction

(* What some lines K of a log say of a plugin, and of HTTP.                *)
Mine(l, K, p)      == {k \in K : l[k].plugin = p}
From(l, K, p, src) == {k \in Mine(l, K, p) : l[k].src = src}
Wrong(l, K, p)     == {k \in Mine(l, K, p) : Faulty(l[k])}
Found(l, K, p)     == {k \in Mine(l, K, p) \ Wrong(l, K, p) : parse_func(l[k]) = "found"}
Failed(l, K)       == {k \in K : l[k].plugin = None \/ Faulty(l[k])}

\* The counters c are those of p in the lines K.
Says(l, K, p, c) ==
  /\ Get(c, "push") = Cardinality(From(l, K, p, "push"))
  /\ Get(c, "pull") = Cardinality(From(l, K, p, "pull"))
  /\ Get(c, "detect") = Cardinality(Found(l, K, p))
  /\ Get(c, "sum") = Cardinality(Mine(l, K, p))
  /\ Get(c, "err") = Cardinality(Wrong(l, K, p))

\* The lines of the window from w before line n.
Counted(l, w, n) == {k \in DOMAIN l : k < n /\ WindowStart(l)[k] = w}

\* The rows of a window.
Row(l, id, s, p, i) ==
  LET K == Window(l, i) IN
  [id |-> id, plugin |-> p, server_addr |-> s, date_time |-> l[i].time,
   push |-> Cardinality(From(l, K, p, "push")), pull |-> Cardinality(From(l, K, p, "pull")),
   detect |-> Cardinality(Found(l, K, p)), sum |-> Cardinality(Mine(l, K, p)),
   err |-> Cardinality(Wrong(l, K, p))]
HRow(l, s, i) ==
  LET K == Window(l, i) IN
  [server_addr |-> s, date_time |-> l[i].time, sum |-> Cardinality(K), err |-> Cardinality(Failed(l, K))]
PluginsIn(l, i) == {l[k].plugin : k \in Window(l, i)} \ {None}

\* The counters r are those of the lines K.
CounterOf(r, p) == IF p \in DOMAIN r THEN r[p] ELSE NewCounter
Tallied(l, K, r) ==
  /\ DOMAIN r \subseteq Plugins
  /\ \A p \in Plugins :
       /\ IsCounter(CounterOf(r, p)) /\ Says(l, K, p, CounterOf(r, p))
       /\ p \in DOMAIN r <=> Mine(l, K, p) # {}

-----------------------------------------------------------------------------
(* The inductive invariant                                                 *)

VarType ==
  /\ log \in [Servers -> Seq(EntryType)] /\ runs \in [Servers -> Nat]
  /\ pc \in [Servers -> {"off", "lines", "plugins", "done"}] /\ db \in [Servers -> BOOLEAN]
  /\ pos \in [Servers -> Nat \ {0}] /\ start_dt \in [Servers -> Nat \cup {None}]
  /\ sum \in [Servers -> Nat] /\ err \in [Servers -> Nat] /\ todo \in [Servers -> SUBSET Plugins]
  /\ DOMAIN res = Servers /\ lost \subseteq Servers \X {"plugins", "http"}

ServerType(s) ==
  /\ log[s] \in Logs[s] /\ runs[s] <= MaxRuns[s] /\ pos[s] <= Len(log[s]) + 1
  /\ DOMAIN res[s] \subseteq Plugins /\ \A p \in DOMAIN res[s] : IsCounter(res[s][p])
  /\ todo[s] \subseteq DOMAIN res[s] /\ (pc[s] = "plugins" => start_dt[s] # None)
  /\ pc[s] # "plugins" => todo[s] = {}

\* Both tables have what they should have of the windows that start before line n.
Has(s, p, i) == \E row \in log_statics : row = Row(log[s], row.id, s, p, i)
Done(s, n) ==
  \A i \in 1..(n - 1) : WindowStart(log[s])[i] = i =>
    /\ <<s, "plugins">> \notin lost => \A p \in PluginsIn(log[s], i) : Has(s, p, i)
    /\ <<s, "http">> \notin lost /\ PluginsIn(log[s], i) # {} => HRow(log[s], s, i) \in http_statics

\* The window that starts with line w is counted, up to the line before pos.
Current(s, w) ==
  LET K == Counted(log[s], w, pos[s]) IN
  /\ w \in DOMAIN log[s] /\ WindowStart(log[s])[w] = w /\ start_dt[s] = log[s][w].time
  /\ w = pos[s] \/ (w < pos[s] /\ WindowStart(log[s])[pos[s] - 1] = w)
  /\ sum[s] = Cardinality(K) /\ err[s] = Cardinality(Failed(log[s], K))
  /\ Tallied(log[s], K, res[s])

\* It is over, and what is not to be inserted any more is there.
Inserting(s, w) ==
  /\ w < pos[s] /\ (pos[s] <= Len(log[s]) => WindowStart(log[s])[pos[s]] = pos[s])
  /\ <<s, "plugins">> \notin lost => \A p \in DOMAIN res[s] \ todo[s] : Has(s, p, w)

NoLine(s) ==
  /\ pc[s] = "lines" /\ start_dt[s] = None /\ pos[s] = 1
  /\ sum[s] = 0 /\ err[s] = 0 /\ Tallied(log[s], {}, res[s])

ServerInv(s) ==
  /\ pc[s] = "lines"   => NoLine(s) \/ \E w \in DOMAIN log[s] : Current(s, w) /\ Done(s, w)
  /\ pc[s] = "plugins" => \E w \in DOMAIN log[s] : Current(s, w) /\ Done(s, w) /\ Inserting(s, w)
  /\ pc[s] = "done"    => Done(s, pos[s])
  /\ pc[s] = "off"     => pos[s] = 1 \/ Done(s, WindowStart(log[s])[pos[s] - 1])

\* Every row is that of a window, and no two of plugins have one key.
TableInv ==
  /\ IsFiniteSet(log_statics)
  /\ \A row \in log_statics :
       /\ row.id \in Nat /\ row.plugin \in Plugins /\ row.server_addr \in Servers
       /\ \E i \in DOMAIN log[row.server_addr] :
            /\ WindowStart(log[row.server_addr])[i] = i
            /\ row = Row(log[row.server_addr], row.id, row.server_addr, row.plugin, i)
  /\ \A a, b \in log_statics : SameKey(a, b) => a = b
  /\ \A row \in http_statics :
       /\ row.server_addr \in Servers
       /\ \E i \in DOMAIN log[row.server_addr] :
            /\ WindowStart(log[row.server_addr])[i] = i
            /\ row = HRow(log[row.server_addr], row.server_addr, i)

IInv == VarType /\ (\A s \in Servers : ServerType(s) /\ ServerInv(s)) /\ TableInv

-----------------------------------------------------------------------------
(* Windows                                                                 *)

\* The recursion of WindowStart has a solution: one for the first n lines
\* gives one for the first n + 1.
LEMMA WindowStartDef ==
  ASSUME NEW l \in Seq(EntryType)
  PROVE  LET start == WindowStart(l) IN
         start = [k \in DOMAIN l |->
                    IF k = 1 THEN 1
                    ELSE IF Elapsed(l[k].time, l[start[k - 1]].time) >= Step THEN k ELSE start[k - 1]]
<1> DEFINE Next1(f, k) == IF Elapsed(l[k].time, l[f[k - 1]].time) >= Step THEN k ELSE f[k - 1]
           Solves(f, n) == f = [k \in 1..n |-> IF k = 1 THEN 1 ELSE Next1(f, k)]
           A == {n \in Nat : \E f : Solves(f, n)}
<1>1. 0 \in A
  <2>1. Solves(<<>>, 0)
    OBVIOUS
  <2> QED
    BY <2>1
<1>2. ASSUME NEW n \in Nat, n \in A PROVE n + 1 \in A
  <2>1. PICK f : Solves(f, n)
    BY <1>2
  <2> DEFINE g == [k \in 1..(n + 1) |-> IF k = 1 THEN 1 ELSE Next1(f, k)]
  <2>2. ASSUME NEW k \in 1..n PROVE g[k] = f[k]
    <3>1. k \in 1..(n + 1)
      OBVIOUS
    <3> HIDE DEF Next1
    <3> QED
      BY <2>1, <3>1
  <2>3. ASSUME NEW k \in 1..(n + 1), k # 1 PROVE Next1(g, k) = Next1(f, k)
    <3>1. k - 1 \in 1..n
      BY <2>3
    <3>2. g[k - 1] = f[k - 1]
      BY <2>2, <3>1
    <3> HIDE DEF g
    <3> QED
      BY <3>2, Zenon
  <2>4. Solves(g, n + 1)
    BY <2>3
  <2> HIDE DEF g, Solves
  <2> QED
    BY <2>4
<1>3. Len(l) \in A
  <2> HIDE DEF A
  <2> QED
    BY <1>1, <1>2, Numbers
<1>4. \E f : f = [k \in DOMAIN l |-> IF k = 1 THEN 1 ELSE Next1(f, k)]
  BY <1>3
<1> QED
  BY <1>4, Zenon DEF WindowStart

(* What the recursion says of the lines: a window starts with its first    *)
(* line, and windows follow each other.                                    *)
LEMMA WindowLines ==
  ASSUME NEW l \in Seq(EntryType)
  PROVE  LET start == WindowStart(l) IN
         /\ \A k \in DOMAIN l : start[k] \in 1..k /\ start[start[k]] = start[k]
         /\ \A k \in DOMAIN l : k # 1 => 
              start[k] = IF Elapsed(l[k].time, l[start[k - 1]].time) >= Step THEN k ELSE start[k - 1]
         /\ \A j, k \in DOMAIN l : j <= k => start[j] <= start[k]
<1> DEFINE start == WindowStart(l)
           Good(n) == /\ \A k \in 1..n : start[k] \in 1..k /\ start[start[k]] = start[k]
                      /\ \A j, k \in 1..n : j <= k => start[j] <= start[k]
           A == {n \in Nat : n <= Len(l) => Good(n)}
<1>1. /\ 1 \in DOMAIN l => start[1] = 1
      /\ \A k \in DOMAIN l : k # 1 =>
           start[k] = IF Elapsed(l[k].time, l[start[k - 1]].time) >= Step THEN k ELSE start[k - 1]
  <2> HIDE DEF start
  <2>1. start = [k \in DOMAIN l |->
                  IF k = 1 THEN 1
                  ELSE IF Elapsed(l[k].time, l[start[k - 1]].time) >= Step THEN k ELSE start[k - 1]]
    BY WindowStartDef DEF start
  <2> QED
    BY <2>1
<1> HIDE DEF start
<1>2. 0 \in A
  OBVIOUS
<1>3. ASSUME NEW n \in Nat, n \in A PROVE n + 1 \in A
  <2> SUFFICES ASSUME n + 1 <= Len(l) PROVE Good(n + 1)
    OBVIOUS
  <2>1. Good(n) /\ n + 1 \in DOMAIN l
    BY <1>3
  <2>2. CASE n = 0
    BY <1>1, <2>1, <2>2
  <2>3. CASE n # 0
    <3>1. start[n + 1] = n + 1 \/ start[n + 1] = start[n]
      BY <1>1, <2>1, <2>3
    <3>2. start[n] \in 1..n /\ start[start[n]] = start[n]
      BY <2>1, <2>3
    <3>3. \A j \in 1..n : start[j] \in 1..n /\ start[j] <= start[n]
      BY <2>1, <2>3
    <3> QED
      BY <2>1, <3>1, <3>2, <3>3
  <2> QED
    BY <2>2, <2>3
<1>4. Good(Len(l))
  <2>1. Len(l) \in A
    <3> HIDE DEF A
    <3> QED
      BY <1>2, <1>3, Numbers
  <2> QED
    BY <2>1
<1> QED
  BY <1>1, <1>4 DEF start

\* The windows cut the log into pieces: before line n, and from there on.
LEMMA WindowPieces ==
  ASSUME NEW l \in Seq(EntryType), NEW n \in 1..(Len(l) + 1), NEW w \in DOMAIN l, w < n,
         n <= Len(l) => WindowStart(l)[n] = n
  PROVE  Window(l, w) = Counted(l, w, n)
<1> DEFINE start == WindowStart(l)
<1>1. ASSUME NEW k \in DOMAIN l, start[k] = w PROVE k < n
  <2> SUFFICES ASSUME k >= n PROVE FALSE
    OBVIOUS
  <2>1. n \in DOMAIN l /\ start[n] = n
    OBVIOUS
  <2>2. start[n] <= start[k]
    BY <2>1, WindowLines
  <2> QED
    BY <1>1, <2>1, <2>2
<1> QED
  BY <1>1 DEF Window, Counted

-----------------------------------------------------------------------------
(* Counters                                                                *)

Keys == Srcs \cup {"detect", "sum", "err"}

LEMMA Bumped ==
  ASSUME NEW c, IsCounter(c), NEW k \in Keys
  PROVE  /\ IsCounter(Bump(c, k))
         /\ \A j \in Keys : Get(Bump(c, k), j) = IF j = k THEN Get(c, j) + 1 ELSE Get(c, j)
<1>1. \A j \in DOMAIN c : c[j] \in Nat
  BY DEF IsCounter
<1>2. Bump(c, k) \in [DOMAIN c \cup {k} -> Nat]
  BY <1>1 DEF Bump
<1>3. DOMAIN Bump(c, k) = DOMAIN c \cup {k}
  BY DEF Bump
<1>4. IsCounter(Bump(c, k))
  BY <1>2, <1>3 DEF IsCounter, Keys
<1>5. ASSUME NEW j \in Keys PROVE Get(Bump(c, k), j) = IF j = k THEN Get(c, j) + 1 ELSE Get(c, j)
  BY <1>1 DEF Bump, Get
<1> QED
  BY <1>4, <1>5

LEMMA Countable ==
  ASSUME NEW l \in Seq(EntryType), NEW K \in SUBSET DOMAIN l
  PROVE  IsFiniteSet(K) /\ Cardinality(K) \in Nat
<1>1. IsFiniteSet(DOMAIN l)
  BY FS_Interval
<1> QED
  BY <1>1, FS_Subset, FS_CardinalityType

\* One line more: the counters of its plugin follow, the others do not change.
LEMMA LineCounted ==
  ASSUME NEW l \in Seq(EntryType), NEW K \in SUBSET DOMAIN l, NEW k \in DOMAIN l \ K,
         NEW p \in Plugins, NEW c, IsCounter(c), Says(l, K, p, c)
  PROVE  LET e    == l[k]
             seen == Bump(Bump(c, e.src), "sum")
             n    == IF Faulty(e) THEN Bump(seen, "err")
                     ELSE IF parse_func(e) = "found" THEN Bump(seen, "detect") ELSE seen IN
         /\ e.plugin # p => Says(l, K \cup {k}, p, c)
         /\ e.plugin = p => IsCounter(n) /\ Says(l, K \cup {k}, p, n)
<1> DEFINE e    == l[k]
           seen == Bump(Bump(c, e.src), "sum")
           n    == IF Faulty(e) THEN Bump(seen, "err")
                   ELSE IF parse_func(e) = "found" THEN Bump(seen, "detect") ELSE seen
           U    == K \cup {k}
<1>0. /\ \A T \in SUBSET DOMAIN l : IsFiniteSet(T) /\ Cardinality(T) \in Nat
      /\ e.src \in Srcs
  <2>1. e \in EntryType
    OBVIOUS
  <2> QED
    BY <2>1, Countable DEF EntryType
<1>1. \A T \in SUBSET K : Cardinality(T \cup {k}) = Cardinality(T) + 1
  BY <1>0, FS_AddElement
<1>2. CASE e.plugin # p
  <2>1. Mine(l, U, p) = Mine(l, K, p)
    BY <1>2 DEF Mine
  <2> QED
    BY <1>2, <2>1 DEF Says, From, Wrong, Found
<1>3. CASE e.plugin = p
  <2>1. Mine(l, U, p) = Mine(l, K, p) \cup {k}
    BY <1>3 DEF Mine
  <2>2. \A src \in {"push", "pull"} :
          From(l, U, p, src) = IF e.src = src THEN From(l, K, p, src) \cup {k} ELSE From(l, K, p, src)
    BY <2>1 DEF From
  <2>3. Wrong(l, U, p) = IF Faulty(e) THEN Wrong(l, K, p) \cup {k} ELSE Wrong(l, K, p)
    BY <2>1 DEF Wrong
  <2>4. Found(l, U, p) = IF ~Faulty(e) /\ parse_func(e) = "found" THEN Found(l, K, p) \cup {k} ELSE Found(l, K, p)
    BY <2>1, <2>3 DEF Found, Wrong, Mine
  <2>5. /\ Mine(l, K, p) \in SUBSET K /\ Wrong(l, K, p) \in SUBSET K /\ Found(l, K, p) \in SUBSET K
        /\ \A src \in {"push", "pull"} : From(l, K, p, src) \in SUBSET K
    BY DEF Mine, From, Wrong, Found
  <2>6. IsCounter(Bump(c, e.src)) /\ IsCounter(seen) /\ IsCounter(n)
    BY <1>0, Bumped DEF Keys
  <2>7. \A j \in Keys :
          Get(n, j) = Get(c, j) + (IF j = e.src THEN 1 ELSE 0) + (IF j = "sum" THEN 1 ELSE 0)
            + (IF Faulty(e) THEN IF j = "err" THEN 1 ELSE 0
               ELSE IF parse_func(e) = "found" /\ j = "detect" THEN 1 ELSE 0)
    <3>1. \A j \in Keys : Get(Bump(c, e.src), j) = IF j = e.src THEN Get(c, j) + 1 ELSE Get(c, j)
      BY <1>0, Bumped DEF Keys
    <3>2. \A j \in Keys : Get(seen, j) = IF j = "sum" THEN Get(Bump(c, e.src), j) + 1 ELSE Get(Bump(c, e.src), j)
      BY <2>6, Bumped DEF Keys
    <3>3. \A j \in Keys : Get(Bump(seen, "err"), j) = IF j = "err" THEN Get(seen, j) + 1 ELSE Get(seen, j)
      BY <2>6, Bumped DEF Keys
    <3>4. \A j \in Keys : Get(Bump(seen, "detect"), j) = IF j = "detect" THEN Get(seen, j) + 1 ELSE Get(seen, j)
      BY <2>6, Bumped DEF Keys
    <3>5. \A j \in Keys : Get(c, j) \in Nat
      BY DEF IsCounter, Get
    <3> HIDE DEF seen
    <3> QED
      BY <3>1, <3>2, <3>3, <3>4, <3>5
  <2>8. Srcs = {"push", "pull", "pulled"} /\ Keys = Srcs \cup {"detect", "sum", "err"}
    BY DEF Srcs, src_type, Keys
  <2>9. \A j \in Keys : Get(c, j) \in Nat
    BY DEF IsCounter, Get
  <2> HIDE DEF n, U, e
  <2>10. Says(l, U, p, n)
    <3>1. Get(n, "push") = Cardinality(From(l, U, p, "push"))
      <4>1. Get(n, "push") = IF e.src = "push" THEN Get(c, "push") + 1 ELSE Get(c, "push")
        BY <1>0, <2>7, <2>8, <2>9
      <4> QED
        BY <1>1, <2>2, <2>5, <4>1 DEF Says
    <3>2. Get(n, "pull") = Cardinality(From(l, U, p, "pull"))
      <4>1. Get(n, "pull") = IF e.src = "pull" THEN Get(c, "pull") + 1 ELSE Get(c, "pull")
        BY <1>0, <2>7, <2>8, <2>9
      <4> QED
        BY <1>1, <2>2, <2>5, <4>1 DEF Says
    <3>3. Get(n, "detect") = Cardinality(Found(l, U, p))
      <4>1. Get(n, "detect") = IF ~Faulty(e) /\ parse_func(e) = "found" THEN Get(c, "detect") + 1 ELSE Get(c, "detect")
        BY <1>0, <2>7, <2>8, <2>9
      <4> QED
        BY <1>1, <2>4, <2>5, <4>1 DEF Says
    <3>4. Get(n, "sum") = Cardinality(Mine(l, U, p))
      <4>1. Get(n, "sum") = Get(c, "sum") + 1
        BY <1>0, <2>7, <2>8, <2>9
      <4> QED
        BY <1>1, <2>1, <2>5, <4>1 DEF Says
    <3>5. Get(n, "err") = Cardinality(Wrong(l, U, p))
      <4>1. Get(n, "err") = IF Faulty(e) THEN Get(c, "err") + 1 ELSE Get(c, "err")
        BY <1>0, <2>7, <2>8, <2>9
      <4> QED
        BY <1>1, <2>3, <2>5, <4>1 DEF Says
    <3> QED
      BY <3>1, <3>2, <3>3, <3>4, <3>5 DEF Says
  <2> QED
    BY <1>3, <2>6, <2>10 DEF n, U, e
<1> QED
  BY <1>2, <1>3

\* Before the first line.
LEMMA NothingTallied == ASSUME NEW l PROVE Tallied(l, {}, Empty)
<1>1. \A p \in Plugins : CounterOf(Empty, p) = NewCounter
  BY DEF CounterOf, Empty
<1>2. IsCounter(NewCounter)
  BY DEF IsCounter, NewCounter
<1>3. \A p \in Plugins : Says(l, {}, p, NewCounter)
  <2>1. Cardinality({}) = 0
    BY FS_EmptySet
  <2>2. \A p : Mine(l, {}, p) = {} /\ Wrong(l, {}, p) = {} /\ Found(l, {}, p) = {} /\ \A src : From(l, {}, p, src) = {}
    BY DEF Mine, Wrong, Found, From
  <2> QED
    BY <2>1, <2>2 DEF Says, NewCounter, Get
<1>4. \A p \in Plugins : p \notin DOMAIN Empty /\ Mine(l, {}, p) = {}
  BY DEF Empty, Mine
<1>5. DOMAIN Empty \subseteq Plugins
  BY DEF Empty
<1> QED
  BY <1>1, <1>2, <1>3, <1>4, <1>5 DEF Tallied

\* What Count makes of the counters of a line with a plugin.
Counter2(r, e) ==
  LET seen == Bump(Bump(CounterOf(r, e.plugin), e.src), "sum") IN
  IF Faulty(e) THEN Bump(seen, "err")
  ELSE IF parse_func(e) = "found" THEN Bump(seen, "detect") ELSE seen

LEMMA LineTallied ==
  ASSUME NEW l \in Seq(EntryType), NEW K \in SUBSET DOMAIN l, NEW k \in DOMAIN l \ K,
         NEW r, Tallied(l, K, r), NEW t,
         t = IF l[k].plugin = None THEN r
             ELSE [q \in DOMAIN r \cup {l[k].plugin} |-> IF q = l[k].plugin THEN Counter2(r, l[k]) ELSE r[q]]
  PROVE  Tallied(l, K \cup {k}, t)
<1>0. l[k].plugin \in Plugins \cup {None}
  <2>1. l[k] \in EntryType
    OBVIOUS
  <2> QED
    BY <2>1 DEF EntryType
<1>1. DOMAIN t \subseteq Plugins
  BY <1>0 DEF Tallied
<1>2. ASSUME NEW p \in Plugins, p # l[k].plugin
      PROVE  /\ CounterOf(t, p) = CounterOf(r, p) /\ (p \in DOMAIN t <=> p \in DOMAIN r)
             /\ Mine(l, K \cup {k}, p) = Mine(l, K, p)
  BY <1>2 DEF CounterOf, Mine
<1>3. ASSUME NEW p \in Plugins, p = l[k].plugin
      PROVE  CounterOf(t, p) = Counter2(r, l[k]) /\ p \in DOMAIN t /\ k \in Mine(l, K \cup {k}, p)
  BY <1>3, NonePlugin DEF CounterOf, Mine
<1>4. ASSUME NEW p \in Plugins PROVE IsCounter(CounterOf(t, p)) /\ Says(l, K \cup {k}, p, CounterOf(t, p))
  <2>1. IsCounter(CounterOf(r, p)) /\ Says(l, K, p, CounterOf(r, p))
    BY DEF Tallied
  <2>2. CASE p # l[k].plugin
    BY <1>2, <2>1, <2>2, LineCounted
  <2>3. CASE p = l[k].plugin
    <3>1. IsCounter(Counter2(r, l[k])) /\ Says(l, K \cup {k}, p, Counter2(r, l[k]))
      BY <2>1, <2>3, LineCounted DEF Counter2
    <3> QED
      BY <1>3, <2>3, <3>1
  <2> QED
    BY <2>2, <2>3
<1>5. ASSUME NEW p \in Plugins PROVE p \in DOMAIN t <=> Mine(l, K \cup {k}, p) # {}
  BY <1>2, <1>3 DEF Tallied
<1> QED
  BY <1>1, <1>4, <1>5 DEF Tallied

\* The same for HTTP.
LEMMA LineFailed ==
  ASSUME NEW l \in Seq(EntryType), NEW K \in SUBSET DOMAIN l, NEW k \in DOMAIN l \ K
  PROVE  /\ Cardinality(K \cup {k}) = Cardinality(K) + 1
         /\ Cardinality(Failed(l, K \cup {k})) =
              IF l[k].plugin = None \/ Faulty(l[k]) THEN Cardinality(Failed(l, K)) + 1
              ELSE Cardinality(Failed(l, K))
<1>1. \A T \in SUBSET K : Cardinality(T \cup {k}) = Cardinality(T) + 1
  BY Countable, FS_AddElement
<1>2. Failed(l, K) \in SUBSET K
  BY DEF Failed
<1>3. Failed(l, K \cup {k}) =
        IF l[k].plugin = None \/ Faulty(l[k]) THEN Failed(l, K) \cup {k} ELSE Failed(l, K)
  BY DEF Failed
<1> QED
  BY <1>1, <1>2, <1>3

-----------------------------------------------------------------------------
(* Steps                                                                   *)

\* What t has is what it had, and its rows are still there.
Keeps(t) ==
  /\ pc'[t] = pc[t] /\ db'[t] = db[t] /\ pos'[t] = pos[t] /\ start_dt'[t] = start_dt[t] /\ res'[t] = res[t]
  /\ sum'[t] = sum[t] /\ err'[t] = err[t] /\ todo'[t] = todo[t] /\ runs'[t] = runs[t]
  /\ \A table \in {"plugins", "http"} : <<t, table>> \in lost => <<t, table>> \in lost'
RowsStay == log' = log /\ log_statics \subseteq log_statics' /\ http_statics \subseteq http_statics'

OnlyOf(s) == RowsStay /\ \A t \in Servers \ {s} : Keeps(t)

Action(s) ==
  \/ Start(s) \/ Kill(s) \/ Count(s) \/ ParseRaises(s) \/ Finish(s) \/ Flush(s)
  \/ InsertPlugin(s) \/ InsertHttp(s)

LEMMA OneServer == ASSUME VarType, NEW s \in Servers, Action(s) PROVE OnlyOf(s)
<1>1. Start(s) => OnlyOf(s)
  BY DEF VarType, Start, OnlyOf, Keeps, RowsStay, tables
<1>2. End(s) => OnlyOf(s)
  BY DEF VarType, End, OnlyOf, Keeps, RowsStay, counters, tables
<1>3. Count(s) => OnlyOf(s)
  BY DEF VarType, Count, SetCounter, OnlyOf, Keeps, RowsStay, tables
<1>4. Finish(s) => OnlyOf(s)
  BY <1>2 DEF VarType, Finish, OnlyOf, Keeps, RowsStay, counters, tables
<1>5. Flush(s) => OnlyOf(s)
  BY <1>2 DEF VarType, Flush, OnlyOf, Keeps, RowsStay, counters, tables
<1>6. InsertPlugin(s) => OnlyOf(s)
  BY DEF VarType, InsertPlugin, OnlyOf, Keeps, RowsStay, counters
<1>7. InsertHttp(s) => OnlyOf(s)
  BY DEF VarType, InsertHttp, NextWindow, OnlyOf, Keeps, RowsStay
<1> QED
  BY <1>1, <1>2, <1>3, <1>4, <1>5, <1>6, <1>7 DEF Action, Kill, ParseRaises

LEMMA KeepsInv ==
  ASSUME IInv, RowsStay, NEW t \in Servers, Keeps(t)
  PROVE  ServerType(t)' /\ ServerInv(t)'
<1>0. ServerType(t) /\ ServerInv(t)
  BY DEF IInv
<1>1. /\ pc'[t] = pc[t] /\ pos'[t] = pos[t] /\ start_dt'[t] = start_dt[t] /\ res'[t] = res[t]
      /\ sum'[t] = sum[t] /\ err'[t] = err[t] /\ todo'[t] = todo[t] /\ runs'[t] = runs[t]
      /\ \A table \in {"plugins", "http"} : <<t, table>> \notin lost' => <<t, table>> \notin lost
      /\ log' = log /\ log_statics \subseteq log_statics' /\ http_statics \subseteq http_statics'
  BY DEF Keeps, RowsStay
<1>2. ServerType(t)'
  BY <1>0, <1>1 DEF ServerType
<1>3. \A p, i : Has(t, p, i) => Has(t, p, i)'
  BY <1>1 DEF Has
<1>4. \A n : Done(t, n) => Done(t, n)'
  BY <1>1, <1>3 DEF Done
<1>5. \A w : Current(t, w) => Current(t, w)'
  BY <1>1 DEF Current
<1>6. \A w : Inserting(t, w) => Inserting(t, w)'
  BY <1>1, <1>3 DEF Inserting
<1>7. NoLine(t) => NoLine(t)'
  BY <1>1 DEF NoLine
<1>8. ServerInv(t)'
  BY <1>0, <1>1, <1>4, <1>5, <1>6, <1>7 DEF ServerInv
<1> QED
  BY <1>2, <1>8

LEMMA NoTime == ASSUME NEW t \in Nat PROVE Elapsed(t, t) = 0
<1>1. Day \in Nat /\ Day > 0 /\ t - t = 0
  BY StepInDay
<1>2. 0 % Day = 0
  BY <1>1
<1> QED
  BY <1>1, <1>2 DEF Elapsed

LEMMA DoneBefore == ASSUME NEW s, NEW n \in Nat, NEW m \in Nat, m <= n, Done(s, n) PROVE Done(s, m)
BY DEF Done

\* What is known of the log of a server, and of the window it counts.
LEMMA CurrentWindow ==
  ASSUME IInv, NEW s \in Servers, NEW w, Current(s, w)
  PROVE  LET l == log[s]  K == Counted(l, w, pos[s]) IN
         /\ l \in Seq(EntryType) /\ pos[s] \in 1..(Len(l) + 1) /\ w \in DOMAIN l /\ w <= pos[s]
         /\ K \in SUBSET DOMAIN l /\ pos[s] \notin K
         /\ start_dt[s] \in Nat /\ start_dt[s] # None
         /\ w < pos[s] \/ ~WindowOver(s)
         /\ pos[s] > 1 => WindowStart(l)[pos[s] - 1] <= w
<1> DEFINE l == log[s]
           K == Counted(l, w, pos[s])
<1>1. l \in Seq(EntryType) /\ pos[s] \in 1..(Len(l) + 1) /\ w \in DOMAIN l /\ w <= pos[s]
  BY DEF IInv, VarType, ServerType, Current
<1>2. K \in SUBSET DOMAIN l /\ pos[s] \notin K
  BY <1>1 DEF Counted
<1>3. start_dt[s] \in Nat /\ start_dt[s] # None
  <2>1. l[w] \in EntryType
    BY <1>1
  <2> QED
    BY <2>1, NonePlugin DEF Current, EntryType
<1>4. w < pos[s] \/ ~WindowOver(s)
  <2> SUFFICES ASSUME w = pos[s] PROVE ~WindowOver(s)
    BY <1>1
  <2>1. log[s][pos[s]].time = start_dt[s]
    BY DEF Current
  <2>2. Elapsed(start_dt[s], start_dt[s]) = 0
    BY <1>3, NoTime
  <2> QED
    BY <2>1, <2>2, StepInDay DEF WindowOver
<1>5. pos[s] > 1 => WindowStart(l)[pos[s] - 1] <= w
  <2> SUFFICES ASSUME pos[s] > 1, w = pos[s] PROVE WindowStart(l)[pos[s] - 1] <= w
    BY <1>1 DEF Current
  <2>1. pos[s] - 1 \in DOMAIN l
    BY <1>1
  <2> QED
    BY <1>1, <2>1, WindowLines
<1> QED
  BY <1>1, <1>2, <1>3, <1>4, <1>5

\* A process that ends leaves what it has put behind it.
LEMMA EndStep ==
  ASSUME IInv, NEW s \in Servers, End(s), pc[s] \in {"lines", "plugins"}
  PROVE  ServerType(s)' /\ ServerInv(s)'
<1>0. VarType /\ ServerType(s) /\ ServerInv(s)
  BY DEF IInv
<1>1. /\ pc'[s] = "off" /\ todo'[s] = {} /\ log' = log /\ pos' = pos /\ start_dt' = start_dt /\ res' = res
      /\ log_statics' = log_statics /\ http_statics' = http_statics /\ runs' = runs /\ lost' = lost
  BY <1>0 DEF End, counters, tables, VarType
<1>2. ServerType(s)'
  BY <1>0, <1>1 DEF ServerType
<1>3. pos[s] = 1 \/ Done(s, WindowStart(log[s])[pos[s] - 1])
  <2>1. NoLine(s) => pos[s] = 1
    BY DEF NoLine
  <2>2. ASSUME NEW w \in DOMAIN log[s], Current(s, w), Done(s, w), pos[s] # 1
        PROVE  Done(s, WindowStart(log[s])[pos[s] - 1])
    <3>1. /\ log[s] \in Seq(EntryType) /\ pos[s] \in 1..(Len(log[s]) + 1)
          /\ pos[s] > 1 => WindowStart(log[s])[pos[s] - 1] <= w
      BY <2>2, CurrentWindow
    <3>2. pos[s] - 1 \in DOMAIN log[s] /\ w \in Nat
      BY <2>2, <3>1
    <3>3. WindowStart(log[s])[pos[s] - 1] \in Nat
      BY <3>1, <3>2, WindowLines
    <3> QED
      BY <2>2, <3>1, <3>2, <3>3, DoneBefore
  <2> QED
    BY <1>0, <2>1, <2>2 DEF ServerInv
<1>4. ServerInv(s)'
  <2>1. \A n : Done(s, n) => Done(s, n)'
    BY <1>1 DEF Done, Has
  <2> QED
    BY <1>1, <1>3, <2>1 DEF ServerInv
<1> QED
  BY <1>2, <1>4

LEMMA StartStep == ASSUME IInv, NEW s \in Servers, Start(s) PROVE ServerType(s)' /\ ServerInv(s)'
<1>0. VarType /\ ServerType(s)
  BY DEF IInv
<1>1. /\ pc'[s] = "lines" /\ pos'[s] = 1 /\ start_dt'[s] = None /\ res'[s] = Empty
      /\ sum'[s] = 0 /\ err'[s] = 0 /\ runs'[s] = runs[s] + 1 /\ runs[s] < MaxRuns[s]
      /\ log' = log /\ todo' = todo
  BY <1>0 DEF Start, VarType
<1>2. NoLine(s)'
  BY <1>1, NothingTallied DEF NoLine
<1>3. todo[s] = {}
  BY <1>0 DEF Start, ServerType
<1>4. ServerType(s)'
  BY <1>0, <1>1, <1>3, RunsBounded DEF ServerType, VarType, Empty
<1> QED
  BY <1>1, <1>2, <1>4 DEF ServerInv

\* The line at pos belongs to the window from w, of which the lines K are counted.
LEMMA CountLine ==
  ASSUME IInv, NEW s \in Servers, Count(s), pc[s] = "lines",
         NEW w \in 1..pos[s], NEW K \in SUBSET DOMAIN log[s], pos[s] \notin K,
         start_dt'[s] = log[s][w].time,
         WindowStart(log[s])[w] = w, WindowStart(log[s])[pos[s]] = w,
         Counted(log[s], w, pos[s] + 1) = K \cup {pos[s]},
         sum[s] = Cardinality(K), err[s] = Cardinality(Failed(log[s], K)), Tallied(log[s], K, res[s]),
         Done(s, w)
  PROVE  ServerType(s)' /\ ServerInv(s)'
<1> DEFINE l == log[s]
           k == pos[s]
           e == l[k]
<1>0. VarType /\ ServerType(s) /\ l \in Seq(EntryType) /\ k \in DOMAIN l /\ k \in Nat
  <2>1. VarType /\ ServerType(s)
    BY DEF IInv
  <2>2. l \in Seq(EntryType) /\ k \in Nat \ {0}
    BY <2>1 DEF VarType
  <2>3. k <= Len(l)
    BY DEF Count, AtLine
  <2> QED
    BY <2>1, <2>2, <2>3
<1>1. /\ pc' = pc /\ pos'[s] = k + 1 /\ log' = log /\ todo' = todo /\ runs' = runs
      /\ sum'[s] = sum[s] + 1 /\ log_statics' = log_statics /\ http_statics' = http_statics /\ lost' = lost
  BY <1>0 DEF Count, VarType, tables
<1>2. err'[s] = IF e.plugin = None \/ Faulty(e) THEN err[s] + 1 ELSE err[s]
  BY <1>0 DEF Count, VarType
<1>3. res'[s] = IF e.plugin = None THEN res[s]
                ELSE [q \in DOMAIN res[s] \cup {e.plugin} |-> IF q = e.plugin THEN Counter2(res[s], e) ELSE res[s][q]]
  <2>1. CASE e.plugin = None
    BY <2>1 DEF Count
  <2>2. CASE e.plugin # None
    <3>1. SetCounter(s, e.plugin, Counter2(res[s], e))
      BY <2>2 DEF Count, Counter2, Counter, CounterOf
    <3> QED
      BY <1>0, <2>2, <3>1 DEF SetCounter, VarType
  <2> QED
    BY <2>1, <2>2
<1>4. Tallied(l, K \cup {k}, res'[s])
  <2>1. K \in SUBSET DOMAIN l /\ k \in DOMAIN l \ K /\ Tallied(l, K, res[s])
    BY <1>0
  <2> HIDE DEF l, k
  <2> QED
    BY <1>0, <1>3, <2>1, LineTallied
<1>5. sum'[s] = Cardinality(K \cup {k}) /\ err'[s] = Cardinality(Failed(l, K \cup {k}))
  <2>1. K \in SUBSET DOMAIN l /\ k \in DOMAIN l \ K
    BY <1>0
  <2>2. sum[s] = Cardinality(K) /\ err[s] = Cardinality(Failed(l, K))
    OBVIOUS
  <2> HIDE DEF l, k
  <2>3. /\ Cardinality(K \cup {k}) = Cardinality(K) + 1
        /\ Cardinality(Failed(l, K \cup {k})) =
             IF l[k].plugin = None \/ Faulty(l[k]) THEN Cardinality(Failed(l, K)) + 1
             ELSE Cardinality(Failed(l, K))
    BY <1>0, <2>1, LineFailed, Zenon
  <2> QED
    BY <1>1, <1>2, <2>2, <2>3
<1>6. Current(s, w)'
  <2>1. w \in DOMAIN l /\ w < pos'[s] /\ pos'[s] - 1 = k /\ log'[s] = l /\ pos'[s] = k + 1
    BY <1>0, <1>1
  <2>2. Counted(log'[s], w, pos'[s]) = K \cup {k}
    BY <2>1
  <2>3. WindowStart(log'[s])[w] = w /\ WindowStart(log'[s])[pos'[s] - 1] = w /\ start_dt'[s] = log'[s][w].time
    BY <2>1
  <2> QED
    BY <1>4, <1>5, <2>1, <2>2, <2>3 DEF Current
<1>7. Done(s, w)'
  BY <1>1 DEF Done, Has
<1>8. ServerType(s)'
  <2>1. DOMAIN res'[s] \subseteq Plugins
    BY <1>4 DEF Tallied
  <2>2. \A p \in DOMAIN res'[s] : IsCounter(res'[s][p])
    BY <1>4, <2>1 DEF Tallied, CounterOf
  <2>3. todo[s] = {}
    BY <1>0 DEF ServerType
  <2>4. k + 1 <= Len(l) + 1
    BY <1>0
  <2> QED
    BY <1>0, <1>1, <2>1, <2>2, <2>3, <2>4 DEF ServerType
<1>9. w \in DOMAIN l
  BY <1>0
<1> QED
  BY <1>1, <1>6, <1>7, <1>8, <1>9 DEF ServerInv

LEMMA CountStep == ASSUME IInv, NEW s \in Servers, Count(s) PROVE ServerType(s)' /\ ServerInv(s)'
<1> DEFINE l == log[s]
           k == pos[s]
           start == WindowStart(l)
<1>0. VarType /\ ServerType(s) /\ ServerInv(s) /\ l \in Seq(EntryType) /\ k \in DOMAIN l /\ k \in Nat
      /\ pc[s] = "lines" /\ ~WindowOver(s)
  <2>1. VarType /\ ServerType(s) /\ ServerInv(s)
    BY DEF IInv
  <2>2. l \in Seq(EntryType) /\ k \in Nat \ {0}
    BY <2>1 DEF VarType
  <2>3. k <= Len(l) /\ pc[s] = "lines" /\ ~WindowOver(s)
    BY DEF Count, AtLine
  <2> QED
    BY <2>1, <2>2, <2>3
<1>1. start_dt'[s] = IF start_dt[s] = None THEN l[k].time ELSE start_dt[s]
  BY <1>0 DEF Count, VarType
<1>2. CASE NoLine(s)
  <2>1. k = 1 /\ start_dt'[s] = l[1].time /\ start[1] = 1
    BY <1>0, <1>1, <1>2, WindowLines DEF NoLine
  <2>2. Counted(l, 1, k + 1) = {} \cup {k}
    BY <1>0, <2>1 DEF Counted
  <2>3. Cardinality({}) = 0 /\ Failed(l, {}) = {}
    BY FS_EmptySet DEF Failed
  <2>4. Done(s, 1)
    BY DEF Done
  <2>5. sum[s] = Cardinality({}) /\ err[s] = Cardinality(Failed(l, {})) /\ Tallied(l, {}, res[s])
    BY <1>2, <2>3 DEF NoLine
  <2>6. 1 \in 1..pos[s] /\ {} \in SUBSET DOMAIN l /\ pos[s] \notin {}
    BY <2>1
  <2> HIDE DEF l, start
  <2> QED
    BY <1>0, <2>1, <2>2, <2>4, <2>5, <2>6, CountLine DEF l, start
<1>3. ASSUME NEW w \in DOMAIN l, Current(s, w), Done(s, w) PROVE ServerType(s)' /\ ServerInv(s)'
  <2> DEFINE K == Counted(l, w, k)
  <2>1. w <= k /\ K \in SUBSET DOMAIN l /\ k \notin K /\ start_dt[s] # None
    BY <1>3, CurrentWindow
  <2>2. start[w] = w /\ start_dt[s] = l[w].time
    BY <1>3 DEF Current
  <2>3. start[k] = w
    <3>1. CASE w = k
      BY <2>2, <3>1
    <3>2. CASE w # k
      <4>1. start[k - 1] = w
        BY <1>3, <3>2 DEF Current
      <4>2. k # 1
        BY <1>0, <2>1, <3>2
      <4>3. ~(Elapsed(l[k].time, l[w].time) >= Step)
        BY <1>0, <2>1, <2>2 DEF WindowOver
      <4> QED
        BY <1>0, <4>1, <4>2, <4>3, WindowLines
    <3> QED
      BY <3>1, <3>2
  <2>4. Counted(l, w, k + 1) = K \cup {k}
    BY <1>0, <2>3 DEF Counted
  <2>5. start_dt'[s] = l[w].time
    BY <1>1, <2>1, <2>2
  <2>6. sum[s] = Cardinality(K) /\ err[s] = Cardinality(Failed(l, K)) /\ Tallied(l, K, res[s])
    BY <1>3 DEF Current
  <2>7. w \in 1..k
    BY <1>0, <2>1
  <2> HIDE DEF K
  <2> QED
    BY <1>0, <1>3, <2>1, <2>2, <2>3, <2>4, <2>5, <2>6, <2>7, CountLine
<1> QED
  BY <1>0, <1>2, <1>3 DEF ServerInv

\* A window that is over: it is as counted, and with it all windows before pos are.
LEMMA WindowEnds ==
  ASSUME IInv, NEW s \in Servers, NEW w \in DOMAIN log[s], Current(s, w), w < pos[s],
         pos[s] <= Len(log[s]) => WindowStart(log[s])[pos[s]] = pos[s]
  PROVE  /\ Window(log[s], w) = Counted(log[s], w, pos[s])
         /\ \A p \in PluginsIn(log[s], w) : p \in DOMAIN res[s]
         /\ \A i \in 1..(pos[s] - 1) : WindowStart(log[s])[i] = i => i <= w
<1> DEFINE l == log[s]
           K == Counted(l, w, pos[s])
<1>0. l \in Seq(EntryType) /\ pos[s] \in 1..(Len(l) + 1)
  BY CurrentWindow
<1>1. Window(l, w) = K
  BY <1>0, WindowPieces
<1>2. ASSUME NEW p \in PluginsIn(l, w) PROVE p \in DOMAIN res[s]
  <2>1. PICK k \in K : p = l[k].plugin /\ p # None
    BY <1>1 DEF PluginsIn
  <2>2. l[k] \in EntryType
    BY <1>0, <2>1 DEF Counted
  <2>3. p \in Plugins
    BY <2>1, <2>2 DEF EntryType
  <2>4. k \in Mine(l, K, p)
    BY <2>1 DEF Mine
  <2> QED
    BY <2>3, <2>4 DEF Current, Tallied
<1>3. ASSUME NEW i \in 1..(pos[s] - 1), WindowStart(l)[i] = i PROVE i <= w
  <2>1. i \in DOMAIN l /\ pos[s] - 1 \in DOMAIN l /\ i <= pos[s] - 1
    BY <1>0
  <2>2. WindowStart(l)[i] <= WindowStart(l)[pos[s] - 1]
    BY <1>0, <2>1, WindowLines
  <2>3. WindowStart(l)[pos[s] - 1] <= w
    <3>1. pos[s] > 1
      BY <1>0
    <3> QED
      BY <3>1, CurrentWindow
  <2>4. WindowStart(l)[pos[s] - 1] \in Nat /\ w \in Nat
    BY <1>0, <2>1, WindowLines
  <2> QED
    BY <1>3, <2>2, <2>3, <2>4
<1> QED
  BY <1>1, <1>2, <1>3

LEMMA FinishStep == ASSUME IInv, NEW s \in Servers, Finish(s) PROVE ServerType(s)' /\ ServerInv(s)'
<1>0. VarType /\ ServerType(s) /\ ServerInv(s) /\ pc[s] = "lines" /\ pos[s] > Len(log[s]) /\ DOMAIN res[s] = {}
  BY DEF IInv, Finish, AtEnd
<1>1. CASE ~db[s]
  BY <1>0, <1>1, EndStep DEF Finish
<1>2. CASE db[s]
  <2>1. /\ pc'[s] = "done" /\ log' = log /\ pos' = pos /\ start_dt' = start_dt /\ res' = res /\ todo' = todo
        /\ log_statics' = log_statics /\ http_statics' = http_statics /\ runs' = runs /\ lost' = lost
    BY <1>0, <1>2 DEF Finish, counters, tables, VarType
  <2>2. ServerType(s)'
    BY <1>0, <2>1 DEF ServerType
  <2>3. Done(s, pos[s])
    <3>1. CASE NoLine(s)
      BY <3>1 DEF NoLine, Done
    <3>2. ASSUME NEW w \in DOMAIN log[s], Current(s, w), Done(s, w) PROVE Done(s, pos[s])
      <4>1. log[s] \in Seq(EntryType) /\ pos[s] \in Nat /\ w \in Nat /\ w < pos[s]
            /\ ~(pos[s] <= Len(log[s]))
        BY <1>0 DEF VarType
      <4>2. /\ PluginsIn(log[s], w) = {}
            /\ \A i \in 1..(pos[s] - 1) : WindowStart(log[s])[i] = i => i <= w
        BY <1>0, <3>2, <4>1, WindowEnds
      <4>3. \A i \in 1..(pos[s] - 1) : WindowStart(log[s])[i] = i => i \in 1..(w - 1) \/ i = w
        BY <4>1, <4>2
      <4> QED
        BY <3>2, <4>2, <4>3 DEF Done
    <3> QED
      BY <1>0, <3>1, <3>2 DEF ServerInv
  <2>4. Done(s, pos[s])'
    BY <2>1, <2>3 DEF Done, Has
  <2> QED
    BY <2>1, <2>2, <2>4 DEF ServerInv
<1> QED
  BY <1>1, <1>2

LEMMA FlushStep == ASSUME IInv, NEW s \in Servers, Flush(s) PROVE ServerType(s)' /\ ServerInv(s)'
<1>0. VarType /\ ServerType(s) /\ ServerInv(s) /\ pc[s] = "lines"
  BY DEF IInv, Flush, AtLine, AtEnd
<1>1. CASE ~db[s]
  BY <1>0, <1>1, EndStep DEF Flush
<1>2. CASE db[s]
  <2>1. /\ pc'[s] = "plugins" /\ todo'[s] = DOMAIN res[s]
        /\ log' = log /\ pos' = pos /\ start_dt' = start_dt /\ res' = res /\ sum' = sum /\ err' = err
        /\ log_statics' = log_statics /\ http_statics' = http_statics /\ runs' = runs /\ lost' = lost
    BY <1>0, <1>2 DEF Flush, counters, tables, VarType
  <2>2. ~NoLine(s)
    <3>1. NoLine(s) => DOMAIN res[s] = {}
      BY DEF NoLine, Tallied, Mine
    <3> QED
      BY <3>1 DEF Flush, WindowOver, NoLine
  <2>3. PICK w \in DOMAIN log[s] : Current(s, w) /\ Done(s, w)
    BY <1>0, <2>2 DEF ServerInv
  <2>4. /\ log[s] \in Seq(EntryType) /\ pos[s] \in 1..(Len(log[s]) + 1) /\ w <= pos[s]
        /\ start_dt[s] # None /\ (w < pos[s] \/ ~WindowOver(s))
    BY <2>3, CurrentWindow
  <2>5. w < pos[s]
    BY <2>4 DEF Flush, AtEnd, AtLine
  <2>6. ASSUME pos[s] <= Len(log[s]) PROVE WindowStart(log[s])[pos[s]] = pos[s]
    <3>1. Elapsed(log[s][pos[s]].time, log[s][w].time) >= Step /\ WindowStart(log[s])[pos[s] - 1] = w
      BY <2>3, <2>4, <2>5, <2>6 DEF Flush, AtEnd, AtLine, WindowOver, Current
    <3>2. pos[s] \in DOMAIN log[s] /\ pos[s] # 1
      BY <2>4, <2>5, <2>6
    <3> QED
      BY <2>4, <3>1, <3>2, WindowLines
  <2>7. Inserting(s, w)'
    BY <2>1, <2>5, <2>6 DEF Inserting
  <2>8. Current(s, w)' /\ Done(s, w)'
    BY <2>1, <2>3 DEF Current, Done, Has
  <2>9. ServerType(s)'
    BY <1>0, <2>1, <2>4 DEF ServerType
  <2> QED
    BY <2>1, <2>7, <2>8, <2>9 DEF ServerInv
<1> QED
  BY <1>1, <1>2

\* The rows that insert_db makes of the counters are those of the window.
LEMMA RowsMade ==
  ASSUME IInv, NEW s \in Servers, NEW w \in DOMAIN log[s], Current(s, w), Inserting(s, w)
  PROVE  /\ \A p \in DOMAIN res[s] : p \in Plugins /\ PluginRow(s, p) = Row(log[s], runs[s], s, p, w)
         /\ HttpRow(s) = HRow(log[s], s, w)
<1>1. Window(log[s], w) = Counted(log[s], w, pos[s])
  BY WindowEnds DEF Inserting
<1>2. HttpRow(s) = HRow(log[s], s, w)
  BY <1>1 DEF HttpRow, HRow, Current
<1>3. ASSUME NEW p \in DOMAIN res[s] PROVE p \in Plugins /\ PluginRow(s, p) = Row(log[s], runs[s], s, p, w)
  <2> DEFINE c == res[s][p]
             K == Counted(log[s], w, pos[s])
  <2>1. p \in Plugins /\ CounterOf(res[s], p) = c
    BY DEF Current, Tallied, CounterOf
  <2>2. IsCounter(c) /\ Says(log[s], K, p, c)
    BY <2>1 DEF Current, Tallied
  <2>3. Get(c, "detect") = c["detect"] /\ Get(c, "sum") = c["sum"] /\ Get(c, "err") = c["err"]
    BY <2>2 DEF IsCounter, Get
  <2> QED
    BY <1>1, <2>1, <2>2, <2>3 DEF PluginRow, Row, Says, Current
<1> QED
  BY <1>2, <1>3

LEMMA InsertPluginStep ==
  ASSUME IInv, NEW s \in Servers, InsertPlugin(s)
  PROVE  ServerType(s)' /\ ServerInv(s)' /\ TableInv'
<1>0. VarType /\ ServerType(s) /\ ServerInv(s) /\ TableInv /\ pc[s] = "plugins"
  BY DEF IInv, InsertPlugin
<1>1. PICK w \in DOMAIN log[s] : Current(s, w) /\ Done(s, w) /\ Inserting(s, w)
  BY <1>0 DEF ServerInv
<1>2. PICK p \in todo[s] :
        /\ todo' = [todo EXCEPT ![s] = @ \ {p}]
        /\ \/ /\ \A b \in log_statics : ~SameKey(PluginRow(s, p), b)
              /\ log_statics' = log_statics \cup {PluginRow(s, p)} /\ lost' = lost
           \/ /\ \E b \in log_statics : [b EXCEPT !.id = PluginRow(s, p).id] = PluginRow(s, p)
              /\ UNCHANGED <<log_statics, lost>>
           \/ log_statics' = log_statics /\ lost' = lost \cup {<<s, "plugins">>}
  BY DEF InsertPlugin
<1>3. /\ log' = log /\ pc' = pc /\ pos' = pos /\ start_dt' = start_dt /\ res' = res /\ sum' = sum /\ err' = err
      /\ http_statics' = http_statics /\ runs' = runs
  BY DEF InsertPlugin, counters
<1> DEFINE row == PluginRow(s, p)
<1>4. p \in DOMAIN res[s] /\ p \in Plugins /\ row = Row(log[s], runs[s], s, p, w)
  BY <1>0, <1>1, <1>2, RowsMade DEF ServerType
<1>5. lost \subseteq lost' /\ log_statics \subseteq log_statics' /\ todo'[s] = todo[s] \ {p}
  BY <1>0, <1>2 DEF VarType
<1>6. ServerType(s)'
  BY <1>0, <1>3, <1>5 DEF ServerType
<1>7. Current(s, w)' /\ Done(s, w)'
  BY <1>1, <1>3, <1>5 DEF Current, Done, Has
<1>8. <<s, "plugins">> \notin lost' => Has(s, p, w)'
  <2>1. CASE row \in log_statics'
    <3>1. row.id = runs[s]
      BY DEF PluginRow
    <3> QED
      BY <1>3, <1>4, <2>1, <3>1 DEF Has
  <2>2. ASSUME NEW b \in log_statics, [b EXCEPT !.id = row.id] = row PROVE Has(s, p, w)'
    <3>1. PICK l, t, q, i : b = Row(l, b.id, t, q, i)
      BY <1>0 DEF TableInv
    <3>2. row = Row(log[s], row.id, s, p, w)
      BY <1>4 DEF Row
    <3>3. b = Row(log[s], b.id, s, p, w)
      <4>1. [b EXCEPT !.id = row.id] = Row(l, row.id, t, q, i)
        BY <3>1 DEF Row
      <4>2. Row(l, row.id, t, q, i) = Row(log[s], row.id, s, p, w)
        BY <2>2, <3>2, <4>1
      <4>3. Row(l, b.id, t, q, i) = Row(log[s], b.id, s, p, w)
        BY <4>2 DEF Row
      <4> QED
        BY <3>1, <4>3
    <3> QED
      BY <1>3, <1>5, <3>3 DEF Has
  <2> QED
    BY <1>2, <2>1, <2>2
<1>9. Inserting(s, w)'
  <2>1. \A q \in DOMAIN res[s] : Has(s, q, w) => Has(s, q, w)'
    BY <1>3, <1>5 DEF Has
  <2> QED
    BY <1>1, <1>3, <1>5, <1>8, <2>1 DEF Inserting
<1>10. TableInv'
  <2>1. log_statics' = log_statics => TableInv'
    BY <1>0, <1>3 DEF TableInv
  <2>2. CASE log_statics' = log_statics \cup {row} /\ \A b \in log_statics : ~SameKey(row, b)
    <3>1. IsFiniteSet(log_statics')
      BY <1>0, <2>2, FS_AddElement DEF TableInv
    <3>2. row.id = runs[s] /\ row.plugin = p /\ row.server_addr = s /\ runs[s] \in Nat
      BY <1>0 DEF PluginRow, VarType
    <3>3. WindowStart(log[s])[w] = w
      BY <1>1 DEF Current
    <3>4. \A a, b \in log_statics' : SameKey(a, b) => a = b
      BY <1>0, <2>2 DEF TableInv, SameKey
    <3> HIDE DEF row
    <3>5. \A r \in log_statics' :
            /\ r.id \in Nat /\ r.plugin \in Plugins /\ r.server_addr \in Servers
            /\ \E i \in DOMAIN log[r.server_addr] :
                 /\ WindowStart(log[r.server_addr])[i] = i
                 /\ r = Row(log[r.server_addr], r.id, r.server_addr, r.plugin, i)
      BY <1>0, <1>1, <1>4, <2>2, <3>2, <3>3 DEF TableInv
    <3> QED
      BY <1>0, <1>3, <3>1, <3>4, <3>5 DEF TableInv
  <2> QED
    BY <1>2, <2>1, <2>2
<1> QED
  BY <1>0, <1>1, <1>3, <1>6, <1>7, <1>9, <1>10 DEF ServerInv

LEMMA InsertHttpStep ==
  ASSUME IInv, NEW s \in Servers, InsertHttp(s)
  PROVE  ServerType(s)' /\ ServerInv(s)' /\ TableInv'
<1> DEFINE l == log[s]
           n == pos[s]
<1>0. VarType /\ ServerType(s) /\ ServerInv(s) /\ TableInv /\ pc[s] = "plugins" /\ todo[s] = {}
  BY DEF IInv, InsertHttp
<1>1. PICK w \in DOMAIN l : Current(s, w) /\ Done(s, w) /\ Inserting(s, w)
  BY <1>0 DEF ServerInv
<1>2. /\ l \in Seq(EntryType) /\ n \in 1..(Len(l) + 1) /\ w < n /\ w \in Nat
      /\ \A p \in PluginsIn(l, w) : p \in DOMAIN res[s]
      /\ \A i \in 1..(n - 1) : WindowStart(l)[i] = i => i <= w
  <2>1. l \in Seq(EntryType) /\ n \in 1..(Len(l) + 1) /\ w < n
    BY <1>1, CurrentWindow DEF Inserting
  <2>2. /\ \A p \in PluginsIn(l, w) : p \in DOMAIN res[s]
        /\ \A i \in 1..(n - 1) : WindowStart(l)[i] = i => i <= w
    BY <1>1, <2>1, WindowEnds DEF Inserting
  <2> QED
    BY <2>1, <2>2
<1>3. /\ log' = log /\ pos' = pos /\ todo' = todo /\ log_statics' = log_statics /\ runs' = runs /\ db' = db
      /\ res'[s] = Empty
  BY <1>0 DEF InsertHttp, VarType
<1>4. HttpRow(s) = HRow(l, s, w)
  BY <1>1, RowsMade
<1>5. /\ http_statics' = http_statics \cup {HRow(l, s, w)} \/ http_statics' = http_statics
      /\ lost' = lost \/ lost' = lost \cup {<<s, "http">>}
      /\ <<s, "http">> \notin lost' => DOMAIN res[s] = {} \/ HRow(l, s, w) \in http_statics'
  BY <1>4 DEF InsertHttp
<1>6. Done(s, n)'
  <2>1. \A p, i : Has(s, p, i) => Has(s, p, i)'
    BY <1>3 DEF Has
  <2>2. <<s, "plugins">> \notin lost' => \A p \in PluginsIn(l, w) : Has(s, p, w)
    BY <1>0, <1>1, <1>2, <1>5 DEF Inserting
  <2>3. <<s, "http">> \notin lost' /\ PluginsIn(l, w) # {} => HRow(l, s, w) \in http_statics'
    BY <1>2, <1>5
  <2>4. \A i \in 1..(n - 1) : WindowStart(l)[i] = i => i \in 1..(w - 1) \/ i = w
    BY <1>2
  <2> QED
    BY <1>1, <1>3, <1>5, <2>1, <2>2, <2>3, <2>4 DEF Done
<1>7. TableInv'
  <2>1. WindowStart(l)[w] = w
    BY <1>1 DEF Current
  <2>2. HRow(l, s, w).server_addr = s
    BY DEF HRow
  <2>3. \A row \in http_statics' :
          /\ row.server_addr \in Servers
          /\ \E i \in DOMAIN log[row.server_addr] :
               /\ WindowStart(log[row.server_addr])[i] = i
               /\ row = HRow(log[row.server_addr], row.server_addr, i)
    BY <1>0, <1>1, <1>5, <2>1, <2>2 DEF TableInv
  <2> QED
    BY <1>0, <1>3, <2>3 DEF TableInv
<1>8. CASE n <= Len(l)
  <2>1. /\ pc'[s] = "lines" /\ start_dt'[s] = l[n].time /\ sum'[s] = 0 /\ err'[s] = 0
    BY <1>0, <1>8 DEF InsertHttp, NextWindow, VarType
  <2>2. n \in DOMAIN l /\ WindowStart(l)[n] = n
    BY <1>1, <1>2, <1>8 DEF Inserting
  <2>3. Counted(l, n, n) = {}
    <3> SUFFICES ASSUME NEW k \in DOMAIN l, k < n, WindowStart(l)[k] = n PROVE FALSE
      BY DEF Counted
    <3> QED
      BY <1>2, WindowLines
  <2>4. Cardinality({}) = 0 /\ Failed(l, {}) = {} /\ Tallied(l, {}, Empty)
    BY FS_EmptySet, NothingTallied DEF Failed
  <2>5. Current(s, n)'
    BY <1>3, <2>1, <2>2, <2>3, <2>4 DEF Current
  <2>6. ServerType(s)'
    BY <1>0, <1>2, <1>3, <2>1 DEF ServerType, Empty
  <2> QED
    BY <1>3, <1>6, <1>7, <2>1, <2>2, <2>5, <2>6 DEF ServerInv
<1>9. CASE ~(n <= Len(l))
  <2>1. pc'[s] = "done"
    BY <1>0, <1>9 DEF InsertHttp, NextWindow, VarType
  <2>2. ServerType(s)'
    BY <1>0, <1>2, <1>3, <2>1 DEF ServerType, Empty
  <2> QED
    BY <1>3, <1>6, <1>7, <2>1, <2>2 DEF ServerInv
<1> QED
  BY <1>8, <1>9

-----------------------------------------------------------------------------
(* Invariance                                                              *)

LEMMA InitInv == Init => IInv
<1> SUFFICES ASSUME Init PROVE IInv
  OBVIOUS
<1>1. \A s \in Servers : log[s] \in Logs[s] /\ log[s] \in Seq(EntryType)
  BY LogsTyped DEF Init
<1>2. log \in [Servers -> Seq(EntryType)]
  BY <1>1 DEF Init
<1>3. VarType
  BY <1>2 DEF Init, VarType
<1>4. ASSUME NEW s \in Servers PROVE ServerType(s) /\ ServerInv(s)
  BY <1>1, <1>4, RunsBounded DEF Init, ServerType, ServerInv, Empty
<1>5. TableInv
  BY FS_EmptySet DEF Init, TableInv
<1> QED
  BY <1>3, <1>4, <1>5 DEF IInv

LEMMA VarTypeStep == ASSUME IInv, NEW s \in Servers, Action(s) PROVE VarType'
<1> USE DEF VarType
<1>0. VarType /\ ServerType(s)
  BY DEF IInv
<1>1. CASE Start(s)
  <2>1. db' \in [Servers -> BOOLEAN]
    BY <1>0, <1>1 DEF Start
  <2>2. lost' \subseteq Servers \X {"plugins", "http"}
    BY <1>0, <1>1 DEF Start
  <2>3. /\ pc' \in [Servers -> {"off", "lines", "plugins", "done"}] /\ pos' \in [Servers -> Nat \ {0}]
        /\ runs' \in [Servers -> Nat] /\ start_dt' \in [Servers -> Nat \cup {None}]
    BY <1>0, <1>1 DEF Start
  <2>4. sum' \in [Servers -> Nat] /\ err' \in [Servers -> Nat] /\ DOMAIN res' = Servers
    BY <1>0, <1>1 DEF Start
  <2>5. log' = log /\ todo' = todo
    BY <1>1 DEF Start
  <2> QED
    BY <1>0, <2>1, <2>2, <2>3, <2>4, <2>5
<1>2. CASE End(s)
  BY <1>0, <1>2 DEF End, counters, tables
<1>3. CASE Count(s)
  <2>1. log[s][pos[s]].time \in Nat
    <3>1. log[s] \in Seq(EntryType) /\ pos[s] \in DOMAIN log[s]
      BY <1>0, <1>3 DEF Count, AtLine
    <3>2. log[s][pos[s]] \in EntryType
      BY <3>1
    <3> QED
      BY <3>2 DEF EntryType
  <2>2. DOMAIN res' = DOMAIN res
    BY <1>3 DEF Count, SetCounter
  <2>3. err' = [err EXCEPT ![s] = @ + 1] \/ err' = err
    BY <1>3 DEF Count
  <2>4. sum' = [sum EXCEPT ![s] = @ + 1] /\ pos' = [pos EXCEPT ![s] = @ + 1]
        /\ start_dt' = [start_dt EXCEPT ![s] = IF @ = None THEN log[s][pos[s]].time ELSE @]
        /\ UNCHANGED <<log, pc, db, todo, runs, lost>>
    BY <1>3 DEF Count
  <2>5. start_dt' \in [Servers -> Nat \cup {None}]
    BY <1>0, <2>1, <2>4
  <2>6. sum' \in [Servers -> Nat] /\ err' \in [Servers -> Nat] /\ pos' \in [Servers -> Nat \ {0}]
    BY <1>0, <2>3, <2>4
  <2> QED
    BY <1>0, <2>2, <2>4, <2>5, <2>6
<1>4. CASE Finish(s) /\ ~End(s)
  <2>1. pc' = [pc EXCEPT ![s] = "done"] /\ UNCHANGED <<log, db, pos, counters, todo, tables, runs, lost>>
    BY <1>4 DEF Finish
  <2> QED
    BY <1>0, <2>1 DEF counters
<1>5. CASE Flush(s) /\ ~End(s)
  <2>1. /\ pc' = [pc EXCEPT ![s] = "plugins"] /\ todo' = [todo EXCEPT ![s] = DOMAIN res[s]]
        /\ UNCHANGED <<log, db, pos, counters, tables, runs, lost>>
    BY <1>5 DEF Flush
  <2>2. DOMAIN res[s] \in SUBSET Plugins
    BY <1>0 DEF ServerType
  <2>3. todo' \in [Servers -> SUBSET Plugins]
    BY <1>0, <2>1, <2>2
  <2> QED
    BY <1>0, <2>1, <2>3 DEF counters
<1>6. CASE InsertPlugin(s)
  BY <1>0, <1>6 DEF InsertPlugin, counters
<1>7. CASE InsertHttp(s)
  <2>1. pos[s] <= Len(log[s]) => log[s][pos[s]].time \in Nat
    <3> SUFFICES ASSUME pos[s] <= Len(log[s]) PROVE log[s][pos[s]].time \in Nat
      OBVIOUS
    <3>1. log[s] \in Seq(EntryType) /\ pos[s] \in DOMAIN log[s]
      BY <1>0
    <3>2. log[s][pos[s]] \in EntryType
      BY <3>1
    <3> QED
      BY <3>2 DEF EntryType
  <2>2. lost' \subseteq Servers \X {"plugins", "http"}
    BY <1>0, <1>7 DEF InsertHttp
  <2>3. /\ pc' \in [Servers -> {"off", "lines", "plugins", "done"}] /\ start_dt' \in [Servers -> Nat \cup {None}]
        /\ sum' \in [Servers -> Nat] /\ err' \in [Servers -> Nat]
    <3>1. CASE pos[s] <= Len(log[s])
      <4>1. /\ pc' = [pc EXCEPT ![s] = "lines"] /\ start_dt' = [start_dt EXCEPT ![s] = log[s][pos[s]].time]
            /\ sum' = [sum EXCEPT ![s] = 0] /\ err' = [err EXCEPT ![s] = 0]
        BY <1>7, <3>1 DEF InsertHttp, NextWindow
      <4>2. start_dt' \in [Servers -> Nat \cup {None}]
        BY <1>0, <2>1, <3>1, <4>1
      <4> QED
        BY <1>0, <4>1, <4>2
    <3>2. CASE ~(pos[s] <= Len(log[s]))
      BY <1>0, <1>7, <3>2 DEF InsertHttp, NextWindow
    <3> QED
      BY <3>1, <3>2
  <2> QED
    BY <1>0, <1>7, <2>2, <2>3 DEF InsertHttp
<1> QED
  BY <1>1, <1>2, <1>3, <1>4, <1>5, <1>6, <1>7 DEF Action, Kill, ParseRaises

LEMMA ActionStep == ASSUME IInv, NEW s \in Servers, Action(s) PROVE IInv'
<1>1. VarType'
  BY VarTypeStep
<1>2. \A t \in Servers \ {s} : ServerType(t)' /\ ServerInv(t)'
  BY OneServer, KeepsInv DEF IInv, OnlyOf
<1>3. ServerType(s)' /\ ServerInv(s)'
  <2>1. Kill(s) => End(s) /\ pc[s] \in {"lines", "plugins"}
    BY DEF Kill, IInv, VarType
  <2>2. ParseRaises(s) => End(s) /\ pc[s] = "lines"
    BY DEF ParseRaises, AtLine
  <2> QED
    BY <2>1, <2>2, StartStep, EndStep, CountStep, FinishStep, FlushStep, InsertPluginStep, InsertHttpStep DEF Action
<1>4. TableInv'
  <2>1. CASE InsertPlugin(s) \/ InsertHttp(s)
    BY <2>1, InsertPluginStep, InsertHttpStep
  <2>2. CASE ~(InsertPlugin(s) \/ InsertHttp(s))
    <3>1. log' = log /\ log_statics' = log_statics /\ http_statics' = http_statics
      BY <2>2 DEF Action, Start, Kill, ParseRaises, End, Count, Finish, Flush, tables
    <3> QED
      BY <3>1 DEF IInv, TableInv
  <2> QED
    BY <2>1, <2>2
<1> QED
  BY <1>1, <1>2, <1>3, <1>4 DEF IInv

LEMMA Invariance == Spec => []IInv
<1>1. IInv /\ [Next]_vars => IInv'
  <2> SUFFICES ASSUME IInv, [Next]_vars PROVE IInv'
    OBVIOUS
  <2>1. CASE UNCHANGED vars
    <3>1. RowsStay /\ \A s \in Servers : Keeps(s)
      BY <2>1 DEF vars, counters, tables, RowsStay, Keeps
    <3>2. VarType' /\ TableInv'
      BY <2>1 DEF vars, counters, tables, IInv, VarType, TableInv
    <3> QED
      BY <3>1, <3>2, KeepsInv DEF IInv
  <2>2. ASSUME NEW s \in Servers, Action(s) PROVE IInv'
    BY <2>2, ActionStep
  <2> QED
    BY <2>1, <2>2 DEF Next, AllRun, Action
<1> QED
  BY <1>1, InitInv, PTL DEF Spec

-----------------------------------------------------------------------------
(* Results                                                                 *)

LEMMA RowTypes ==
  ASSUME NEW l \in Seq(EntryType), NEW i \in DOMAIN l, NEW s \in Servers
  PROVE  /\ \A id \in Nat, p \in Plugins : Row(l, id, s, p, i) \in Rows
         /\ HRow(l, s, i) \in [server_addr : Servers, sum : Nat, err : Nat, date_time : Nat]
<1> DEFINE K == Window(l, i)
<1>1. \A T \in SUBSET DOMAIN l : Cardinality(T) \in Nat
  BY Countable
<1>2. K \in SUBSET DOMAIN l
  BY DEF Window
<1> HIDE DEF K
<1>3. /\ \A p : Mine(l, K, p) \in SUBSET K /\ Wrong(l, K, p) \in SUBSET K /\ Found(l, K, p) \in SUBSET K
      /\ Failed(l, K) \in SUBSET K /\ \A p, src : From(l, K, p, src) \in SUBSET K
  BY DEF Mine, Wrong, Found, Failed, From
<1>4. l[i].time \in Nat
  <2>1. l[i] \in EntryType
    OBVIOUS
  <2> QED
    BY <2>1 DEF EntryType
<1>5. /\ Cardinality(K) \in Nat /\ Cardinality(Failed(l, K)) \in Nat
      /\ \A p : /\ Cardinality(Mine(l, K, p)) \in Nat /\ Cardinality(Wrong(l, K, p)) \in Nat
               /\ Cardinality(Found(l, K, p)) \in Nat /\ \A src : Cardinality(From(l, K, p, src)) \in Nat
  BY <1>1, <1>2, <1>3
<1> QED
  BY <1>4, <1>5 DEF Row, HRow, Rows, K

(* Every variable has a value of its type, and insert_db never meets a     *)
(* window without a start.                                                 *)
THEOREM Typing == Spec => []TypeOK
<1>1. IInv => TypeOK
  <2> SUFFICES ASSUME IInv PROVE TypeOK
    OBVIOUS
  <2>1. VarType /\ \A s \in Servers : ServerType(s)
    BY DEF IInv
  <2>2. \A s \in Servers : pos[s] \in 1..(Len(log[s]) + 1)
    BY <2>1 DEF VarType, ServerType
  <2>3. log_statics \subseteq Rows
    <3> SUFFICES ASSUME NEW row \in log_statics PROVE row \in Rows
      OBVIOUS
    <3>1. PICK i \in DOMAIN log[row.server_addr] :
            row = Row(log[row.server_addr], row.id, row.server_addr, row.plugin, i)
      BY DEF IInv, TableInv
    <3>2. row.id \in Nat /\ row.plugin \in Plugins /\ row.server_addr \in Servers
      BY DEF IInv, TableInv
    <3>3. log[row.server_addr] \in Seq(EntryType)
      BY <2>1, <3>2 DEF VarType
    <3>4. Row(log[row.server_addr], row.id, row.server_addr, row.plugin, i) \in Rows
      <4> HIDE DEF Rows
      <4> QED
        BY <3>2, <3>3, RowTypes
    <3> QED
      BY <3>1, <3>4
  <2>4. http_statics \subseteq [server_addr : Servers, sum : Nat, err : Nat, date_time : Nat]
    <3> SUFFICES ASSUME NEW row \in http_statics
                 PROVE  row \in [server_addr : Servers, sum : Nat, err : Nat, date_time : Nat]
      OBVIOUS
    <3>1. PICK i \in DOMAIN log[row.server_addr] : row = HRow(log[row.server_addr], row.server_addr, i)
      BY DEF IInv, TableInv
    <3>2. row.server_addr \in Servers
      BY DEF IInv, TableInv
    <3>3. log[row.server_addr] \in Seq(EntryType)
      BY <2>1, <3>2 DEF VarType
    <3>4. HRow(log[row.server_addr], row.server_addr, i)
            \in [server_addr : Servers, sum : Nat, err : Nat, date_time : Nat]
      BY <3>2, <3>3, RowTypes
    <3> QED
      BY <3>1, <3>4
  <2> QED
    BY <2>1, <2>2, <2>3, <2>4 DEF TypeOK, VarType, ServerType
<1> QED
  BY <1>1, Invariance, PTL

\* The rows of the properties, in the terms used here.
LEMMA SameRows ==
  ASSUME NEW s, NEW i
  PROVE  /\ \A id, p : RowOf(id, s, p, i) = Row(log[s], id, s, p, i)
         /\ HttpRowOf(s, i) = HRow(log[s], s, i)
         /\ PluginsOf(s, i) = PluginsIn(log[s], i)
BY DEF RowOf, Row, Mine, From, Wrong, Found, HttpRowOf, HRow, Failed, PluginsOf, PluginsIn

(* A row is one window of its server's log, whole and counted right,       *)
(* whatever ended or repeated the run that inserted it.                    *)
THEOREM WholeWindows == Spec => []RowsAreWindows
<1>1. IInv => RowsAreWindows
  <2> SUFFICES ASSUME TableInv PROVE RowsAreWindows
    BY DEF IInv
  <2>1. ASSUME NEW row \in log_statics
        PROVE  \E i \in DOMAIN log[row.server_addr] : row = RowOf(row.id, row.server_addr, row.plugin, i)
    <3>1. PICK i \in DOMAIN log[row.server_addr] :
            row = Row(log[row.server_addr], row.id, row.server_addr, row.plugin, i)
      BY DEF TableInv
    <3>2. RowOf(row.id, row.server_addr, row.plugin, i)
            = Row(log[row.server_addr], row.id, row.server_addr, row.plugin, i)
      BY SameRows
    <3> QED
      BY <3>1, <3>2
  <2>2. \A row \in http_statics : \E i \in DOMAIN log[row.server_addr] : row = HttpRowOf(row.server_addr, i)
    BY SameRows DEF TableInv
  <2> QED
    BY <2>1, <2>2 DEF RowsAreWindows
<1> QED
  BY <1>1, Invariance, PTL

\* The windows that the properties call ended are done.
LEMMA EndedAreDone ==
  ASSUME IInv, NEW s \in Servers, NEW i \in EndedWindows(s)
  PROVE  /\ <<s, "plugins">> \notin lost => \A p \in PluginsIn(log[s], i) : Has(s, p, i)
         /\ <<s, "http">> \notin lost /\ PluginsIn(log[s], i) # {} => HRow(log[s], s, i) \in http_statics
<1> DEFINE start == WindowStart(log[s])
           n     == start[pos[s] - 1]
<1>1. /\ i \in 1..(pos[s] - 1) /\ start[i] = i /\ (i < n \/ pc[s] = "done")
      /\ VarType /\ ServerType(s) /\ ServerInv(s)
  BY DEF EndedWindows, IInv
<1>2. pos[s] \in Nat /\ pos[s] - 1 \in DOMAIN log[s] /\ log[s] \in Seq(EntryType)
  BY <1>1 DEF VarType, ServerType
<1>3. n \in 1..(pos[s] - 1)
  BY <1>2, WindowLines
<1>4. CASE pc[s] = "done"
  BY <1>1, <1>4 DEF ServerInv, Done
<1>5. CASE pc[s] = "off"
  BY <1>1, <1>3, <1>5 DEF ServerInv, Done
<1>6. CASE pc[s] \in {"lines", "plugins"}
  <2>1. PICK w \in DOMAIN log[s] : Current(s, w) /\ Done(s, w)
    BY <1>1, <1>6 DEF ServerInv, NoLine
  <2>2. n <= w
    <3>1. pos[s] > 1
      BY <1>1, <1>2
    <3> QED
      BY <2>1, <3>1, CurrentWindow
  <2>3. i \in 1..(w - 1)
    BY <1>1, <1>2, <1>3, <1>6, <2>2
  <2> QED
    BY <1>1, <2>1, <2>3 DEF Done
<1> QED
  BY <1>1, <1>4, <1>5, <1>6 DEF VarType

(* What a run has put behind it is in the table, unless an insert failed   *)
(* or met another row of its key: also when the run ends later.            *)
THEOREM RowsOfRun == Spec => []CompleteRun
<1>1. IInv => CompleteRun
  <2> SUFFICES ASSUME IInv, NEW s \in Servers, <<s, "plugins">> \notin lost,
                      NEW i \in EndedWindows(s), NEW p \in PluginsOf(s, i)
               PROVE  \E row \in log_statics : row = RowOf(row.id, s, p, i)
    BY DEF CompleteRun
  <2>1. Has(s, p, i)
    BY EndedAreDone, SameRows
  <2>2. \A id : RowOf(id, s, p, i) = Row(log[s], id, s, p, i)
    BY SameRows
  <2> QED
    BY <2>1, <2>2 DEF Has
<1> QED
  BY <1>1, Invariance, PTL

(* The same for the windows' rows for HTTP.                                *)
THEOREM HttpOfRun == Spec => []CompleteHttp
<1>1. IInv => CompleteHttp
  BY EndedAreDone, SameRows DEF CompleteHttp
<1> QED
  BY <1>1, Invariance, PTL

\* The times of a log do not go back.
LogsInOrder ==
  \A s \in Servers : \A l \in Logs[s] : \A i, j \in DOMAIN l : i < j => l[i].time <= l[j].time

LEMMA DaysLeftOut ==
  ASSUME NEW x \in Nat
  PROVE  x % Day <= x
<1>1. Day \in Nat /\ Day > 0
  BY StepInDay
<1> QED
  BY <1>1

(* Two windows of a server start `step_seconds' or more after each other,  *)
(* if the lines of its log are in the order of their times: otherwise the  *)
(* days that (dt - start_dt).seconds leaves out end a window too early.    *)
THEOREM StepsApart == LogsInOrder => (Spec => []WindowsApart)
<1> SUFFICES ASSUME LogsInOrder PROVE Spec => []WindowsApart
  OBVIOUS
<1>1. IInv => WindowsApart
  <2> SUFFICES ASSUME IInv, NEW a \in http_statics, NEW b \in http_statics,
                      a.server_addr = b.server_addr, a.date_time < b.date_time
               PROVE  b.date_time - a.date_time >= Step
    BY DEF WindowsApart
  <2> DEFINE s == a.server_addr
             l == log[s]
             start == WindowStart(l)
  <2>1. s \in Servers /\ l \in Logs[s] /\ l \in Seq(EntryType)
    BY DEF IInv, TableInv, VarType, ServerType
  <2>2. PICK i \in DOMAIN l : start[i] = i /\ a = HRow(l, s, i)
    BY DEF IInv, TableInv
  <2>3. PICK j \in DOMAIN l : start[j] = j /\ b = HRow(l, s, j)
    BY DEF IInv, TableInv
  <2>4. a.date_time = l[i].time /\ b.date_time = l[j].time
    BY <2>2, <2>3 DEF HRow
  <2>5. \A k \in DOMAIN l : l[k].time \in Nat
    <3> SUFFICES ASSUME NEW k \in DOMAIN l PROVE l[k].time \in Nat
      OBVIOUS
    <3>1. l[k] \in EntryType
      BY <2>1
    <3> QED
      BY <3>1 DEF EntryType
  <2>6. \A h, k \in DOMAIN l : h <= k => l[h].time <= l[k].time
    <3>1. \A h, k \in DOMAIN l : h < k => l[h].time <= l[k].time
      BY <2>1 DEF LogsInOrder
    <3> HIDE DEF l
    <3> QED
      BY <2>1, <2>5, <3>1
  <2> HIDE DEF start, l
  <2>7. i < j /\ j - 1 \in DOMAIN l /\ i <= j - 1
    BY <2>1, <2>4, <2>5, <2>6
  <2> DEFINE m == start[j - 1]
  <2>8. m \in 1..(j - 1) /\ i <= m /\ start[j] = IF Elapsed(l[j].time, l[m].time) >= Step THEN j ELSE m
    <3>1. \A k \in DOMAIN l : start[k] \in 1..k
      BY <2>1, WindowLines DEF start
    <3>2. start[j] = IF Elapsed(l[j].time, l[start[j - 1]].time) >= Step THEN j ELSE start[j - 1]
      BY <2>1, <2>7, WindowLines DEF start
    <3>3. start[i] <= start[j - 1]
      BY <2>1, <2>7, WindowLines DEF start
    <3> QED
      BY <2>2, <2>7, <3>1, <3>2, <3>3
  <2> HIDE DEF m
  <2>9. m \in DOMAIN l /\ Elapsed(l[j].time, l[m].time) >= Step
    BY <2>1, <2>3, <2>7, <2>8
  <2>10. l[i].time <= l[m].time /\ l[m].time <= l[j].time
    BY <2>1, <2>6, <2>7, <2>8, <2>9
  <2>11. Elapsed(l[j].time, l[m].time) <= l[j].time - l[m].time
    <3>1. l[j].time - l[m].time \in Nat
      BY <2>5, <2>9, <2>10
    <3> QED
      BY <3>1, DaysLeftOut DEF Elapsed
  <2>12. Elapsed(l[j].time, l[m].time) \in Nat /\ Step \in Nat
    BY <2>5, <2>9, StepInDay DEF Elapsed
  <2> QED
    BY <2>4, <2>5, <2>9, <2>10, <2>11, <2>12
<1> QED
  BY <1>1, Invariance, PTL

\* The sum that Stored takes over some rows, unfolded: the recursion of
\* MapThenSumSet has a solution.
LEMMA SumUnfolds ==
  ASSUME NEW S, IsFiniteSet(S)
  PROVE  \E iter : /\ MapThenSumSet(LAMBDA row : row.sum, S) = iter[S]
                   /\ iter = [T \in SUBSET S |->
                             IF T = {} THEN 0
                             ELSE LET x == CHOOSE x \in T : TRUE IN x.sum + iter[T \ {x}]]
<1> DEFINE Any(T) == CHOOSE x \in T : TRUE
           Step1(g, T) == IF T = {} THEN 0 ELSE Any(T).sum + g[T \ {Any(T)}]
           Below(n) == {T \in SUBSET S : Cardinality(T) <= n}
           Solves(g, n) == g = [T \in Below(n) |-> Step1(g, T)]
           A == {n \in Nat : \E g : Solves(g, n)}
<1>1. \A T \in SUBSET S : /\ Cardinality(T) \in Nat
                          /\ T # {} => /\ T \ {Any(T)} \in SUBSET S
                                       /\ Cardinality(T \ {Any(T)}) = Cardinality(T) - 1
  <2> SUFFICES ASSUME NEW T \in SUBSET S
               PROVE /\ Cardinality(T) \in Nat
                     /\ T # {} => Cardinality(T \ {Any(T)}) = Cardinality(T) - 1
    OBVIOUS
  <2>1. IsFiniteSet(T)
    BY FS_Subset
  <2>2. T # {} => Any(T) \in T
    OBVIOUS
  <2> QED
    BY <2>1, <2>2, FS_CardinalityType, FS_RemoveElement
<1>2. 0 \in A
  <2> DEFINE g == [T \in Below(0) |-> 0]
  <2>1. \A T \in Below(0) : T = {}
    <3> SUFFICES ASSUME NEW T \in Below(0) PROVE T = {}
      OBVIOUS
    <3>1. Cardinality(T) = 0
      <4>1. T \in SUBSET S /\ Cardinality(T) <= 0 /\ Cardinality(T) \in Nat
        BY <1>1
      <4> QED
        BY <4>1
    <3>2. IsFiniteSet(T)
      BY FS_Subset
    <3> QED
      BY <3>1, <3>2, FS_EmptySet
  <2>2. Solves(g, 0)
    BY <2>1
  <2> HIDE DEF g, Solves
  <2> QED
    BY <2>2
<1>3. ASSUME NEW n \in Nat, n \in A PROVE n + 1 \in A
  <2>1. PICK f : Solves(f, n)
    BY <1>3
  <2> DEFINE g == [T \in Below(n + 1) |-> Step1(f, T)]
  <2>2. ASSUME NEW T \in Below(n) PROVE g[T] = f[T]
    <3>1. T \in Below(n + 1)
      <4>1. T \in SUBSET S /\ Cardinality(T) <= n /\ Cardinality(T) \in Nat
        BY <1>1
      <4> QED
        BY <4>1
    <3> HIDE DEF Step1, Below
    <3>2. g[T] = Step1(f, T)
      BY <3>1
    <3>3. f[T] = Step1(f, T)
      BY <2>1
    <3> QED
      BY <3>2, <3>3
  <2>3. ASSUME NEW T \in Below(n + 1) PROVE Step1(g, T) = Step1(f, T)
    <3>1. CASE T = {}
      BY <3>1
    <3>2. CASE T # {}
      <4>1. T \ {Any(T)} \in Below(n)
        <5>1. Cardinality(T) <= n + 1 /\ Cardinality(T) \in Nat /\ T \in SUBSET S
          BY <1>1
        <5>2. T \ {Any(T)} \in SUBSET S /\ Cardinality(T \ {Any(T)}) = Cardinality(T) - 1
          BY <1>1, <3>2
        <5> HIDE DEF Any
        <5> QED
          BY <5>1, <5>2
      <4> HIDE DEF g, Any
      <4>2. g[T \ {Any(T)}] = f[T \ {Any(T)}]
        BY <2>2, <4>1
      <4> QED
        BY <4>2, Zenon
    <3> QED
      BY <3>1, <3>2
  <2>4. Solves(g, n + 1)
    <3> HIDE DEF Step1
    <3> QED
      BY <2>3
  <2> HIDE DEF g, Solves
  <2> QED
    BY <2>4
<1>4. PICK n \in Nat : n = Cardinality(S)
  BY <1>1
<1>5. Below(n) = SUBSET S
  <2>1. \A T \in SUBSET S : Cardinality(T) <= n
    BY <1>4, FS_Subset
  <2> QED
    BY <2>1
<1>6. n \in A
  <2> HIDE DEF A
  <2> QED
    BY <1>2, <1>3, <1>4, Numbers
<1>7. \E g : g = [T \in SUBSET S |-> Step1(g, T)]
  BY <1>5, <1>6
<1> QED
  BY <1>7, Zenon DEF MapThenSumSet, MapThenFoldSet

\* The rows T of the plugin p and the server s say together how often p is
\* in the windows they are of: no line is in two of them.
LEMMA SumOfRows ==
  ASSUME IInv, NEW s \in Servers, NEW p \in Plugins
  PROVE  Stored(s, p) <= Logged(s, p)
<1> DEFINE S == {row \in log_statics : row.server_addr = s /\ row.plugin = p}
           l == log[s]
           start == WindowStart(l)
           W(row) == CHOOSE i \in DOMAIN l : start[i] = i /\ row = Row(l, row.id, s, p, i)
           Cover(T) == {k \in DOMAIN l : l[k].plugin = p /\ \E row \in T : start[k] = W(row)}
<1>1. IsFiniteSet(S) /\ l \in Seq(EntryType) /\ \A a, b \in log_statics : SameKey(a, b) => a = b
  BY FS_Subset DEF IInv, TableInv, VarType
<1>2. ASSUME NEW row \in S
      PROVE  W(row) \in DOMAIN l /\ start[W(row)] = W(row) /\ row = Row(l, row.id, s, p, W(row))
  <2>1. \E i \in DOMAIN l : start[i] = i /\ row = Row(l, row.id, s, p, i)
    BY DEF IInv, TableInv
  <2> QED
    BY <2>1, Zenon
<1> HIDE DEF W
<1>3. ASSUME NEW a \in S, NEW b \in S, W(a) = W(b) PROVE a = b
  <2>1. a.date_time = l[W(a)].time /\ b.date_time = l[W(b)].time
    <3>1. \A id, i : Row(l, id, s, p, i).date_time = l[i].time
      BY DEF Row
    <3> QED
      BY <1>2, <3>1
  <2>2. SameKey(a, b)
    BY <1>3, <2>1 DEF SameKey
  <2> QED
    BY <1>1, <2>2
<1>4. ASSUME NEW row \in S PROVE row.sum = Cardinality(Cover({row}))
  <2>1. \A id, i : Row(l, id, s, p, i).sum = Cardinality(Mine(l, Window(l, i), p))
    BY DEF Row
  <2>2. Cover({row}) = Mine(l, Window(l, W(row)), p)
    BY DEF Mine, Window
  <2> HIDE DEF Cover
  <2> QED
    BY <1>2, <2>1, <2>2
<1>5. PICK iter : /\ MapThenSumSet(LAMBDA row : row.sum, S) = iter[S]
                  /\ iter = [T \in SUBSET S |->
                             IF T = {} THEN 0
                             ELSE LET x == CHOOSE x \in T : TRUE IN x.sum + iter[T \ {x}]]
  <2> HIDE DEF S
  <2> QED
    BY <1>1, SumUnfolds
<1>6. /\ iter[{}] = 0
      /\ \A T \in SUBSET S : T # {} => \E x \in T : iter[T] = x.sum + iter[T \ {x}]
  <2> HIDE DEF S
  <2>1. \A T \in SUBSET S : iter[T] = IF T = {} THEN 0
                                      ELSE LET x == CHOOSE x \in T : TRUE IN x.sum + iter[T \ {x}]
    BY <1>5, Zenon
  <2> QED
    BY <2>1
<1>7. iter[S] = Cardinality(Cover(S))
  <2> DEFINE F == {T \in SUBSET S : iter[T] # Cardinality(Cover(T))}
  <2> SUFFICES ASSUME F # {} PROVE FALSE
    OBVIOUS
  <2>1. \A T \in F : T \subseteq S /\ IsFiniteSet(T)
    BY <1>1, FS_Subset
  <2>2. PICK T \in F : \A U \in F : U \subseteq T => U = T
    <3> HIDE DEF F
    <3> QED
      BY <2>1, MinimalSet
  <2>3. T # {}
    BY <1>6, FS_EmptySet
  <2>4. PICK x \in T : iter[T] = x.sum + iter[T \ {x}]
    BY <1>6, <2>3
  <2>5. T \ {x} \in SUBSET S /\ T \ {x} # T /\ x \in S
    OBVIOUS
  <2>6. iter[T \ {x}] = Cardinality(Cover(T \ {x}))
    BY <2>2, <2>5
  <2>7. Cover(T) = Cover(T \ {x}) \cup Cover({x}) /\ Cover(T \ {x}) \cap Cover({x}) = {}
    BY <1>3
  <2>8. \A U : Cover(U) \in SUBSET DOMAIN l
    OBVIOUS
  <2> HIDE DEF Cover, l
  <2>9. \A U : IsFiniteSet(Cover(U)) /\ Cardinality(Cover(U)) \in Nat
    BY <1>1, <2>8, Countable
  <2>10. Cardinality(Cover(T)) = Cardinality(Cover(T \ {x})) + Cardinality(Cover({x}))
    <3>1. Cardinality(Cover(T \ {x}) \cap Cover({x})) = 0
      BY <2>7, FS_EmptySet
    <3>2. Cardinality(Cover(T \ {x}) \cup Cover({x}))
            = Cardinality(Cover(T \ {x})) + Cardinality(Cover({x})) - Cardinality(Cover(T \ {x}) \cap Cover({x}))
      BY <2>9, FS_Union
    <3>3. Cardinality(Cover(T \ {x})) \in Nat /\ Cardinality(Cover({x})) \in Nat
      BY <2>9
    <3>4. Cover(T) = Cover(T \ {x}) \cup Cover({x})
      BY <2>7
    <3> QED
      BY <3>1, <3>2, <3>3, <3>4
  <2> QED
    BY <1>4, <2>4, <2>5, <2>6, <2>9, <2>10
<1>8. Cover(S) \subseteq {k \in DOMAIN l : l[k].plugin = p}
  OBVIOUS
<1>9. Cardinality(Cover(S)) <= Logged(s, p)
  <2>1. IsFiniteSet({k \in DOMAIN l : l[k].plugin = p})
    BY <1>1, Countable
  <2> HIDE DEF Cover
  <2> QED
    BY <1>8, <2>1, FS_Subset DEF Logged
<1> QED
  BY <1>5, <1>7, <1>9 DEF Stored

(* A script that is run again, for whatever reason, counts no reply twice: *)
(* together the rows of a plugin count at most what the log has.           *)
THEOREM OnceInRows == Spec => []NoReplyTwice
<1>1. IInv => NoReplyTwice
  BY SumOfRows DEF NoReplyTwice
<1> QED
  BY <1>1, Invariance, PTL
=============================================================================
