----------------------------- MODULE Texts_proofs -----------------------------
(***************************************************************************)
(* What the functions of UrlText make of every text, of any length, and    *)
(* what the functions of Times make of every duration and every time.      *)
(* Recursive functions and folds are defined by a CHOOSE of a solution: of *)
(* each it is shown first that there is one.                               *)
(*                                                                         *)
(* In the part about Times every text is first said to say a number (Says, *)
(* SaysDay, SaysClock, SaysFourteen); then, that what is written says the  *)
(* value, and that what says a value is read as this value.                *)
(***************************************************************************)
EXTENDS Values, SequenceTheorems, Induction

-----------------------------------------------------------------------------
(* Induction from the end of a text, and folds                             *)

(* A set has every position up to n if it has each whose followers it has. *)
LEMMA Backwards ==
  ASSUME NEW n \in Int, NEW A, \A i \in 0..n : (\A j \in (i + 1)..n : j \in A) => i \in A
  PROVE  0..n \subseteq A
<1> DEFINE D == {n - i : i \in (0..n) \ A}
<1>1. SUFFICES ASSUME ~(0..n \subseteq A) PROVE FALSE
  OBVIOUS
<1>2. D \in SUBSET Nat /\ D # {}
  <2>1. \A i \in 0..n : n - i \in Nat
    OBVIOUS
  <2> QED
    BY <1>1, <2>1
<1>3. PICK d \in D : \A e \in D : d <= e
  <2> HIDE DEF D
  <2> QED
    BY <1>2, LeastElement
<1>4. PICK i \in (0..n) \ A : d = n - i
  BY <1>3
<1>5. ASSUME NEW j \in (i + 1)..n PROVE j \in A
  <2>1. CASE j \notin A
    <3>1. j \in (0..n) \ A /\ n - j < n - i
      BY <1>4, <2>1
    <3>2. n - j \in D
      BY <3>1
    <3>3. n - i <= n - j
      <4> HIDE DEF D
      <4> QED
        BY <1>3, <1>4, <3>2
    <3> QED
      BY <3>1, <3>3
  <2> QED
    BY <2>1
<1> QED
  BY <1>4, <1>5

LEMMA MaxOf ==
  ASSUME NEW n \in Nat, NEW T \in SUBSET (1..n), T # {}
  PROVE  Max(T) \in T /\ \A y \in T : Max(T) >= y
BY Maximum DEF Max

LEMMA LastOf ==
  ASSUME NEW n \in Nat, NEW k \in 1..n
  PROVE  /\ Max(1..k) = k /\ (1..k) \ {k} = 1..(k - 1) /\ 1..k # {}
         /\ 1..k \in SUBSET (1..n) /\ 1..(k - 1) \in SUBSET (1..n)
<1> DEFINE m == Max(1..k)
<1>1. k \in Nat /\ 1..k \in SUBSET (1..k) /\ k \in 1..k
  OBVIOUS
<1>2. m \in 1..k /\ m >= k
  BY <1>1, MaxOf
<1> HIDE DEF m
<1>3. m = k
  BY <1>2
<1>4. (1..k) \ {k} = 1..(k - 1) /\ 1..k \in SUBSET (1..n) /\ 1..(k - 1) \in SUBSET (1..n)
  OBVIOUS
<1> QED
  BY <1>1, <1>3, <1>4 DEF m

\* h[T] is what G makes of base and the positions T, the last one last.
Folds(h, n, G, base) ==
  h = [T \in SUBSET (1..n) |-> IF T = {} THEN base ELSE G[<<h[T \ {Max(T)}], Max(T)>>]]

(* The fold of a function over the positions of a text exists.             *)
LEMMA FoldExists ==
  ASSUME NEW S, NEW n \in Nat, NEW G \in [S \X (1..n) -> S], NEW base \in S
  PROVE  \E h \in [SUBSET (1..n) -> S] : Folds(h, n, G, base)
<1> DEFINE Op(T, v) == IF T = {} THEN base ELSE G[<<v, Max(T)>>]
           F(h, k) == h \in [SUBSET (1..k) -> S] /\ \A T \in SUBSET (1..k) : h[T] = Op(T, h[T \ {Max(T)}])
           A == {k \in Nat : k <= n => \E h : F(h, k)}
<1>1. 0 \in A
  <2> DEFINE h == [T \in SUBSET (1..0) |-> base]
  <2>1. \A T \in SUBSET (1..0) : T = {}
    OBVIOUS
  <2>2. F(h, 0)
    BY <2>1
  <2> HIDE DEF F, h
  <2> QED
    BY <2>2
<1>2. ASSUME NEW k \in Nat, k \in A PROVE k + 1 \in A
  <2> SUFFICES ASSUME k + 1 <= n PROVE \E h : F(h, k + 1)
    <3> HIDE DEF F
    <3> QED
      OBVIOUS
  <2>1. PICK f : F(f, k)
    <3> HIDE DEF F
    <3>1. k <= n
      OBVIOUS
    <3> QED
      BY <1>2, <3>1
  <2> DEFINE h == [T \in SUBSET (1..(k + 1)) |-> IF k + 1 \in T THEN G[<<f[T \ {k + 1}], k + 1>>] ELSE f[T]]
  <2>2. \A T \in SUBSET (1..k) : T \in SUBSET (1..(k + 1)) /\ k + 1 \notin T
    OBVIOUS
  <2>3. \A T \in SUBSET (1..k) : h[T] = f[T]
    BY <2>2
  <2>4. k + 1 \in 1..n
    OBVIOUS
  <2>5. h \in [SUBSET (1..(k + 1)) -> S]
    <3> SUFFICES ASSUME NEW T \in SUBSET (1..(k + 1))
                 PROVE  (IF k + 1 \in T THEN G[<<f[T \ {k + 1}], k + 1>>] ELSE f[T]) \in S
      OBVIOUS
    <3>1. T \ {k + 1} \in SUBSET (1..k) /\ (k + 1 \notin T => T \in SUBSET (1..k))
      OBVIOUS
    <3>2. f[T \ {k + 1}] \in S /\ (k + 1 \notin T => f[T] \in S)
      BY <2>1, <3>1
    <3> QED
      BY <2>4, <3>2
  <2>6. ASSUME NEW T \in SUBSET (1..(k + 1)) PROVE h[T] = Op(T, h[T \ {Max(T)}])
    <3>1. CASE k + 1 \in T
      <4> DEFINE m == Max(T)
      <4>1. k + 1 \in Nat /\ T # {}
        BY <3>1
      <4>2. m \in T /\ \A y \in T : m >= y
        BY <4>1, MaxOf
      <4> HIDE DEF m
      <4>3. m \in 1..(k + 1) /\ m >= k + 1
        BY <3>1, <4>2
      <4>4. m = k + 1
        BY <4>3
      <4>5. T \ {k + 1} \in SUBSET (1..k)
        OBVIOUS
      <4>6. h[T] = G[<<f[T \ {k + 1}], k + 1>>] /\ h[T \ {k + 1}] = f[T \ {k + 1}]
        BY <2>3, <3>1, <4>5
      <4> HIDE DEF h
      <4> QED
        BY <4>1, <4>4, <4>6 DEF m
    <3>2. CASE k + 1 \notin T
      <4>1. T \in SUBSET (1..k)
        BY <3>2
      <4>2. T \ {Max(T)} \in SUBSET (1..k)
        BY <4>1
      <4>3. h[T] = f[T] /\ h[T \ {Max(T)}] = f[T \ {Max(T)}]
        BY <2>3, <4>1, <4>2
      <4> HIDE DEF h, Op
      <4> QED
        BY <2>1, <4>1, <4>3
    <3> QED
      BY <3>1, <3>2
  <2>7. F(h, k + 1)
    <3> HIDE DEF h, Op
    <3> QED
      BY <2>5, <2>6
  <2> HIDE DEF F, h
  <2> QED
    BY <2>7
<1>3. Nat \subseteq A
  <2> HIDE DEF A
  <2> QED
    BY <1>1, <1>2, Numbers
<1>4. PICK h : F(h, n)
  <2> HIDE DEF F
  <2>1. n \in A /\ n <= n
    BY <1>3
  <2> QED
    BY <2>1
<1>5. h = [T \in SUBSET (1..n) |-> h[T]]
  BY <1>4
<1>6. Folds(h, n, G, base)
  BY <1>4, <1>5 DEF Folds
<1> QED
  BY <1>4, <1>6

-----------------------------------------------------------------------------
(* Texts: what Find, Join and Split do                                     *)

\* The first position that is searched for, or the end.
LEMMA FindsFirst ==
  ASSUME NEW S, NEW t \in Seq(S), NEW ch, NEW i \in Nat \ {0}
  PROVE  /\ Find(ch, t, i) \in 1..(Len(t) + 1)
         /\ i <= Len(t) + 1 => Find(ch, t, i) >= i
         /\ Find(ch, t, i) <= Len(t) => t[Find(ch, t, i)] = ch
         /\ \A k \in i..Len(t) : k < Find(ch, t, i) => t[k] # ch
<1> DEFINE A == {Len(t) + 1} \cup {j \in i..Len(t) : t[j] = ch}
           m == Min(A)
<1>1. A \in SUBSET Nat /\ A # {} /\ Len(t) \in Nat
  BY LenProperties
<1>2. m \in A /\ \A j \in A : m <= j
  <2> HIDE DEF A
  <2> QED
    BY <1>1, Minimum DEF Min
<1>3. Find(ch, t, i) = m
  BY DEF Find
<1>4. \A k \in i..Len(t) : t[k] = ch => k \in A
  OBVIOUS
<1>5. m = Len(t) + 1 \/ (m \in i..Len(t) /\ t[m] = ch)
  BY <1>2
<1>6. m <= Len(t) + 1
  BY <1>2
<1>7. ASSUME NEW k \in i..Len(t), k < m PROVE t[k] # ch
  <2> HIDE DEF m
  <2> QED
    BY <1>1, <1>2, <1>4, <1>5, <1>7
<1> HIDE DEF m, A
<1> QED
  BY <1>1, <1>3, <1>5, <1>6, <1>7

\* A text is cut from the position i on: the piece X[i] comes first, the rest
\* is cut from next[i] on; from m on there is nothing.
Cut(f, n, m, X, next) ==
  f = [i \in 0..n |-> IF i >= m THEN <<>> ELSE <<X[i]>> \o f[next[i]]]

(* A recursive function that goes on behind its position has a solution.   *)
LEMMA CutExists ==
  ASSUME NEW n \in Nat, NEW m \in Int, NEW X, NEW next,
         \A i \in 0..n : i < m => next[i] \in (i + 1)..n
  PROVE  \E f : Cut(f, n, m, X, next)
<1> DEFINE G(f, i) == IF i >= m THEN <<>> ELSE <<X[i]>> \o f[next[i]]
           F(f, d) == f = [i \in (n - d)..n |-> G(f, i)]
           A == {d \in Nat : d <= n => \E f : F(f, d)}
<1>1. 0 \in A
  <2> DEFINE f == [i \in n..n |-> <<>>]
  <2>1. n >= m
    <3>1. n < m => next[n] \in (n + 1)..n
      OBVIOUS
    <3> QED
      BY <3>1
  <2>2. F(f, 0)
    BY <2>1
  <2> HIDE DEF F, f
  <2> QED
    BY <2>2
<1>2. ASSUME NEW d \in Nat, d \in A PROVE d + 1 \in A
  <2> SUFFICES ASSUME d + 1 <= n PROVE \E f : F(f, d + 1)
    <3> HIDE DEF F
    <3> QED
      OBVIOUS
  <2>1. PICK f : F(f, d)
    <3> HIDE DEF F
    <3>1. d <= n
      OBVIOUS
    <3> QED
      BY <1>2, <3>1
  <2> DEFINE k == n - (d + 1)
             h == [i \in k..n |-> IF i = k THEN G(f, k) ELSE f[i]]
  <2>2. k \in 0..n /\ k + 1 = n - d
    OBVIOUS
  <2> HIDE DEF k
  <2>3. \A i \in (k + 1)..n : h[i] = f[i] /\ i \in k..n
    BY <2>2
  <2>4. ASSUME NEW i \in k..n PROVE h[i] = G(h, i)
    <3>1. i < m => next[i] \in (i + 1)..n
      BY <2>2
    <3>2. i < m => h[next[i]] = f[next[i]]
      BY <2>2, <2>3, <3>1
    <3>3. G(h, i) = G(f, i)
      <4> HIDE DEF h
      <4> QED
        BY <2>2, <3>2
    <3>4. CASE i = k
      BY <3>3, <3>4
    <3>5. CASE i # k
      <4>1. i \in (k + 1)..n
        BY <2>2, <3>5
      <4>2. f[i] = G(f, i)
        <5> HIDE DEF G
        <5> QED
          BY <2>1, <2>2, <4>1
      <4> HIDE DEF h, G
      <4> QED
        BY <2>3, <3>3, <4>1, <4>2
    <3> QED
      BY <3>4, <3>5
  <2>5. F(h, d + 1)
    <3>1. h = [i \in k..n |-> h[i]]
      OBVIOUS
    <3> HIDE DEF h, G
    <3> QED
      BY <2>4, <3>1 DEF k
  <2> HIDE DEF F, h
  <2> QED
    BY <2>5
<1>3. n \in A
  <2> HIDE DEF A
  <2> QED
    BY <1>1, <1>2, Numbers
<1>4. PICK f : F(f, n)
  <2> HIDE DEF F
  <2>1. n <= n
    OBVIOUS
  <2> QED
    BY <1>3, <2>1
<1>5. n - n = 0
  OBVIOUS
<1> QED
  BY <1>4, <1>5 DEF Cut

\* The two sides of a character.
LEMMA CutInTwo ==
  ASSUME NEW C, NEW t \in Seq(C), NEW i \in 0..Len(t), NEW j \in (i + 1)..Len(t)
  PROVE  SubSeq(t, i + 1, Len(t)) = SubSeq(t, i + 1, j - 1) \o <<t[j]>> \o SubSeq(t, j + 1, Len(t))
<1> DEFINE n == Len(t)
           a == SubSeq(t, i + 1, j - 1)
           b == SubSeq(t, j + 1, n)
           w == SubSeq(t, i + 1, n)
           c == t[j]
           v == a \o <<c>> \o b
           d == j - 1 - i
<1>1. n \in Nat /\ i \in Nat /\ d \in Nat /\ j = i + 1 + d /\ j <= n /\ n - j \in Nat
  OBVIOUS
<1>2. a \in Seq(C) /\ Len(a) = d /\ \A k \in 1..d : a[k] = t[i + k]
  OBVIOUS
<1>3. b \in Seq(C) /\ Len(b) = n - j /\ \A k \in 1..(n - j) : b[k] = t[j + k]
  OBVIOUS
<1>4. w \in Seq(C) /\ Len(w) = n - i /\ \A k \in 1..(n - i) : w[k] = t[i + k]
  OBVIOUS
<1>5. c \in C
  OBVIOUS
<1> HIDE DEF a, b, w, d, n, c
<1>6. /\ v \in Seq(C) /\ Len(v) = d + 1 + (n - j)
      /\ \A k \in 1..d : v[k] = a[k]
      /\ v[d + 1] = c
      /\ \A k \in 1..(n - j) : v[d + 1 + k] = b[k]
  <2> DEFINE e == n - j
  <2>1. d \in Nat /\ e \in Nat /\ Len(a) = d /\ Len(b) = e /\ a \in Seq(C) /\ b \in Seq(C) /\ c \in C
    BY <1>1, <1>2, <1>3, <1>5
  <2> HIDE DEF e
  <2>2. v \in Seq(C) /\ Len(v) = d + 1 + e
    BY <2>1
  <2>3. \A k \in 1..d : v[k] = a[k]
    BY <2>1
  <2>4. v[d + 1] = c
    BY <2>1
  <2>5. \A k \in 1..e : v[d + 1 + k] = b[k]
    <3> DEFINE x == a \o <<c>>
    <3>1. x \in Seq(C) /\ Len(x) = d + 1 /\ v = x \o b
      BY <2>1
    <3> HIDE DEF x, v
    <3>2. Len(x) \in Nat /\ Len(x) = d + 1
      BY <2>1, <3>1
    <3>3. \A k \in 1..(Len(x) + Len(b)) : v[k] = IF k <= Len(x) THEN x[k] ELSE b[k - Len(x)]
      BY <2>1, <3>1, ConcatProperties
    <3>4. ASSUME NEW k \in 1..e PROVE v[d + 1 + k] = b[k]
      <4> DEFINE K == d + 1 + k
      <4>1. K \in 1..(Len(x) + Len(b)) /\ ~(K <= Len(x)) /\ K - Len(x) = k
        BY <2>1, <3>2
      <4> HIDE DEF K
      <4>2. v[K] = b[K - Len(x)]
        BY <3>3, <4>1, Zenon
      <4>3. v[K] = b[k]
        BY <4>1, <4>2, Zenon
      <4> QED
        BY <4>3 DEF K
    <3> QED
      BY <3>4
  <2> QED
    BY <2>2, <2>3, <2>4, <2>5 DEF e
<1> HIDE DEF v
<1>7. Len(v) = Len(w)
  BY <1>1, <1>4, <1>6
<1>8. ASSUME NEW k \in 1..Len(w) PROVE v[k] = w[k]
  <2>1. CASE k <= d
    BY <1>1, <1>2, <1>4, <1>6, <2>1, SMTT(30)
  <2>2. CASE k = d + 1
    BY <1>1, <1>4, <1>6, <2>2 DEF c
  <2>3. CASE k > d + 1
    <3>1. k - (d + 1) \in 1..(n - j) /\ d + 1 + (k - (d + 1)) = k /\ j + (k - (d + 1)) = i + k
      BY <1>1, <1>4, <2>3
    <3> DEFINE m == k - (d + 1)
    <3>2. v[d + 1 + m] = b[m] /\ b[m] = t[j + m]
      BY <1>3, <1>6, <3>1
    <3>3. v[k] = t[i + k] /\ w[k] = t[i + k]
      BY <1>4, <3>1, <3>2
    <3> QED
      BY <3>3
  <2> QED
    BY <1>1, <1>4, <2>1, <2>2, <2>3
<1>9. v = w
  BY <1>4, <1>6, <1>7, <1>8, SeqEqual
<1> QED
  BY <1>9 DEF v, w, a, b, n, c

\* Join as a recursion: g[k] joins the first k fields.
JoinSteps(g, C, fields, sep) ==
  /\ g \in [0..Len(fields) -> Seq(C)] /\ g[0] = <<>>
  /\ \A k \in 1..Len(fields) : g[k] = IF k = 1 THEN fields[1] ELSE g[k - 1] \o <<sep>> \o fields[k]
  /\ Join(fields, sep) = g[Len(fields)]

LEMMA Joins ==
  ASSUME NEW C, NEW fields \in Seq(Seq(C)), NEW sep \in C
  PROVE  \E g : JoinSteps(g, C, fields, sep)
<1> DEFINE Text     == Seq(C)
           n        == Len(fields)
           seq      == [k \in 1..n |-> k]
           Op(t, k) == IF k = 1 THEN fields[1] ELSE t \o <<sep>> \o fields[k]
           Sol(f)   == f = [T \in SUBSET (DOMAIN seq) |->
                              IF T = {} THEN <<>> ELSE LET x == Max(T) IN Op(f[T \ {x}], seq[x])]
           iter     == CHOOSE f : Sol(f)
           g        == [k \in 0..n |-> iter[1..k]]
<1>1. n \in Nat /\ DOMAIN seq = 1..n /\ (\A k \in 1..n : seq[k] = k /\ fields[k] \in Text) /\ <<sep>> \in Text
  <2>1. n \in Nat /\ \A k \in 1..n : fields[k] \in Text
    OBVIOUS
  <2>2. <<sep>> \in Text
    OBVIOUS
  <2> HIDE DEF n
  <2> QED
    BY <2>1, <2>2
<1>2. \A t \in Text, k \in 1..n : Op(t, k) \in Text
  <2> SUFFICES ASSUME NEW t \in Text, NEW k \in 1..n PROVE Op(t, k) \in Text
    OBVIOUS
  <2>1. fields[1] \in Text /\ fields[k] \in Text
    BY <1>1
  <2>2. t \o <<sep>> \o fields[k] \in Text
    BY <1>1, <2>1, ConcatProperties DEF Text
  <2> QED
    BY <2>1, <2>2
<1>3. <<>> \in Text
  BY DEF Text
<1>4. Join(fields, sep) = iter[DOMAIN seq]
  BY Zenon DEF Join, FoldLeft, MapThenFoldSet
<1> HIDE DEF n, seq, Op
<1>5. \E f : Sol(f)
  <2> DEFINE G == [a \in Text \X (1..n) |-> Op(a[1], a[2])]
  <2>1. G \in [Text \X (1..n) -> Text]
    BY <1>2
  <2>2. \A t \in Text, k \in 1..n : G[<<t, k>>] = Op(t, k)
    OBVIOUS
  <2> HIDE DEF G
  <2>3. PICK h \in [SUBSET (1..n) -> Text] : Folds(h, n, G, <<>>)
    BY <1>1, <1>3, <2>1, FoldExists
  <2>4. ASSUME NEW T \in SUBSET (1..n), T # {} PROVE G[<<h[T \ {Max(T)}], Max(T)>>] = Op(h[T \ {Max(T)}], seq[Max(T)])
    <3> DEFINE x == Max(T)
               v == h[T \ {x}]
    <3>1. x \in 1..n
      BY <1>1, <2>4, MaxOf
    <3> HIDE DEF x
    <3>2. v \in Text
      BY <2>3, <3>1
    <3>3. seq[x] = x
      BY <1>1, <3>1
    <3> HIDE DEF v
    <3>4. G[<<v, x>>] = Op(v, x)
      BY <2>2, <3>1, <3>2
    <3> QED
      BY <3>3, <3>4 DEF v, x
  <2>5. Sol(h)
    BY <1>1, <2>3, <2>4 DEF Folds
  <2> QED
    BY <2>5, Zenon
<1>6. Sol(iter)
  BY <1>5, Zenon
<1> HIDE DEF iter
<1>7. g[0] = <<>> /\ DOMAIN g = 0..n
  <2>1. iter[{}] = <<>>
    BY <1>6
  <2>2. 1..0 = {} /\ 0 \in 0..n
    BY <1>1
  <2> QED
    BY <2>1, <2>2
<1>8. ASSUME NEW k \in 1..n PROVE g[k] = Op(g[k - 1], k)
  <2>1. k \in 0..n /\ k - 1 \in 0..n
    BY <1>1
  <2>2. /\ Max(1..k) = k /\ (1..k) \ {k} = 1..(k - 1) /\ 1..k # {} /\ 1..k \in SUBSET (1..n)
    BY <1>1, LastOf
  <2>3. iter[1..k] = Op(iter[(1..k) \ {k}], k)
    BY <1>1, <1>6, <2>2
  <2> QED
    BY <2>1, <2>2, <2>3
<1>9. g[n] = Join(fields, sep)
  BY <1>1, <1>4
<1> HIDE DEF g
<1>10. \A k \in 0..n : g[k] \in Text
  <2> DEFINE A == {k \in Nat : k \in 0..n => g[k] \in Text}
  <2>1. 0 \in A
    BY <1>3, <1>7
  <2>2. ASSUME NEW k \in Nat, k \in A PROVE k + 1 \in A
    <3>1. CASE k + 1 \in 0..n
      <4>1. k \in 0..n /\ k + 1 \in 1..n /\ (k + 1) - 1 = k
        BY <1>1, <3>1
      <4>2. g[k + 1] = Op(g[k], k + 1)
        BY <1>8, <4>1
      <4> QED
        BY <1>2, <2>2, <4>1, <4>2
    <3> QED
      BY <3>1
  <2> HIDE DEF A
  <2>3. Nat \subseteq A
    BY <2>1, <2>2, Numbers
  <2> QED
    BY <1>1, <2>3 DEF A
<1>11. g \in [0..n -> Text]
  <2>1. g = [k \in 0..n |-> g[k]]
    BY <1>7 DEF g
  <2> QED
    BY <1>10, <2>1
<1> QED
  BY <1>7, <1>8, <1>9, <1>11 DEF n, Op, Text, JoinSteps

LEMMA JoinEmpty == ASSUME NEW C, NEW sep \in C PROVE Join(<<>>, sep) = <<>>
<1>1. <<>> \in Seq(Seq(C)) /\ Len(<<>>) = 0
  OBVIOUS
<1>2. PICK g : JoinSteps(g, C, <<>>, sep)
  BY <1>1, Joins
<1> QED
  BY <1>1, <1>2 DEF JoinSteps

\* The first field stands in front of the others.
FirstJoined(x, q, sep) ==
  Join(<<x>> \o q, sep) = IF q = <<>> THEN x ELSE x \o <<sep>> \o Join(q, sep)

LEMMA JoinFirst ==
  ASSUME NEW C, NEW x \in Seq(C), NEW q \in Seq(Seq(C)), NEW sep \in C
  PROVE  FirstJoined(x, q, sep)
<1> DEFINE f == <<x>> \o q
           n == Len(q)
           s == <<sep>>
<1>1. /\ f \in Seq(Seq(C)) /\ Len(f) = n + 1 /\ f[1] = x /\ n \in Nat /\ s \in Seq(C)
      /\ \A k \in 1..n : f[k + 1] = q[k] /\ q[k] \in Seq(C)
  <2> DEFINE D == Seq(C)
  <2>1. x \in D /\ q \in Seq(D)
    OBVIOUS
  <2> HIDE DEF D
  <2>2. /\ f \in Seq(D) /\ Len(f) = n + 1 /\ f[1] = x /\ n \in Nat
        /\ \A k \in 1..n : f[k + 1] = q[k] /\ q[k] \in D
    BY <2>1
  <2> QED
    BY <2>2 DEF D
<1>2. PICK g : JoinSteps(g, C, f, sep)
  <2> HIDE DEF f
  <2> QED
    BY <1>1, Joins
<1>3. PICK h : JoinSteps(h, C, q, sep)
  BY Joins
<1>4. Join(f, sep) = g[n + 1] /\ Join(q, sep) = h[n]
  BY <1>1, <1>2, <1>3 DEF JoinSteps
<1> HIDE DEF f
<1>5. /\ g[1] = x
      /\ \A k \in 1..n : g[k + 1] = g[k] \o s \o q[k]
  <2>1. 1 \in 1..Len(f) /\ \A k \in 1..n : k + 1 \in 1..Len(f) /\ k + 1 # 1 /\ (k + 1) - 1 = k
    BY <1>1
  <2> QED
    BY <1>1, <1>2, <2>1 DEF JoinSteps
<1>6. /\ \A k \in 1..n : h[k] \in Seq(C)
      /\ n > 0 => h[1] = q[1]
      /\ \A k \in 1..n : k + 1 <= n => h[k + 1] = h[k] \o s \o q[k + 1]
  <2>1. \A k \in 1..n : k \in 0..n /\ (k + 1 <= n => k + 1 \in 1..n /\ k + 1 # 1 /\ (k + 1) - 1 = k)
    BY <1>1
  <2>2. \A k \in 1..n : h[k] \in Seq(C)
    BY <1>3, <2>1 DEF JoinSteps
  <2>3. n > 0 => 1 \in 1..n
    BY <1>1
  <2>4. n > 0 => h[1] = q[1]
    BY <1>3, <2>3 DEF JoinSteps
  <2>5. \A k \in 1..n : k + 1 <= n => h[k + 1] = h[k] \o s \o q[k + 1]
    BY <1>3, <2>1 DEF JoinSteps
  <2> QED
    BY <2>2, <2>4, <2>5
<1> HIDE DEF n, s
<1>7. \A k \in 1..n : g[k + 1] = x \o s \o h[k]
  <2> DEFINE A == {k \in Nat : k \in 1..n => g[k + 1] = x \o s \o h[k]}
  <2>1. 0 \in A
    OBVIOUS
  <2>2. ASSUME NEW k \in Nat, k \in A PROVE k + 1 \in A
    <3> DEFINE m == k + 1
    <3>1. m \in Nat
      OBVIOUS
    <3>2. ASSUME m \in 1..n PROVE g[m + 1] = x \o s \o h[m]
      <4>1. g[m + 1] = g[m] \o s \o q[m] /\ q[m] \in Seq(C)
        <5> HIDE DEF m
        <5> QED
          BY <1>1, <1>5, <3>2
      <4>2. CASE k = 0
        <5>1. m = 1 /\ n > 0
          BY <1>1, <3>2, <4>2
        <5> HIDE DEF m
        <5> QED
          BY <1>5, <1>6, <4>1, <5>1
      <4>3. CASE k # 0
        <5>1. k \in 1..n /\ m <= n
          BY <1>1, <3>2, <4>3
        <5>2. g[m] = x \o s \o h[k] /\ h[m] = h[k] \o s \o q[m] /\ h[k] \in Seq(C)
          BY <1>6, <2>2, <5>1
        <5> HIDE DEF m
        <5>3. (x \o s \o h[k]) \o s \o q[m] = x \o s \o (h[k] \o s \o q[m])
          <6> DEFINE a == h[k]
                     b == q[m]
          <6>1. a \in Seq(C) /\ b \in Seq(C) /\ s \in Seq(C)
            BY <1>1, <4>1, <5>2
          <6> HIDE DEF a, b
          <6>2. (x \o s \o a) \o s \o b = x \o s \o (a \o s \o b)
            BY <6>1, SMTT(30)
          <6> QED
            BY <6>2 DEF a, b
        <5> QED
          BY <4>1, <5>2, <5>3
      <4> QED
        BY <4>2, <4>3
    <3> HIDE DEF m
    <3>3. m \in A
      BY <3>1, <3>2
    <3> QED
      BY <3>3 DEF m
  <2> HIDE DEF A
  <2>3. Nat \subseteq A
    BY <2>1, <2>2, Numbers
  <2>4. ASSUME NEW k \in 1..n PROVE g[k + 1] = x \o s \o h[k]
    <3>1. k \in A
      BY <1>1, <2>3
    <3> QED
      BY <3>1 DEF A
  <2> QED
    BY <2>4
<1>8. CASE q = <<>>
  <2>1. n = 0
    BY <1>8 DEF n
  <2>2. g[1] = x
    BY <1>5
  <2> QED
    BY <1>4, <1>8, <2>1, <2>2 DEF f, FirstJoined
<1>9. CASE q # <<>>
  <2>1. n # 0
    BY <1>9 DEF n
  <2>2. g[n + 1] = x \o s \o h[n]
    <3>1. n \in 1..n
      BY <1>1, <2>1
    <3> QED
      BY <1>7, <3>1
  <2> QED
    BY <1>4, <1>9, <2>2 DEF f, s, FirstJoined
<1> QED
  BY <1>8, <1>9

\* The fields a are those of the text w.
Fields(a, C, ch, w) == a \in Seq(Seq(C)) /\ a # <<>> /\ Join(a, ch) = w

LEMMA OneField ==
  ASSUME NEW C, NEW ch \in C, NEW x \in Seq(C)
  PROVE  Fields(<<x>>, C, ch, x)
<1>1. <<>> \in Seq(Seq(C)) /\ <<x>> \o <<>> = <<x>> /\ <<x>> \in Seq(Seq(C)) /\ <<x>> # <<>>
  OBVIOUS
<1>2. FirstJoined(x, <<>>, ch)
  BY <1>1, JoinFirst
<1> QED
  BY <1>1, <1>2 DEF FirstJoined, Fields

LEMMA MoreFields ==
  ASSUME NEW C, NEW ch \in C, NEW t \in Seq(C), NEW i \in 0..Len(t), NEW j \in (i + 1)..Len(t), t[j] = ch,
         NEW q, Fields(q, C, ch, SubSeq(t, j + 1, Len(t)))
  PROVE  Fields(<<SubSeq(t, i + 1, j - 1)>> \o q, C, ch, SubSeq(t, i + 1, Len(t)))
<1> DEFINE x == SubSeq(t, i + 1, j - 1)
           D == Seq(C)
<1>1. x \in Seq(C) /\ q \in Seq(Seq(C)) /\ q # <<>> /\ Join(q, ch) = SubSeq(t, j + 1, Len(t))
  BY DEF Fields
<1>2. SubSeq(t, i + 1, Len(t)) = x \o <<ch>> \o SubSeq(t, j + 1, Len(t))
  BY CutInTwo
<1>3. x \in D /\ q \in Seq(D)
  BY <1>1
<1> HIDE DEF x, D
<1>4. <<x>> \o q \in Seq(D) /\ <<x>> \o q # <<>>
  BY <1>3
<1>5. FirstJoined(x, q, ch)
  BY <1>1, JoinFirst
<1>6. Join(<<x>> \o q, ch) = x \o <<ch>> \o Join(q, ch)
  BY <1>1, <1>5 DEF FirstJoined
<1> QED
  BY <1>1, <1>2, <1>4, <1>6 DEF Fields, D, x

-----------------------------------------------------------------------------
(* A line of the list of plugins                                           *)

\* What `split' finds from the position i of a text on, s being the text and
\* one more ch.
SplitSteps(f, t, ch) ==
  LET s == Append(t, ch) IN
  /\ split(t, ch) = f[0]
  /\ f[Len(s)] = <<>>
  /\ \A i \in 0..(Len(s) - 1) : f[i] = <<SubSeq(s, i + 1, Find(ch, s, i + 1) - 1)>> \o f[Find(ch, s, i + 1)]

LEMMA Splits ==
  ASSUME NEW C, NEW t \in Seq(C), NEW ch \in C
  PROVE  \E f : SplitSteps(f, t, ch)
<1> DEFINE s      == Append(t, ch)
           n      == Len(s)
           pos(i) == Find(ch, s, i + 1) - 1
           Sol(f) == f = [i \in 0..n |-> IF i >= n THEN <<>> ELSE <<SubSeq(s, i + 1, pos(i))>> \o f[pos(i) + 1]]
           X      == [i \in 0..n |-> SubSeq(s, i + 1, pos(i))]
           next   == [i \in 0..n |-> pos(i) + 1]
           from   == CHOOSE f : Sol(f)
<1>1. s \in Seq(C) /\ n = Len(t) + 1 /\ n \in Nat /\ s[n] = ch
  OBVIOUS
<1>2. split(t, ch) = from[0]
  BY Zenon DEF split
<1> HIDE DEF s, n
<1>3. ASSUME NEW i \in 0..n, i < n PROVE next[i] \in (i + 1)..n /\ next[i] = Find(ch, s, i + 1) /\ pos(i) + 1 = Find(ch, s, i + 1)
  <2> DEFINE j == Find(ch, s, i + 1)
  <2>1. i + 1 \in Nat \ {0} /\ i + 1 <= n
    BY <1>1, <1>3
  <2>2. j \in 1..(n + 1) /\ j >= i + 1 /\ (\A k \in (i + 1)..n : k < j => s[k] # ch)
    BY <1>1, <2>1, FindsFirst DEF n
  <2>3. next[i] = j - 1 + 1
    OBVIOUS
  <2> HIDE DEF j, next
  <2>4. n \in (i + 1)..n
    BY <1>1, <2>1
  <2>5. j <= n
    BY <1>1, <2>2, <2>4
  <2> QED
    BY <1>1, <2>1, <2>2, <2>3, <2>5 DEF j
<1>4. PICK f : Cut(f, n, n, X, next)
  <2>1. \A i \in 0..n : i < n => next[i] \in (i + 1)..n
    BY <1>3
  <2>2. n \in Nat /\ n \in Int
    BY <1>1
  <2> HIDE DEF X, next
  <2>3. \E f : Cut(f, n, n, X, next)
    BY <2>1, <2>2, CutExists
  <2> QED
    BY <2>3
<1>5. Sol(f)
  <2>1. \A i \in 0..n : X[i] = SubSeq(s, i + 1, pos(i)) /\ next[i] = pos(i) + 1
    OBVIOUS
  <2> HIDE DEF X, next, pos
  <2> QED
    BY <1>4, <2>1 DEF Cut
<1>6. Sol(from)
  BY <1>5, Zenon
<1> HIDE DEF from
<1>7. from[n] = <<>>
  BY <1>1, <1>6
<1>8. ASSUME NEW i \in 0..(n - 1)
      PROVE  from[i] = <<SubSeq(s, i + 1, Find(ch, s, i + 1) - 1)>> \o from[Find(ch, s, i + 1)]
  <2>1. i \in 0..n /\ i < n
    BY <1>1
  <2>2. pos(i) + 1 = Find(ch, s, i + 1)
    BY <1>3, <2>1
  <2>3. from[i] = <<SubSeq(s, i + 1, pos(i))>> \o from[pos(i) + 1]
    <3> HIDE DEF pos
    <3>1. from[i] = IF i >= n THEN <<>> ELSE <<SubSeq(s, i + 1, pos(i))>> \o from[pos(i) + 1]
      BY <1>6, <2>1
    <3>2. ~(i >= n)
      BY <1>1, <2>1
    <3> QED
      BY <3>1, <3>2
  <2> QED
    BY <2>2, <2>3
<1> QED
  BY <1>2, <1>7, <1>8 DEF SplitSteps, s, n

\* What is found from a position on is the rest of the text.
LEMMA SplitJoins ==
  ASSUME NEW C, NEW t \in Seq(C), NEW ch \in C, NEW f, SplitSteps(f, t, ch)
  PROVE  \A i \in 0..Len(t) :
           /\ Fields(f[i], C, ch, SubSeq(t, i + 1, Len(t)))
           /\ \A k \in DOMAIN f[i] : ~Occurs(ch, f[i][k])
<1> DEFINE s    == Append(t, ch)
           n    == Len(t)
           P(i) == /\ Fields(f[i], C, ch, SubSeq(t, i + 1, n))
                   /\ \A k \in DOMAIN f[i] : ~Occurs(ch, f[i][k])
           A    == {i \in 0..n : P(i)}
<1>1. /\ s \in Seq(C) /\ Len(s) = n + 1 /\ n \in Nat /\ s[n + 1] = ch
      /\ \A k \in 1..n : s[k] = t[k] /\ t[k] \in C
  OBVIOUS
<1>2. /\ f[n + 1] = <<>>
      /\ \A i \in 0..n : f[i] = <<SubSeq(s, i + 1, Find(ch, s, i + 1) - 1)>> \o f[Find(ch, s, i + 1)]
  <2>1. /\ f[Len(s)] = <<>>
        /\ \A i \in 0..(Len(s) - 1) : f[i] = <<SubSeq(s, i + 1, Find(ch, s, i + 1) - 1)>> \o f[Find(ch, s, i + 1)]
    BY DEF SplitSteps
  <2>2. Len(s) = n + 1 /\ Len(s) - 1 = n
    BY <1>1
  <2> HIDE DEF s, n
  <2> QED
    BY <2>1, <2>2
<1>3. ASSUME NEW i \in 0..n, \A j \in (i + 1)..n : j \in A PROVE i \in A
  <2> DEFINE j == Find(ch, s, i + 1)
             x == SubSeq(s, i + 1, j - 1)
  <2>1. i + 1 \in Nat \ {0} /\ i + 1 <= Len(s) /\ n + 1 \in (i + 1)..(n + 1)
    BY <1>1
  <2>2. j \in 1..(Len(s) + 1) /\ j >= i + 1 /\ (j <= Len(s) => s[j] = ch) /\ (\A k \in (i + 1)..Len(s) : k < j => s[k] # ch)
    <3> HIDE DEF s
    <3> QED
      BY <1>1, <2>1, FindsFirst
  <2> HIDE DEF j
  <2>3. j \in (i + 1)..(n + 1) /\ s[j] = ch
    <3> HIDE DEF s
    <3> QED
      BY <1>1, <2>1, <2>2
  <2>4. f[i] = <<x>> \o f[j]
    BY <1>2 DEF j
  <2>5. x = SubSeq(t, i + 1, j - 1) /\ x \in Seq(C) /\ Len(x) = j - 1 - i /\ \A k \in 1..(j - 1 - i) : x[k] = t[i + k]
    BY <1>1, <2>3
  <2>6. ~Occurs(ch, x)
    <3> SUFFICES ASSUME NEW k \in DOMAIN x, x[k] = ch PROVE FALSE
      BY DEF Occurs
    <3>1. k \in 1..(j - 1 - i) /\ i + k \in (i + 1)..Len(s) /\ i + k < j /\ i + k \in 1..n
      BY <1>1, <2>3, <2>5
    <3>2. x[k] = t[i + k] /\ s[i + k] = t[i + k] /\ s[i + k] # ch
      BY <1>1, <2>2, <2>5, <3>1
    <3> QED
      BY <3>2
  <2> HIDE DEF x, s
  <2>7. CASE j = n + 1
    <3>1. f[j] = <<>> /\ <<x>> \o <<>> = <<x>> /\ DOMAIN <<x>> = {1} /\ <<x>>[1] = x
      BY <1>2, <2>7
    <3>2. f[i] = <<x>>
      BY <2>4, <3>1
    <3>3. x = SubSeq(t, i + 1, n)
      BY <1>1, <2>5, <2>7
    <3>4. Fields(<<x>>, C, ch, x)
      BY <2>5, OneField
    <3> QED
      BY <2>6, <3>1, <3>2, <3>3, <3>4
  <2>8. CASE j # n + 1
    <3> DEFINE q == f[j]
    <3>1. j \in (i + 1)..n /\ t[j] = ch
      BY <1>1, <2>3, <2>8
    <3>2. Fields(q, C, ch, SubSeq(t, j + 1, n)) /\ \A k \in DOMAIN q : ~Occurs(ch, q[k])
      BY <1>3, <3>1
    <3>3. x \in Seq(C) /\ q \in Seq(Seq(C))
      BY <2>5, <3>2 DEF Fields
    <3> HIDE DEF q
    <3>4. Fields(<<x>> \o q, C, ch, SubSeq(t, i + 1, n))
      BY <2>5, <3>1, <3>2, MoreFields
    <3>5. \A k \in DOMAIN (<<x>> \o q) : (<<x>> \o q)[k] = x \/ \E m \in DOMAIN q : (<<x>> \o q)[k] = q[m]
      <4> DEFINE D == Seq(C)
      <4>1. x \in D /\ q \in Seq(D)
        BY <3>3
      <4> HIDE DEF D
      <4> QED
        BY <4>1
    <3> QED
      BY <2>4, <2>6, <3>2, <3>4, <3>5 DEF q
  <2> QED
    BY <2>7, <2>8
<1>4. 0..n \subseteq A
  <2> HIDE DEF A
  <2>1. n \in Int /\ \A i \in 0..n : (\A j \in (i + 1)..n : j \in A) => i \in A
    BY <1>1, <1>3
  <2> QED
    BY <2>1, Backwards
<1> QED
  BY <1>4

LEMMA FieldsOverBars ==
  ASSUME NEW C, "|" \in C, NEW t \in Seq(C)
  PROVE  LineSplit(t)
<1> DEFINE fields == split(t, "|")
<1>1. PICK f : SplitSteps(f, t, "|")
  BY Splits
<1>2. fields = f[0] /\ 0 \in 0..Len(t)
  BY <1>1 DEF SplitSteps
<1>3. /\ fields \in Seq(Seq(C))
      /\ Join(fields, "|") = SubSeq(t, 1, Len(t))
      /\ \A k \in DOMAIN fields : ~Occurs("|", fields[k])
  <2> HIDE DEF fields
  <2>1. Fields(f[0], C, "|", SubSeq(t, 0 + 1, Len(t))) /\ \A k \in DOMAIN f[0] : ~Occurs("|", f[0][k])
    BY <1>1, <1>2, SplitJoins
  <2> QED
    BY <1>2, <2>1 DEF Fields
<1> HIDE DEF fields
<1>4. SubSeq(t, 1, Len(t)) = t
  OBVIOUS
<1>5. LineAccepted(t) => \A i \in 1..4 : fields[i] # <<>>
  <2> SUFFICES ASSUME LineAccepted(t), NEW i \in 1..4 PROVE fields[i] # <<>>
    OBVIOUS
  <2>1. Len(fields) >= 6 /\ \A k \in DOMAIN fields : fields[k] = <<>> => k \in {5, 6}
    BY DEF LineAccepted, fields
  <2>2. i \in DOMAIN fields /\ i \notin {5, 6}
    BY <1>3, <2>1
  <2> QED
    BY <2>1, <2>2
<1> QED
  BY <1>3, <1>4, <1>5 DEF LineSplit, fields

(* Whatever a line of the list of plugins holds, the fields it is taken    *)
(* apart into are what stands between its bars, the empty ones included,   *)
(* and a line that is taken has a name, a library and two functions.       *)
THEOREM EveryLineSplit ==
  ASSUME NEW Char, NEW t \in Seq(Char)
  PROVE  LineSplit(t)
<1> DEFINE C == Char \cup {"|"}
<1>1. "|" \in C /\ t \in Seq(C)
  OBVIOUS
<1> HIDE DEF C
<1> QED
  BY <1>1, FieldsOverBars

-----------------------------------------------------------------------------
(* The addresses of a body                                                 *)

\* What `Split' finds from the position i of a text on, with n cuts left.
SplitSolved(r, t, ch, max) ==
  /\ Split(t, ch, max) = r[max][1]
  /\ \A n \in 0..max, i \in 1..(Len(t) + 1) :
       r[n][i] = IF n = 0 \/ Find(ch, t, i) > Len(t) THEN <<SubSeq(t, i, Len(t))>>
                 ELSE <<SubSeq(t, i, Find(ch, t, i) - 1)>> \o r[n - 1][Find(ch, t, i) + 1]

LEMMA SplitExists ==
  ASSUME NEW C, NEW t \in Seq(C), NEW ch, NEW max \in Nat
  PROVE  \E r : SplitSolved(r, t, ch, max)
<1> DEFINE L == Len(t)
           Row(v, n) == [i \in 1..(Len(t) + 1) |->
                           LET j == Find(ch, t, i) IN
                           IF n = 0 \/ j > Len(t) THEN <<SubSeq(t, i, Len(t))>>
                           ELSE <<SubSeq(t, i, j - 1)>> \o v[j + 1]]
           Sol(f, k) == f = [n \in 0..k |-> Row(f[n - 1], n)]
           A == {k \in Nat : \E f : Sol(f, k)}
           from == CHOOSE f : Sol(f, max)
<1>1. Split(t, ch, max) = from[max][1]
  BY Zenon DEF Split
<1>2. \A v, w : Row(v, 0) = Row(w, 0)
  OBVIOUS
<1>3. L \in Nat /\ \A v, n : \A i \in 1..(L + 1) :
        Row(v, n)[i] = IF n = 0 \/ Find(ch, t, i) > L THEN <<SubSeq(t, i, L)>>
                       ELSE <<SubSeq(t, i, Find(ch, t, i) - 1)>> \o v[Find(ch, t, i) + 1]
  OBVIOUS
<1> HIDE DEF Row, L
<1>4. 0 \in A
  <2> DEFINE f == [n \in 0..0 |-> Row(0, 0)]
  <2>1. f = [n \in 0..0 |-> Row(f[n - 1], n)]
    <3>1. \A n \in 0..0 : Row(f[n - 1], n) = Row(0, 0)
      BY <1>2
    <3> HIDE DEF Row
    <3> QED
      BY <3>1
  <2> HIDE DEF f
  <2> QED
    BY <2>1
<1>5. ASSUME NEW k \in Nat, k \in A PROVE k + 1 \in A
  <2>1. PICK f : Sol(f, k)
    BY <1>5
  <2> DEFINE h == [n \in 0..(k + 1) |-> IF n = k + 1 THEN Row(f[k], k + 1) ELSE f[n]]
  <2>2. \A n \in 0..k : h[n] = f[n]
    OBVIOUS
  <2>3. ASSUME NEW n \in 0..(k + 1) PROVE h[n] = Row(h[n - 1], n)
    <3>1. Row(h[n - 1], n) = Row(f[n - 1], n)
      <4>1. CASE n = 0
        BY <1>2, <4>1
      <4>2. CASE n # 0
        <5>1. n - 1 \in 0..k
          BY <4>2
        <5>2. h[n - 1] = f[n - 1]
          BY <2>2, <5>1
        <5> QED
          BY <5>2
      <4> QED
        BY <4>1, <4>2
    <3>2. CASE n = k + 1
      <4>1. h[n] = Row(f[k], k + 1) /\ n - 1 = k
        BY <3>2
      <4> QED
        BY <3>1, <3>2, <4>1
    <3>3. CASE n # k + 1
      <4>1. n \in 0..k
        BY <3>3
      <4>2. f[n] = Row(f[n - 1], n)
        BY <2>1, <4>1
      <4> QED
        BY <2>2, <3>1, <4>1, <4>2
    <3> QED
      BY <3>2, <3>3
  <2>4. Sol(h, k + 1)
    <3>1. h = [n \in 0..(k + 1) |-> h[n]]
      OBVIOUS
    <3> HIDE DEF h
    <3> QED
      BY <2>3, <3>1
  <2> HIDE DEF h, Sol
  <2> QED
    BY <2>4
<1>6. \E f : Sol(f, max)
  <2> HIDE DEF A
  <2>1. max \in A
    BY <1>4, <1>5, Numbers
  <2> QED
    BY <2>1 DEF A
<1>7. Sol(from, max)
  BY <1>6, Zenon
<1> HIDE DEF from
<1>8. ASSUME NEW n \in 0..max, NEW i \in 1..(L + 1)
      PROVE  from[n][i] = IF n = 0 \/ Find(ch, t, i) > L THEN <<SubSeq(t, i, L)>>
                          ELSE <<SubSeq(t, i, Find(ch, t, i) - 1)>> \o from[n - 1][Find(ch, t, i) + 1]
  <2> DEFINE v == from[n - 1]
  <2>1. from[n] = Row(v, n)
    BY <1>7
  <2> HIDE DEF v
  <2>2. Row(v, n)[i] = IF n = 0 \/ Find(ch, t, i) > L THEN <<SubSeq(t, i, L)>>
                       ELSE <<SubSeq(t, i, Find(ch, t, i) - 1)>> \o v[Find(ch, t, i) + 1]
    BY <1>3
  <2> QED
    BY <2>1, <2>2 DEF v
<1> QED
  BY <1>1, <1>8 DEF SplitSolved, L

\* `SplitAll' cuts as often as there are characters.
SplitRows(r, t, ch) ==
  /\ SplitAll(t, ch) = r[Len(t)][1]
  /\ \A n \in 0..Len(t), i \in 1..(Len(t) + 1) :
       r[n][i] = IF n = 0 \/ Find(ch, t, i) > Len(t) THEN <<SubSeq(t, i, Len(t))>>
                 ELSE <<SubSeq(t, i, Find(ch, t, i) - 1)>> \o r[n - 1][Find(ch, t, i) + 1]

LEMMA SplitsAll ==
  ASSUME NEW C, NEW t \in Seq(C), NEW ch
  PROVE  \E r : SplitRows(r, t, ch)
<1>1. Len(t) \in Nat
  OBVIOUS
<1>2. PICK r : SplitSolved(r, t, ch, Len(t))
  BY <1>1, SplitExists
<1>3. SplitRows(r, t, ch)
  BY <1>2 DEF SplitSolved, SplitRows, SplitAll
<1> QED
  BY <1>3

\* With as many cuts left as there are characters, the fields are all of the text.
LEMMA AllFields ==
  ASSUME NEW C, NEW ch \in C, NEW t \in Seq(C), NEW r, SplitRows(r, t, ch)
  PROVE  \A i \in 0..Len(t) : \A n \in (Len(t) - i)..Len(t) :
           Fields(r[n][i + 1], C, ch, SubSeq(t, i + 1, Len(t)))
<1> DEFINE L == Len(t)
           A == {i \in 0..L : \A n \in (L - i)..L : Fields(r[n][i + 1], C, ch, SubSeq(t, i + 1, L))}
<1>1. L \in Nat
  OBVIOUS
<1>2. ASSUME NEW i \in 0..L, \A j \in (i + 1)..L : j \in A PROVE i \in A
  <2> SUFFICES ASSUME NEW n \in (L - i)..L PROVE Fields(r[n][i + 1], C, ch, SubSeq(t, i + 1, L))
    OBVIOUS
  <2> DEFINE j == Find(ch, t, i + 1)
  <2>1. n \in 0..L /\ i + 1 \in 1..(L + 1) /\ i + 1 \in Nat \ {0}
    BY <1>1
  <2>2. r[n][i + 1] = IF n = 0 \/ j > L THEN <<SubSeq(t, i + 1, L)>>
                      ELSE <<SubSeq(t, i + 1, j - 1)>> \o r[n - 1][j + 1]
    BY <2>1 DEF SplitRows
  <2>3. j \in 1..(L + 1) /\ j >= i + 1 /\ (j <= L => t[j] = ch)
    BY <2>1, FindsFirst
  <2> HIDE DEF j
  <2>4. CASE j > L
    <3>1. r[n][i + 1] = <<SubSeq(t, i + 1, L)>>
      BY <2>2, <2>4
    <3>2. SubSeq(t, i + 1, L) \in Seq(C)
      OBVIOUS
    <3> DEFINE x == SubSeq(t, i + 1, L)
    <3> HIDE DEF x
    <3>3. Fields(<<x>>, C, ch, x)
      BY <3>2, OneField DEF x
    <3> QED
      BY <3>1, <3>3 DEF x
  <2>5. CASE j <= L
    <3>1. j \in (i + 1)..L /\ n - 1 \in (L - j)..L /\ n # 0 /\ ~(j > L)
      BY <1>1, <2>3, <2>5
    <3>2. r[n][i + 1] = <<SubSeq(t, i + 1, j - 1)>> \o r[n - 1][j + 1]
      BY <2>2, <3>1
    <3>3. Fields(r[n - 1][j + 1], C, ch, SubSeq(t, j + 1, L))
      BY <1>2, <3>1
    <3>4. t[j] = ch
      BY <2>3, <2>5
    <3> DEFINE q == r[n - 1][j + 1]
    <3> HIDE DEF q
    <3>5. Fields(<<SubSeq(t, i + 1, j - 1)>> \o q, C, ch, SubSeq(t, i + 1, L))
      BY <3>1, <3>3, <3>4, MoreFields DEF q
    <3> QED
      BY <3>2, <3>5 DEF q
  <2> QED
    BY <1>1, <2>3, <2>4, <2>5
<1>3. 0..L \subseteq A
  <2> HIDE DEF A
  <2>1. L \in Int /\ \A i \in 0..L : (\A j \in (i + 1)..L : j \in A) => i \in A
    BY <1>1, <1>2
  <2> QED
    BY <2>1, Backwards
<1> QED
  BY <1>3

\* What the loop over the addresses takes from the position i of a text on.
UrlSteps(f, t) ==
  /\ UrlList(t) = f[0]
  /\ \A i \in 0..Len(t) :
       f[i] = IF i >= Len(t) - 1 THEN <<>>
              ELSE <<SubSeq(t, i + 1, Find("|", t, i + 1) - 1)>> \o
                   f[IF Find("|", t, i + 1) <= Len(t) THEN Find("|", t, i + 1) ELSE Len(t) - 1]

LEMMA NoNul ==
  ASSUME NEW C, NEW t \in Seq(C), ~Occurs("NUL", t), NEW i \in 0..Len(t)
  PROVE  /\ UrlEnd(t, i) = Find("|", t, i + 1) - 1
         /\ NextUrl(t, i) = IF Find("|", t, i + 1) <= Len(t) THEN Find("|", t, i + 1) ELSE Len(t) - 1
<1> DEFINE L   == Len(t)
           bar == Find("|", t, i + 1)
           nul == Find("NUL", t, i + 1)
<1>1. i + 1 \in Nat \ {0} /\ L \in Nat /\ i <= L
  OBVIOUS
<1>2. bar \in 1..(L + 1) /\ nul \in 1..(L + 1) /\ (nul <= L => t[nul] = "NUL")
  BY <1>1, FindsFirst
<1>3. nul = L + 1
  <2> HIDE DEF nul, bar
  <2>1. nul \in 1..L => nul \in DOMAIN t
    OBVIOUS
  <2> QED
    BY <1>1, <1>2, <2>1 DEF Occurs
<1>4. UrlEnd(t, i) = Min({bar, nul}) - 1 /\ NextUrl(t, i) = IF bar < nul THEN bar ELSE L - 1
  BY Zenon DEF UrlEnd, NextUrl
<1> HIDE DEF bar, nul, L
<1>5. Min({bar, nul}) = bar
  <2>1. {bar, nul} \in SUBSET Nat /\ {bar, nul} # {}
    BY <1>2, <1>1
  <2>2. Min({bar, nul}) \in {bar, nul} /\ \A y \in {bar, nul} : Min({bar, nul}) <= y
    BY <2>1, Minimum DEF Min
  <2> QED
    BY <1>2, <1>3, <2>2, <1>1
<1> QED
  BY <1>1, <1>2, <1>3, <1>4, <1>5 DEF bar, L

LEMMA UrlsFound ==
  ASSUME NEW C, NEW t \in Seq(C), ~Occurs("NUL", t)
  PROVE  \E f : UrlSteps(f, t)
<1> DEFINE L      == Len(t)
           Sol(f) == f = [i \in 0..(Len(t) + 1) |-> IF i >= Len(t) - 1 THEN <<>>
                                                    ELSE <<SubSeq(t, i + 1, UrlEnd(t, i))>> \o f[NextUrl(t, i)]]
           X      == [i \in 0..(L + 1) |-> SubSeq(t, i + 1, UrlEnd(t, i))]
           next   == [i \in 0..(L + 1) |-> NextUrl(t, i)]
           from   == CHOOSE f : Sol(f)
<1>1. UrlList(t) = from[0]
  BY Zenon DEF UrlList
<1>2. L \in Nat /\ L + 1 \in Nat /\ L - 1 \in Int
  OBVIOUS
<1>3. \A i \in 0..(L + 1) : X[i] = SubSeq(t, i + 1, UrlEnd(t, i)) /\ next[i] = NextUrl(t, i)
  OBVIOUS
<1>4. ASSUME NEW i \in 0..(L + 1), i < L - 1 PROVE next[i] \in (i + 1)..(L + 1)
  <2> DEFINE j == Find("|", t, i + 1)
  <2>1. i + 1 \in Nat \ {0} /\ i + 1 <= L + 1 /\ i \in 0..L
    BY <1>2, <1>4
  <2>2. j \in 1..(L + 1) /\ j >= i + 1
    BY <2>1, FindsFirst
  <2>3. next[i] = IF j <= L THEN j ELSE L - 1
    BY <1>3, <2>1, NoNul
  <2> HIDE DEF j, next
  <2> QED
    BY <1>2, <1>4, <2>1, <2>2, <2>3
<1>5. PICK f : Cut(f, L + 1, L - 1, X, next)
  <2> HIDE DEF X, next, L
  <2>1. \A i \in 0..(L + 1) : i < L - 1 => next[i] \in (i + 1)..(L + 1)
    BY <1>4
  <2>2. \E f : Cut(f, L + 1, L - 1, X, next)
    BY <1>2, <2>1, CutExists
  <2> QED
    BY <2>2
<1>6. Sol(f)
  <2> HIDE DEF X, next
  <2> QED
    BY <1>3, <1>5 DEF Cut
<1>7. Sol(from)
  BY <1>6, Zenon
<1> HIDE DEF from
<1>8. ASSUME NEW i \in 0..L
      PROVE  from[i] = IF i >= L - 1 THEN <<>>
                       ELSE <<SubSeq(t, i + 1, Find("|", t, i + 1) - 1)>> \o
                            from[IF Find("|", t, i + 1) <= L THEN Find("|", t, i + 1) ELSE L - 1]
  <2>1. i \in 0..(Len(t) + 1)
    BY <1>2
  <2>2. from[i] = IF i >= Len(t) - 1 THEN <<>> ELSE <<SubSeq(t, i + 1, UrlEnd(t, i))>> \o from[NextUrl(t, i)]
    BY <1>7, <2>1
  <2> QED
    BY <2>2, NoNul
<1> QED
  BY <1>1, <1>8 DEF UrlSteps, L

\* The fields u are the first of the fields a; what is left is no more than one
\* character, and it was more before the last of u.
Taken(u, a) ==
  /\ Len(u) \in 0..Len(a) /\ u = SubSeq(a, 1, Len(u))
  /\ Len(u) < Len(a) => Len(Join(SubSeq(a, Len(u) + 1, Len(a)), "|")) <= 1
  /\ Len(u) > 0 => Len(Join(SubSeq(a, Len(u), Len(a)), "|")) > 1

LEMMA TakenNone ==
  ASSUME NEW D, NEW a \in Seq(D), Len(Join(a, "|")) <= 1
  PROVE  Taken(<<>>, a)
<1> DEFINE u == <<>>
           m == Len(u)
<1>1. m = 0 /\ Len(a) \in Nat /\ SubSeq(a, 1, 0) = u /\ SubSeq(a, 1, Len(a)) = a
  OBVIOUS
<1> HIDE DEF m, u
<1>2. m \in 0..Len(a) /\ u = SubSeq(a, 1, m) /\ SubSeq(a, m + 1, Len(a)) = a /\ ~(m > 0)
  BY <1>1
<1>3. Taken(u, a)
  BY <1>2 DEF Taken, m
<1> QED
  BY <1>3 DEF u

LEMMA Shifted ==
  ASSUME NEW D, NEW x \in D, NEW a \in Seq(D)
  PROVE  /\ <<x>> \o a \in Seq(D) /\ Len(<<x>> \o a) = Len(a) + 1
         /\ SubSeq(<<x>> \o a, 1, Len(a) + 1) = <<x>> \o a
         /\ \A k \in 1..Len(a) : SubSeq(<<x>> \o a, k + 1, Len(a) + 1) = SubSeq(a, k, Len(a))
         /\ \A k \in 0..Len(a) : SubSeq(<<x>> \o a, 1, k + 1) = <<x>> \o SubSeq(a, 1, k)
<1> DEFINE b == <<x>> \o a
           n == Len(a)
<1>1. n \in Nat /\ b \in Seq(D) /\ Len(b) = n + 1 /\ b[1] = x /\ \A k \in 1..n : b[k + 1] = a[k] /\ a[k] \in D
  OBVIOUS
<1> HIDE DEF b
<1>2. SubSeq(b, 1, n + 1) = b
  BY <1>1
<1>3. ASSUME NEW k \in 1..n PROVE SubSeq(b, k + 1, n + 1) = SubSeq(a, k, n)
  <2> DEFINE v == SubSeq(b, k + 1, n + 1)
             w == SubSeq(a, k, n)
  <2>1. v \in Seq(D) /\ Len(v) = n + 1 - k /\ \A m \in 1..(n + 1 - k) : v[m] = b[k + m]
    BY <1>1
  <2>2. w \in Seq(D) /\ Len(w) = n + 1 - k /\ \A m \in 1..(n + 1 - k) : w[m] = a[k + m - 1]
    BY <1>1
  <2> HIDE DEF v, w
  <2>3. ASSUME NEW m \in 1..Len(v) PROVE v[m] = w[m]
    <3>1. k + m - 1 \in 1..n /\ (k + m - 1) + 1 = k + m /\ m \in 1..(n + 1 - k)
      BY <1>1, <2>1
    <3>2. b[k + m] = a[k + m - 1]
      BY <1>1, <3>1
    <3> QED
      BY <2>1, <2>2, <3>1, <3>2
  <2>4. v = w
    BY <2>1, <2>2, <2>3, SeqEqual
  <2> QED
    BY <2>4 DEF v, w
<1>4. ASSUME NEW k \in 0..n PROVE SubSeq(b, 1, k + 1) = <<x>> \o SubSeq(a, 1, k)
  <2> DEFINE c == SubSeq(a, 1, k)
             v == SubSeq(b, 1, k + 1)
             w == <<x>> \o c
  <2>1. v \in Seq(D) /\ Len(v) = k + 1 /\ \A m \in 1..(k + 1) : v[m] = b[m]
    BY <1>1
  <2>2. c \in Seq(D) /\ Len(c) = k /\ \A m \in 1..k : c[m] = a[m]
    BY <1>1
  <2> HIDE DEF c, v
  <2>3. w \in Seq(D) /\ Len(w) = k + 1 /\ w[1] = x /\ \A m \in 1..k : w[m + 1] = c[m]
    BY <2>2
  <2> HIDE DEF w
  <2>4. ASSUME NEW m \in 1..Len(v) PROVE v[m] = w[m]
    <3>1. CASE m = 1
      BY <1>1, <2>1, <2>3, <3>1
    <3>2. CASE m # 1
      <4> DEFINE l == m - 1
      <4>1. l \in 1..k /\ l \in 1..n /\ l + 1 = m
        BY <1>1, <2>1, <3>2
      <4> HIDE DEF l
      <4>2. w[l + 1] = c[l] /\ c[l] = a[l] /\ b[l + 1] = a[l]
        BY <1>1, <2>2, <2>3, <4>1
      <4>3. v[m] = b[m]
        BY <2>1
      <4> QED
        BY <4>1, <4>2, <4>3
    <3> QED
      BY <3>1, <3>2
  <2>5. v = w
    BY <2>1, <2>3, <2>4, SeqEqual
  <2> QED
    BY <2>5 DEF v, w, c
<1> QED
  BY <1>1, <1>2, <1>3, <1>4 DEF b

LEMMA TakenMore ==
  ASSUME NEW D, NEW x \in D, NEW a \in Seq(D), NEW u, Taken(u, a), Len(Join(<<x>> \o a, "|")) > 1
  PROVE  Taken(<<x>> \o u, <<x>> \o a)
<1> DEFINE b == <<x>> \o a
           v == <<x>> \o u
           m == Len(u)
           n == Len(a)
<1>1. n \in Nat /\ m \in 0..n /\ u = SubSeq(a, 1, m) /\ u \in Seq(D)
  <2>1. m \in 0..n /\ u = SubSeq(a, 1, m) /\ n \in Nat
    BY DEF Taken
  <2> HIDE DEF m
  <2>2. SubSeq(a, 1, m) \in Seq(D)
    BY <2>1
  <2> QED
    BY <2>1, <2>2
<1>2. Len(v) = m + 1
  BY <1>1
<1>3. Len(b) = n + 1 /\ v = SubSeq(b, 1, m + 1)
  BY <1>1, Shifted
<1>4. m < n => SubSeq(b, m + 2, n + 1) = SubSeq(a, m + 1, n)
  <2> SUFFICES ASSUME m < n PROVE SubSeq(b, m + 2, n + 1) = SubSeq(a, m + 1, n)
    OBVIOUS
  <2> DEFINE k == m + 1
  <2>1. k \in 1..n /\ k + 1 = m + 2
    BY <1>1
  <2> HIDE DEF k
  <2>2. SubSeq(b, k + 1, n + 1) = SubSeq(a, k, n)
    BY <2>1, Shifted
  <2> QED
    BY <2>1, <2>2 DEF k
<1>5. m > 0 => SubSeq(b, m + 1, n + 1) = SubSeq(a, m, n)
  <2>1. m > 0 => m \in 1..n
    BY <1>1
  <2> QED
    BY <2>1, Shifted
<1>6. m = 0 => SubSeq(b, m + 1, n + 1) = b
  <2>1. SubSeq(b, 1, n + 1) = b
    BY Shifted
  <2> QED
    BY <2>1
<1>7. /\ m < n => Len(Join(SubSeq(a, m + 1, n), "|")) <= 1
      /\ m > 0 => Len(Join(SubSeq(a, m, n), "|")) > 1
      /\ Len(Join(b, "|")) > 1
  BY DEF Taken
<1> HIDE DEF b, v, m, n
<1>8. Len(v) \in 0..Len(b) /\ Len(v) > 0 /\ Len(v) + 1 = m + 2 /\ (Len(v) < Len(b) => m < n)
  BY <1>1, <1>2, <1>3
<1>9. Len(Join(SubSeq(b, m + 1, n + 1), "|")) > 1
  <2>1. m = 0 \/ m > 0
    BY <1>1
  <2> QED
    BY <1>5, <1>6, <1>7, <2>1
<1>10. Taken(v, b)
  BY <1>2, <1>3, <1>4, <1>7, <1>8, <1>9 DEF Taken
<1> QED
  BY <1>10 DEF v, b

\* From every position of a text on, the addresses are the first of the fields.
LEMMA UrlsFirst ==
  ASSUME NEW C, "|" \in C, NEW t \in Seq(C), NEW f, UrlSteps(f, t), NEW r, SplitRows(r, t, "|")
  PROVE  \A i \in 0..Len(t) : \A n \in (Len(t) - i)..Len(t) : Taken(f[i], r[n][i + 1])
<1> DEFINE L == Len(t)
           A == {i \in 0..L : \A n \in (L - i)..L : Taken(f[i], r[n][i + 1])}
<1>1. L \in Nat
  OBVIOUS
<1>2. ASSUME NEW i \in 0..L, \A j \in (i + 1)..L : j \in A PROVE i \in A
  <2> SUFFICES ASSUME NEW n \in (L - i)..L PROVE Taken(f[i], r[n][i + 1])
    OBVIOUS
  <2> DEFINE j == Find("|", t, i + 1)
             w == SubSeq(t, i + 1, L)
             x == SubSeq(t, i + 1, j - 1)
             a == r[n][i + 1]
  <2>1. n \in 0..L /\ i + 1 \in 1..(L + 1) /\ i + 1 \in Nat \ {0}
    BY <1>1
  <2>2. j \in 1..(L + 1) /\ j >= i + 1 /\ (j <= L => t[j] = "|")
    BY <2>1, FindsFirst
  <2>3. a = IF n = 0 \/ j > L THEN <<w>> ELSE <<x>> \o r[n - 1][j + 1]
    BY <2>1 DEF SplitRows
  <2>4. f[i] = IF i >= L - 1 THEN <<>> ELSE <<x>> \o f[IF j <= L THEN j ELSE L - 1]
    BY DEF UrlSteps
  <2>5. Fields(a, C, "|", w)
    <3> HIDE DEF a, w, L
    <3>1. Fields(r[n][i + 1], C, "|", SubSeq(t, i + 1, Len(t)))
      BY AllFields DEF L
    <3> QED
      BY <3>1 DEF a, w, L
  <2>6. w \in Seq(C) /\ Len(w) = L - i /\ x \in Seq(C)
    BY <1>1, <2>2
  <2>7. a \in Seq(Seq(C)) /\ Join(a, "|") = w
    BY <2>5 DEF Fields
  <2> HIDE DEF j, a, w, x
  <2> DEFINE D == Seq(C)
  <2>8. a \in Seq(D) /\ x \in D /\ w \in D
    BY <2>6, <2>7
  <2> HIDE DEF D
  <2>9. CASE i >= L - 1
    <3>1. f[i] = <<>> /\ Len(Join(a, "|")) <= 1
      BY <1>1, <2>4, <2>6, <2>7, <2>9
    <3>2. Taken(<<>>, a)
      BY <2>8, <3>1, TakenNone
    <3> QED
      BY <3>1, <3>2 DEF a
  <2>10. CASE i < L - 1 /\ j > L
    <3>1. j = L + 1 /\ ~(j <= L) /\ ~(i >= L - 1) /\ j - 1 = L
      BY <1>1, <2>2, <2>10
    <3>2. x = w /\ a = <<x>> /\ f[i] = <<x>> \o f[L - 1]
      BY <2>3, <2>4, <2>10, <3>1 DEF x, w
    <3>3. f[L - 1] = <<>>
      <4>1. L - 1 \in 0..L /\ L - 1 >= L - 1
        BY <1>1, <2>10
      <4> QED
        BY <4>1 DEF UrlSteps
    <3>4. <<>> \in Seq(D) /\ <<x>> \o <<>> = <<x>> /\ Len(Join(<<>>, "|")) <= 1
      <4>1. Join(<<>>, "|") = <<>>
        BY JoinEmpty
      <4> QED
        BY <4>1
    <3>5. Len(Join(<<x>> \o <<>>, "|")) > 1
      BY <1>1, <2>6, <2>7, <2>10, <3>2, <3>4
    <3>6. Taken(<<>>, <<>>)
      BY <3>4, TakenNone
    <3>7. Taken(<<x>> \o <<>>, <<x>> \o <<>>)
      BY <2>8, <3>4, <3>5, <3>6, TakenMore
    <3> QED
      BY <3>2, <3>3, <3>4, <3>7 DEF a
  <2>11. CASE i < L - 1 /\ j <= L
    <3> DEFINE q == r[n - 1][j + 1]
               u == f[j]
    <3>1. j \in (i + 1)..L /\ n - 1 \in (L - j)..L /\ n - 1 \in Int /\ n # 0 /\ ~(j > L) /\ ~(i >= L - 1)
      BY <1>1, <2>2, <2>11
    <3>2. a = <<x>> \o q /\ f[i] = <<x>> \o u
      BY <2>3, <2>4, <2>11, <3>1
    <3>3. Taken(u, q)
      BY <1>2, <3>1
    <3>4. Fields(q, C, "|", SubSeq(t, j + 1, L))
      <4>1. j \in 0..L
        BY <1>1, <3>1
      <4> HIDE DEF L
      <4>2. Fields(r[n - 1][j + 1], C, "|", SubSeq(t, j + 1, Len(t)))
        BY <3>1, <4>1, AllFields DEF L
      <4> QED
        BY <4>2 DEF L
    <3>5. q \in Seq(D)
      BY <3>4 DEF Fields, D
    <3>6. Len(Join(<<x>> \o q, "|")) > 1
      BY <1>1, <2>6, <2>7, <2>11, <3>2
    <3> HIDE DEF q, u
    <3>7. Taken(<<x>> \o u, <<x>> \o q)
      BY <2>8, <3>3, <3>5, <3>6, TakenMore
    <3> QED
      BY <3>2, <3>7 DEF a
  <2> QED
    BY <1>1, <2>2, <2>9, <2>10, <2>11
<1>3. 0..L \subseteq A
  <2> HIDE DEF A
  <2>1. L \in Int /\ \A i \in 0..L : (\A j \in (i + 1)..L : j \in A) => i \in A
    BY <1>1, <1>2
  <2> QED
    BY <2>1, Backwards
<1> QED
  BY <1>3

LEMMA UrlsOverBars ==
  ASSUME NEW C, "|" \in C, NEW t \in Seq(C)
  PROVE  ListTaken(t)
<1> SUFFICES ASSUME ~Occurs("NUL", t)
             PROVE  LET all == SplitAll(t, "|")
                        n   == Len(UrlList(t)) IN
                    /\ UrlList(t) = SubSeq(all, 1, n)
                    /\ n < Len(all) => Len(Join(SubSeq(all, n + 1, Len(all)), "|")) <= 1
                    /\ n > 0 => Len(Join(SubSeq(all, n, Len(all)), "|")) > 1
  BY DEF ListTaken
<1>1. PICK f : UrlSteps(f, t)
  BY UrlsFound
<1>2. PICK r : SplitRows(r, t, "|")
  BY SplitsAll
<1>3. Taken(f[0], r[Len(t)][0 + 1])
  <2>1. 0 \in 0..Len(t) /\ Len(t) \in (Len(t) - 0)..Len(t)
    OBVIOUS
  <2> QED
    BY <1>1, <1>2, <2>1, UrlsFirst
<1>4. Taken(UrlList(t), SplitAll(t, "|"))
  <2>1. 0 + 1 = 1
    OBVIOUS
  <2> QED
    BY <1>1, <1>2, <1>3, <2>1 DEF UrlSteps, SplitRows
<1> QED
  BY <1>4 DEF Taken

(* Whatever body is posted: the addresses that are fetched from it are the *)
(* first of what stands between its separators, in their order, none twice *)
(* and none left out, up to a rest of no more than one character.          *)
THEOREM EveryListTaken ==
  ASSUME NEW Char, NEW t \in Seq(Char)
  PROVE  ListTaken(t)
<1> DEFINE C == Char \cup {"|"}
<1>1. "|" \in C /\ t \in Seq(C)
  OBVIOUS
<1> HIDE DEF C
<1> QED
  BY <1>1, UrlsOverBars

-----------------------------------------------------------------------------
(* The `ext' parameter                                                     *)

LEMMA HexDigit ==
  ASSUME NEW ch, IsHex(ch)
  PROVE  ch \notin {" ", "+", "-", "%", ""} /\ HexValue(ch) \in 0..15
<1>1. PICK d \in 1..16 : Hex[d] = ch
  BY DEF IsHex
<1>2. ch \notin {" ", "+", "-", "%", ""}
  <2>1. d \in {1, 2, 3, 4, 5, 6, 7, 8, 9, 10, 11, 12, 13, 14, 15, 16}
    OBVIOUS
  <2>2. /\ Hex[1] = "0" /\ Hex[2] = "1" /\ Hex[3] = "2" /\ Hex[4] = "3"
        /\ Hex[5] = "4" /\ Hex[6] = "5" /\ Hex[7] = "6" /\ Hex[8] = "7"
        /\ Hex[9] = "8" /\ Hex[10] = "9" /\ Hex[11] = "a" /\ Hex[12] = "b"
        /\ Hex[13] = "c" /\ Hex[14] = "d" /\ Hex[15] = "e" /\ Hex[16] = "f"
    BY DEF Hex
  <2>3. ch \in {"0", "1", "2", "3", "4", "5", "6", "7", "8", "9", "a", "b", "c", "d", "e", "f"}
    BY <1>1, <2>1, <2>2
  <2> QED
    BY <2>3
<1>3. (CHOOSE e \in 1..16 : Hex[e] = ch) \in 1..16
  BY <1>1
<1>4. HexValue(ch) \in 0..15
  <2> DEFINE e == CHOOSE e \in 1..16 : Hex[e] = ch
  <2>1. HexValue(ch) = e - 1
    BY Zenon DEF HexValue
  <2> HIDE DEF e
  <2> QED
    BY <1>3, <2>1 DEF e
<1> QED
  BY <1>2, <1>4

\* The number that two hexadecimal digits say.
LEMMA TwoDigitsFolded ==
  ASSUME NEW a, NEW b, IsHex(a), IsHex(b), NEW w, w = <<a, b>>
  PROVE  FoldLeft(LAMBDA x, ch : 16 * x + HexValue(ch), 0, w) = 16 * HexValue(a) + HexValue(b)
<1> DEFINE Op(x, ch) == 16 * x + HexValue(ch)
           Sol(f)   == f = [T \in SUBSET (DOMAIN w) |->
                              IF T = {} THEN 0 ELSE LET x == Max(T) IN Op(f[T \ {x}], w[x])]
           iter     == CHOOSE f : Sol(f)
<1>1. FoldLeft(LAMBDA x, ch : 16 * x + HexValue(ch), 0, w) = iter[DOMAIN w]
  BY Zenon DEF FoldLeft, MapThenFoldSet
<1>2. DOMAIN w = 1..2 /\ w[1] = a /\ w[2] = b
  <2> HIDE DEF Sol
  <2> QED
    OBVIOUS
<1>3. HexValue(a) \in Int /\ HexValue(b) \in Int
  <2>1. HexValue(a) \in 0..15 /\ HexValue(b) \in 0..15
    BY HexDigit
  <2> QED
    BY <2>1
<1>4. \A x \in Int, k \in 1..2 : Op(x, w[k]) \in Int
  <2> SUFFICES ASSUME NEW x \in Int, NEW k \in 1..2 PROVE 16 * x + HexValue(w[k]) \in Int
    OBVIOUS
  <2>1. k = 1 \/ k = 2
    OBVIOUS
  <2>2. HexValue(w[k]) \in Int
    BY <1>2, <1>3, <2>1
  <2> QED
    BY <2>2
<1>5. /\ Op(Op(0, a), b) = 16 * HexValue(a) + HexValue(b)
  BY <1>3
<1> HIDE DEF Op
<1>6. \E f : Sol(f)
  <2> DEFINE G == [p \in Int \X (1..2) |-> Op(p[1], w[p[2]])]
  <2>1. G \in [Int \X (1..2) -> Int]
    BY <1>4
  <2>2. \A x \in Int, k \in 1..2 : G[<<x, k>>] = Op(x, w[k])
    OBVIOUS
  <2> HIDE DEF G
  <2>3. PICK h \in [SUBSET (1..2) -> Int] : Folds(h, 2, G, 0)
    <3> HIDE DEF Sol
    <3>1. 2 \in Nat /\ 0 \in Int
      OBVIOUS
    <3> QED
      BY <2>1, <3>1, FoldExists
  <2>4. ASSUME NEW T \in SUBSET (1..2), T # {} PROVE G[<<h[T \ {Max(T)}], Max(T)>>] = Op(h[T \ {Max(T)}], w[Max(T)])
    <3> DEFINE x == Max(T)
               y == h[T \ {x}]
    <3>1. x \in 1..2
      BY <2>4, MaxOf
    <3> HIDE DEF x
    <3>2. y \in Int
      BY <2>3, <3>1
    <3> HIDE DEF y
    <3>3. G[<<y, x>>] = Op(y, w[x])
      BY <2>2, <3>1, <3>2
    <3> QED
      BY <3>3 DEF y, x
  <2>5. Sol(h)
    BY <1>2, <2>3, <2>4 DEF Folds
  <2> QED
    BY <2>5, Zenon
<1>7. Sol(iter)
  BY <1>6, Zenon
<1> HIDE DEF iter
<1>8. iter[1..0] = 0
  <2>1. 1..0 = {} /\ {} \in SUBSET (1..2)
    OBVIOUS
  <2>2. iter[{}] = 0
    BY <1>2, <1>7, <2>1
  <2> QED
    BY <2>1, <2>2
<1>9. ASSUME NEW k \in 1..2 PROVE iter[1..k] = Op(iter[1..(k - 1)], w[k])
  <2>1. Max(1..k) = k /\ (1..k) \ {k} = 1..(k - 1) /\ 1..k # {} /\ 1..k \in SUBSET (1..2)
    BY LastOf
  <2>2. iter[1..k] = IF 1..k = {} THEN 0 ELSE Op(iter[(1..k) \ {Max(1..k)}], w[Max(1..k)])
    BY <1>2, <1>7, <2>1
  <2> QED
    BY <2>1, <2>2
<1>10. iter[1..2] = Op(Op(0, a), b)
  <2> HIDE DEF Sol
  <2>1. iter[1..1] = Op(iter[1..(1 - 1)], w[1]) /\ iter[1..2] = Op(iter[1..(2 - 1)], w[2]) /\ 1 - 1 = 0 /\ 2 - 1 = 1
    BY <1>9
  <2> QED
    BY <1>2, <1>8, <2>1
<1> QED
  BY <1>1, <1>2, <1>5, <1>10

LEMMA NotFound ==
  ASSUME NEW S, NEW ch, ch \notin S, NEW m \in Seq(S)
  PROVE  Find(ch, m, 1) = Len(m) + 1
<1> DEFINE p == Find(ch, m, 1)
           n == Len(m)
<1>1. n \in Nat /\ 1 \in Nat \ {0} /\ \A i \in 1..n : m[i] \in S
  OBVIOUS
<1>2. p \in 1..(n + 1) /\ (p <= n => m[p] = ch)
  BY <1>1, FindsFirst
<1> HIDE DEF p, n
<1>3. ~(p <= n)
  BY <1>1, <1>2
<1>4. p = n + 1
  BY <1>1, <1>2, <1>3
<1> QED
  BY <1>4 DEF p, n

LEMMA TwoDigits ==
  ASSUME NEW a, NEW b, IsHex(a), IsHex(b), NEW ii
  PROVE  sscanf_x(<<a, b>>, ii) = 16 * HexValue(a) + HexValue(b)
<1> DEFINE w        == <<a, b>>
           s        == IF w # <<>> /\ w[1] = " " THEN Tail(w) ELSE w
           sign     == s # <<>> /\ s[1] \in {"+", "-"}
           u        == IF sign THEN Tail(s) ELSE s
           marks    == [i \in DOMAIN u |-> IF IsHex(u[i]) THEN "x" ELSE ""]
           n        == Find("", marks, 1) - 1
           v        == FoldLeft(LAMBDA x, ch : 16 * x + HexValue(ch), 0, SubSeq(u, 1, n))
<1>1. sscanf_x(w, ii) = IF n = 0 THEN ii ELSE IF sign /\ s[1] = "-" THEN -v ELSE v
  BY Zenon DEF sscanf_x
<1>2. /\ DOMAIN w = 1..2 /\ w[1] = a /\ w[2] = b
      /\ w \in Seq({a, b}) /\ Len(w) = 2
  OBVIOUS
<1>3. a # " " /\ a # "+" /\ a # "-"
  BY HexDigit
<1>4. v = FoldLeft(LAMBDA x, ch : 16 * x + HexValue(ch), 0, w) => v = 16 * HexValue(a) + HexValue(b)
  <2>1. FoldLeft(LAMBDA x, ch : 16 * x + HexValue(ch), 0, w) = 16 * HexValue(a) + HexValue(b)
    BY TwoDigitsFolded
  <2> QED
    BY <2>1, Zenon
<1> HIDE DEF w, n, v
<1>5. s = w
  BY <1>2, <1>3
<1> HIDE DEF s
<1>6. ~sign
  BY <1>2, <1>3, <1>5
<1>7. u = w
  BY <1>5, <1>6
<1> HIDE DEF u, sign
<1>8. n = 2
  <2>1. \A i \in 1..2 : IsHex(w[i])
    <3>1. \A i \in 1..2 : i = 1 \/ i = 2
      OBVIOUS
    <3> QED
      BY <1>2, <3>1
  <2>2. marks = [i \in 1..2 |-> "x"]
    BY <1>2, <1>7, <2>1
  <2> DEFINE p == Find("", marks, 1)
  <2> HIDE DEF marks
  <2>3. marks \in Seq({"x"}) /\ Len(marks) = 2
    BY <2>2
  <2>4. p = 3
    <3>1. "" \notin {"x"}
      OBVIOUS
    <3>2. p = Len(marks) + 1
      BY <2>3, <3>1, NotFound
    <3>3. Len(marks) = 2
      BY <2>3
    <3> HIDE DEF p
    <3> QED
      BY <3>2, <3>3
  <2>5. n = p - 1
    BY DEF n
  <2> HIDE DEF p
  <2> QED
    BY <2>4, <2>5
<1>9. SubSeq(u, 1, n) = w
  <2>1. SubSeq(w, 1, 2) = w
    BY <1>2
  <2> QED
    BY <1>7, <1>8, <2>1
<1>10. v = FoldLeft(LAMBDA x, ch : 16 * x + HexValue(ch), 0, w)
  BY <1>9, Zenon DEF v
<1>11. v = 16 * HexValue(a) + HexValue(b)
  BY <1>4, <1>10, Zenon
<1>12. sscanf_x(w, ii) = v
  BY <1>1, <1>6, <1>8
<1> QED
  BY <1>11, <1>12 DEF w

\* What the scan leaves is what it read, or what it found.
Scanned(t, k, ii) == sscanf_x(SubSeq(t, k + 1, Min({k + 2, Len(t)})), ii)

LEMMA ScannedOrKept ==
  ASSUME NEW t, NEW k, NEW ii, NEW garbage
  PROVE  Scanned(t, k, ii) = ii \/ Scanned(t, k, ii) = Scanned(t, k, garbage)
<1> DEFINE x == SubSeq(t, k + 1, Min({k + 2, Len(t)}))
<1> HIDE DEF x
<1>1. sscanf_x(x, ii) = ii \/ sscanf_x(x, ii) = sscanf_x(x, garbage)
  BY DEF sscanf_x
<1> QED
  BY <1>1 DEF x, Scanned

\* One character of the parameter.
LEMMA OneDecoded ==
  ASSUME NEW B, NEW V, NEW st \in [ret : Seq(B), ii : V, skip : 0..2], NEW t, NEW k,
         Plain(t[k]) \in B, Byte(Scanned(t, k, st.ii)) \in B, Scanned(t, k, st.ii) \in V,
         NEW next, next = Decoded(t, st, k)
  PROVE  /\ next \in [ret : Seq(B), ii : V, skip : 0..2]
         /\ st.skip > 0 => next.ret = st.ret /\ next.skip = st.skip - 1
         /\ st.skip = 0 /\ t[k] # "%" => next.ret = Append(st.ret, Plain(t[k])) /\ next.skip = 0
         /\ st.skip = 0 /\ t[k] = "%" => next.ret = Append(st.ret, Byte(Scanned(t, k, st.ii))) /\ next.skip = 2
<1> DEFINE ii == Scanned(t, k, st.ii)
<1>1. next = IF st.skip > 0 THEN [st EXCEPT !.skip = st.skip - 1]
             ELSE IF t[k] # "%" THEN [st EXCEPT !.ret = Append(st.ret, Plain(t[k]))]
             ELSE [ret |-> Append(st.ret, Byte(ii)), ii |-> ii, skip |-> 2]
  BY DEF Decoded, Scanned
<1> HIDE DEF ii
<1>2. st.ret \in Seq(B) /\ st.ii \in V /\ st.skip \in 0..2
  OBVIOUS
<1>3. CASE st.skip > 0
  BY <1>1, <1>2, <1>3
<1>4. CASE st.skip = 0 /\ t[k] # "%"
  <2> DEFINE y == Append(st.ret, Plain(t[k]))
  <2>1. next = [st EXCEPT !.ret = y] /\ y \in Seq(B)
    BY <1>1, <1>2, <1>4
  <2> HIDE DEF y
  <2>2. next \in [ret : Seq(B), ii : V, skip : 0..2] /\ next.ret = y /\ next.skip = 0
    BY <1>4, <2>1
  <2> QED
    BY <1>4, <2>2 DEF y
<1>5. CASE st.skip = 0 /\ t[k] = "%"
  <2>1. next = [ret |-> Append(st.ret, Byte(ii)), ii |-> ii, skip |-> 2]
    BY <1>1, <1>5
  <2>2. Append(st.ret, Byte(ii)) \in Seq(B) /\ ii \in V
    BY <1>2 DEF ii
  <2> QED
    BY <1>2, <1>5, <2>1, <2>2 DEF ii
<1> QED
  BY <1>2, <1>3, <1>4, <1>5

\* The parameter is decoded character by character.
DecodeSteps(g, t, garbage, B) ==
  /\ url_decode(t, garbage) = g[Len(t)].ret
  /\ g[0].ret = <<>> /\ g[0].skip = 0
  /\ \A k \in 0..Len(t) : g[k].ret \in Seq(B) /\ g[k].skip \in 0..2
  /\ \A k \in 1..Len(t) :
       /\ g[k - 1].skip > 0 => g[k].ret = g[k - 1].ret /\ g[k].skip = g[k - 1].skip - 1
       /\ g[k - 1].skip = 0 /\ t[k] # "%" => g[k].ret = Append(g[k - 1].ret, Plain(t[k])) /\ g[k].skip = 0
       /\ g[k - 1].skip = 0 /\ t[k] = "%" =>
            g[k].ret = Append(g[k - 1].ret, Byte(Scanned(t, k, g[k - 1].ii))) /\ g[k].skip = 2

LEMMA Decoding ==
  ASSUME NEW C, NEW t \in Seq(C), NEW garbage
  PROVE  \E g, B : DecodeSteps(g, t, garbage, B)
<1> DEFINE n         == Len(t)
           seq       == [i \in 1..Len(t) |-> i]
           base      == [ret |-> <<>>, ii |-> garbage, skip |-> 0]
           V         == {garbage} \cup {Scanned(t, k, garbage) : k \in 1..n}
           B         == {Plain(t[k]) : k \in 1..n} \cup {Byte(v) : v \in V}
           S         == [ret : Seq(B), ii : V, skip : 0..2]
           Op(st, k) == Decoded(t, st, k)
           Sol(f)    == f = [T \in SUBSET (DOMAIN seq) |->
                               IF T = {} THEN base ELSE LET x == Max(T) IN Op(f[T \ {x}], seq[x])]
           iter      == CHOOSE f : Sol(f)
           g         == [k \in 0..n |-> iter[1..k]]
<1>1. n \in Nat /\ DOMAIN seq = 1..n /\ \A k \in 1..n : seq[k] = k
  OBVIOUS
<1>2. url_decode(t, garbage) = iter[DOMAIN seq].ret
  BY Zenon DEF url_decode, FoldLeft, MapThenFoldSet
<1> HIDE DEF n, seq
<1>3. base \in S /\ base.ret = <<>> /\ base.skip = 0
  <2>1. garbage \in V /\ <<>> \in Seq(B)
    OBVIOUS
  <2> HIDE DEF V, B
  <2> QED
    BY <2>1
<1>4. ASSUME NEW st \in S, NEW k \in 1..n
      PROVE  Plain(t[k]) \in B /\ Byte(Scanned(t, k, st.ii)) \in B /\ Scanned(t, k, st.ii) \in V
  <2>1. st.ii \in V
    <3> HIDE DEF V, B
    <3> QED
      OBVIOUS
  <2>2. Scanned(t, k, st.ii) \in V
    <3>1. Scanned(t, k, st.ii) = st.ii \/ Scanned(t, k, st.ii) = Scanned(t, k, garbage)
      BY ScannedOrKept
    <3>2. Scanned(t, k, garbage) \in V
      OBVIOUS
    <3> HIDE DEF V
    <3> QED
      BY <2>1, <3>1, <3>2
  <2> HIDE DEF V
  <2> QED
    BY <2>2
<1> HIDE DEF V, B
<1>5. ASSUME NEW st \in S, NEW k \in 1..n
      PROVE  /\ Op(st, k) \in S
             /\ st.skip > 0 => Op(st, k).ret = st.ret /\ Op(st, k).skip = st.skip - 1
             /\ st.skip = 0 /\ t[k] # "%" => Op(st, k).ret = Append(st.ret, Plain(t[k])) /\ Op(st, k).skip = 0
             /\ st.skip = 0 /\ t[k] = "%" => /\ Op(st, k).ret = Append(st.ret, Byte(Scanned(t, k, st.ii)))
                                             /\ Op(st, k).skip = 2
  <2> DEFINE next == Decoded(t, st, k)
  <2>1. next = Decoded(t, st, k)
    OBVIOUS
  <2> HIDE DEF next
  <2>2. /\ next \in S
        /\ st.skip > 0 => next.ret = st.ret /\ next.skip = st.skip - 1
        /\ st.skip = 0 /\ t[k] # "%" => next.ret = Append(st.ret, Plain(t[k])) /\ next.skip = 0
        /\ st.skip = 0 /\ t[k] = "%" => next.ret = Append(st.ret, Byte(Scanned(t, k, st.ii))) /\ next.skip = 2
    BY <1>4, <2>1, OneDecoded
  <2> QED
    BY <2>2 DEF next
<1> HIDE DEF Op, S, base
<1>6. \E f : Sol(f)
  <2> DEFINE G == [a \in S \X (1..n) |-> Op(a[1], a[2])]
  <2>1. G \in [S \X (1..n) -> S]
    BY <1>5
  <2>2. \A st \in S, k \in 1..n : G[<<st, k>>] = Op(st, k)
    OBVIOUS
  <2> HIDE DEF G
  <2>3. PICK h \in [SUBSET (1..n) -> S] : Folds(h, n, G, base)
    BY <1>1, <1>3, <2>1, FoldExists
  <2>4. ASSUME NEW T \in SUBSET (1..n), T # {}
        PROVE  G[<<h[T \ {Max(T)}], Max(T)>>] = Op(h[T \ {Max(T)}], seq[Max(T)])
    <3> DEFINE x == Max(T)
               v == h[T \ {x}]
    <3>1. x \in 1..n
      BY <1>1, <2>4, MaxOf
    <3> HIDE DEF x
    <3>2. v \in S
      BY <2>3, <3>1
    <3>3. seq[x] = x
      BY <1>1, <3>1
    <3> HIDE DEF v
    <3>4. G[<<v, x>>] = Op(v, x)
      BY <2>2, <3>1, <3>2
    <3> QED
      BY <3>3, <3>4 DEF v, x
  <2>5. Sol(h)
    BY <1>1, <2>3, <2>4 DEF Folds
  <2> QED
    BY <2>5, Zenon
<1>7. Sol(iter)
  BY <1>6, Zenon
<1> HIDE DEF iter
<1>8. g[0] = base
  <2>1. iter[{}] = base
    BY <1>7
  <2>2. 1..0 = {} /\ 0 \in 0..n
    BY <1>1
  <2> QED
    BY <2>1, <2>2
<1>9. ASSUME NEW k \in 1..n PROVE g[k] = Op(g[k - 1], k)
  <2>1. k \in 0..n /\ k - 1 \in 0..n
    BY <1>1
  <2>2. Max(1..k) = k /\ (1..k) \ {k} = 1..(k - 1) /\ 1..k # {} /\ 1..k \in SUBSET (1..n)
    BY <1>1, LastOf
  <2>3. iter[1..k] = Op(iter[(1..k) \ {k}], k)
    <3>1. iter[1..k] = IF 1..k = {} THEN base ELSE Op(iter[(1..k) \ {Max(1..k)}], seq[Max(1..k)])
      BY <1>1, <1>7, <2>2
    <3> QED
      BY <1>1, <2>2, <3>1
  <2> QED
    BY <2>1, <2>2, <2>3
<1>10. url_decode(t, garbage) = g[n].ret
  BY <1>1, <1>2
<1> HIDE DEF g
<1>11. \A k \in 0..n : g[k] \in S
  <2> DEFINE A == {k \in Nat : k \in 0..n => g[k] \in S}
  <2>1. 0 \in A
    BY <1>3, <1>8
  <2>2. ASSUME NEW k \in Nat, k \in A PROVE k + 1 \in A
    <3>1. CASE k + 1 \in 0..n
      <4>1. k \in 0..n /\ k + 1 \in 1..n /\ (k + 1) - 1 = k
        BY <1>1, <3>1
      <4>2. g[k + 1] = Op(g[k], k + 1)
        BY <1>9, <4>1
      <4> QED
        BY <1>5, <2>2, <4>1, <4>2
    <3> QED
      BY <3>1
  <2> HIDE DEF A
  <2>3. Nat \subseteq A
    BY <2>1, <2>2, Numbers
  <2> QED
    BY <1>1, <2>3 DEF A
<1>12. ASSUME NEW k \in 1..n
       PROVE  /\ g[k - 1].skip > 0 => g[k].ret = g[k - 1].ret /\ g[k].skip = g[k - 1].skip - 1
              /\ g[k - 1].skip = 0 /\ t[k] # "%" => g[k].ret = Append(g[k - 1].ret, Plain(t[k])) /\ g[k].skip = 0
              /\ g[k - 1].skip = 0 /\ t[k] = "%" =>
                   g[k].ret = Append(g[k - 1].ret, Byte(Scanned(t, k, g[k - 1].ii))) /\ g[k].skip = 2
  <2> DEFINE st == g[k - 1]
  <2>1. k - 1 \in 0..n
    BY <1>1
  <2>2. st \in S /\ g[k] = Op(st, k)
    BY <1>9, <1>11, <2>1
  <2> HIDE DEF st
  <2>3. /\ st.skip > 0 => g[k].ret = st.ret /\ g[k].skip = st.skip - 1
        /\ st.skip = 0 /\ t[k] # "%" => g[k].ret = Append(st.ret, Plain(t[k])) /\ g[k].skip = 0
        /\ st.skip = 0 /\ t[k] = "%" => g[k].ret = Append(st.ret, Byte(Scanned(t, k, st.ii))) /\ g[k].skip = 2
    BY <1>5, <2>2
  <2> QED
    BY <2>3 DEF st
<1>13. \A k \in 0..n : g[k].ret \in Seq(B) /\ g[k].skip \in 0..2
  BY <1>11 DEF S
<1>14. DecodeSteps(g, t, garbage, B)
  BY <1>3, <1>8, <1>10, <1>12, <1>13 DEF DecodeSteps, n
<1> HIDE DEF B
<1> QED
  BY <1>14

\* No character becomes more than one byte.
LEMMA NotLonger ==
  ASSUME NEW C, NEW t \in Seq(C), NEW garbage, NEW g, NEW B, DecodeSteps(g, t, garbage, B)
  PROVE  \A k \in 0..Len(t) : Len(g[k].ret) <= k
<1> DEFINE n == Len(t)
           A == {k \in Nat : k \in 0..n => Len(g[k].ret) <= k}
<1>1. n \in Nat
  OBVIOUS
<1> HIDE DEF n
<1>2. 0 \in A
  <2>1. g[0].ret = <<>> /\ Len(<<>>) = 0
    BY DEF DecodeSteps
  <2> QED
    BY <2>1
<1>3. ASSUME NEW k \in Nat, k \in A PROVE k + 1 \in A
  <2>1. ASSUME k + 1 \in 0..n PROVE Len(g[k + 1].ret) <= k + 1
    <3> DEFINE r == g[k].ret
               x == IF t[k + 1] = "%" THEN Byte(Scanned(t, k + 1, g[k].ii)) ELSE Plain(t[k + 1])
    <3>1. k \in 0..n /\ k + 1 \in 1..n /\ (k + 1) - 1 = k
      BY <1>1, <2>1
    <3>2. r \in Seq(B) /\ Len(r) <= k
      BY <1>3, <3>1 DEF DecodeSteps, n
    <3>3. g[k].skip = 0 \/ g[k].skip > 0
      <4>1. g[k].skip \in 0..2
        BY <3>1 DEF DecodeSteps, n
      <4> QED
        BY <4>1
    <3>4. g[k + 1].ret = r \/ g[k + 1].ret = Append(r, x)
      <4> DEFINE m == k + 1
      <4>1. m \in 1..n /\ m - 1 = k
        BY <3>1
      <4> HIDE DEF m
      <4>2. /\ g[m - 1].skip > 0 => g[m].ret = g[m - 1].ret
            /\ g[m - 1].skip = 0 /\ t[m] # "%" => g[m].ret = Append(g[m - 1].ret, Plain(t[m]))
            /\ g[m - 1].skip = 0 /\ t[m] = "%" => g[m].ret = Append(g[m - 1].ret, Byte(Scanned(t, m, g[m - 1].ii)))
        BY <4>1 DEF DecodeSteps, n
      <4> QED
        BY <3>3, <4>1, <4>2 DEF m
    <3> HIDE DEF r, x
    <3>5. Len(Append(r, x)) = Len(r) + 1 /\ Len(r) \in Nat
      BY <3>2
    <3> QED
      BY <3>2, <3>4, <3>5
  <2> QED
    BY <2>1
<1>4. Nat \subseteq A
  <2> HIDE DEF A
  <2> QED
    BY <1>2, <1>3, Numbers
<1> QED
  BY <1>1, <1>4 DEF n

\* The two characters behind an escape are its digits, and no escapes.
LEMMA EscapeHasDigits ==
  ASSUME NEW C, NEW t \in Seq(C), WellFormed(t), NEW k \in 1..Len(t), t[k] = "%"
  PROVE  /\ k + 2 <= Len(t) /\ t[k + 1] # "%" /\ t[k + 2] # "%"
         /\ \A ii : Scanned(t, k, ii) = 16 * HexValue(t[k + 1]) + HexValue(t[k + 2])
<1>1. k \in Escapes(t)
  BY DEF Escapes
<1>2. k + 2 <= Len(t) /\ IsHex(t[k + 1]) /\ IsHex(t[k + 2])
  BY <1>1 DEF WellFormed
<1>3. t[k + 1] # "%" /\ t[k + 2] # "%"
  BY <1>2, HexDigit
<1>4. Min({k + 2, Len(t)}) = k + 2
  <2> DEFINE m == Min({k + 2, Len(t)})
  <2>1. {k + 2, Len(t)} \in SUBSET Nat /\ {k + 2, Len(t)} # {}
    OBVIOUS
  <2>2. m \in {k + 2, Len(t)} /\ \A y \in {k + 2, Len(t)} : m <= y
    BY <2>1, Minimum DEF Min
  <2> HIDE DEF m
  <2>3. m = k + 2
    BY <1>2, <2>2
  <2> QED
    BY <2>3 DEF m
<1>5. SubSeq(t, k + 1, k + 2) = <<t[k + 1], t[k + 2]>>
  <2> DEFINE v == SubSeq(t, k + 1, k + 2)
             a == t[k + 1]
             b == t[k + 2]
             w == <<a, b>>
  <2>1. v \in Seq(C) /\ Len(v) = 2 /\ v[1] = a /\ v[2] = b /\ a \in C /\ b \in C
    BY <1>2
  <2> HIDE DEF v, a, b
  <2>2. w \in Seq(C) /\ Len(w) = 2 /\ w[1] = a /\ w[2] = b
    BY <2>1
  <2> HIDE DEF w
  <2>3. ASSUME NEW i \in 1..Len(v) PROVE v[i] = w[i]
    <3>1. i = 1 \/ i = 2
      BY <2>1
    <3> QED
      BY <2>1, <2>2, <3>1
  <2>4. v = w
    BY <2>1, <2>2, <2>3, SeqEqual
  <2> QED
    BY <2>4 DEF v, w, a, b
<1>6. ASSUME NEW ii PROVE Scanned(t, k, ii) = 16 * HexValue(t[k + 1]) + HexValue(t[k + 2])
  <2>1. Scanned(t, k, ii) = sscanf_x(<<t[k + 1], t[k + 2]>>, ii)
    BY <1>4, <1>5 DEF Scanned
  <2> QED
    BY <1>2, <2>1, TwoDigits
<1> QED
  BY <1>2, <1>3, <1>6

\* How many characters are passed over, in a parameter in which every escape
\* has its digits.
LEMMA PassedOver ==
  ASSUME NEW C, NEW t \in Seq(C), WellFormed(t), NEW garbage, NEW g, NEW B, DecodeSteps(g, t, garbage, B)
  PROVE  \A k \in 0..Len(t) :
           g[k].skip = IF k >= 1 /\ t[k] = "%" THEN 2 ELSE IF k >= 2 /\ t[k - 1] = "%" THEN 1 ELSE 0
<1> DEFINE n == Len(t)
           P(k) == g[k].skip = IF k >= 1 /\ t[k] = "%" THEN 2 ELSE IF k >= 2 /\ t[k - 1] = "%" THEN 1 ELSE 0
           A == {k \in Nat : k \in 0..n => P(k)}
<1>1. n \in Nat
  OBVIOUS
<1>2. 0 \in A
  <2>1. g[0].skip = 0
    BY DEF DecodeSteps
  <2> QED
    BY <2>1
<1>3. ASSUME NEW k \in Nat, k \in A PROVE k + 1 \in A
  <2> DEFINE m == k + 1
  <2>1. m \in Nat
    OBVIOUS
  <2>2. ASSUME m \in 0..n PROVE P(m)
    <3>1. m \in 1..n /\ m - 1 = k /\ k \in 0..n
      BY <1>1, <2>2
    <3> HIDE DEF m, n
    <3>2. /\ g[m - 1].skip > 0 => g[m].skip = g[m - 1].skip - 1
          /\ g[m - 1].skip = 0 /\ t[m] # "%" => g[m].skip = 0
          /\ g[m - 1].skip = 0 /\ t[m] = "%" => g[m].skip = 2
      BY <3>1 DEF DecodeSteps, n
    <3>3. P(k)
      BY <1>3, <3>1
    <3>4. k >= 1 /\ t[k] = "%" => t[m] # "%"
      <4>1. k >= 1 => k \in 1..n
        BY <3>1
      <4> QED
        BY <4>1, EscapeHasDigits DEF m, n
    <3>5. k >= 2 /\ t[k - 1] = "%" => t[m] # "%"
      <4>1. k >= 2 => k - 1 \in 1..n /\ (k - 1) + 2 = m
        BY <1>1, <3>1
      <4>2. \A l \in 1..n : t[l] = "%" => t[l + 2] # "%"
        BY EscapeHasDigits DEF n
      <4> QED
        BY <4>1, <4>2
    <3>6. CASE k >= 1 /\ t[k] = "%"
      <4>1. g[m].skip = 1
        BY <3>1, <3>2, <3>3, <3>6
      <4>2. m >= 2 /\ t[m - 1] = "%" /\ t[m] # "%"
        BY <3>1, <3>4, <3>6
      <4> QED
        BY <4>1, <4>2
    <3>7. CASE ~(k >= 1 /\ t[k] = "%") /\ k >= 2 /\ t[k - 1] = "%"
      <4>1. g[m].skip = 0
        BY <3>1, <3>2, <3>3, <3>7
      <4>2. t[m - 1] # "%" /\ t[m] # "%"
        BY <3>1, <3>5, <3>7
      <4> QED
        BY <4>1, <4>2
    <3>8. CASE ~(k >= 1 /\ t[k] = "%") /\ ~(k >= 2 /\ t[k - 1] = "%")
      <4>1. g[m - 1].skip = 0 /\ m >= 1 /\ ~(m >= 2 /\ t[m - 1] = "%")
        BY <3>1, <3>3, <3>8
      <4> QED
        BY <3>2, <4>1
    <3> QED
      BY <3>6, <3>7, <3>8
  <2> HIDE DEF m, P
  <2>3. m \in A
    BY <2>1, <2>2
  <2> QED
    BY <2>3 DEF m
<1>4. Nat \subseteq A
  <2> HIDE DEF A
  <2> QED
    BY <1>2, <1>3, Numbers
<1>5. \A k \in 0..n : P(k)
  <2> HIDE DEF P
  <2> QED
    BY <1>1, <1>4
<1> QED
  BY <1>5

\* A character that is kept adds its value, another one nothing.
LEMMA KeptOrNot ==
  ASSUME NEW C, NEW t \in Seq(C), WellFormed(t), NEW garbage, NEW g, NEW B, DecodeSteps(g, t, garbage, B)
  PROVE  \A k \in 1..Len(t) :
           /\ k \in Kept(t) => g[k].ret = Append(g[k - 1].ret, Meant(t, k))
           /\ k \notin Kept(t) => g[k].ret = g[k - 1].ret
<1> SUFFICES ASSUME NEW k \in 1..Len(t)
             PROVE  /\ k \in Kept(t) => g[k].ret = Append(g[k - 1].ret, Meant(t, k))
                    /\ k \notin Kept(t) => g[k].ret = g[k - 1].ret
  OBVIOUS
<1> DEFINE n == Len(t)
           l == k - 1
<1>1. n \in Nat /\ k \in 1..n /\ l \in 0..n /\ l + 1 = k
  OBVIOUS
<1>2. g[l].skip = IF l >= 1 /\ t[l] = "%" THEN 2 ELSE IF l >= 2 /\ t[l - 1] = "%" THEN 1 ELSE 0
  <2> HIDE DEF l
  <2> QED
    BY <1>1, PassedOver
<1>3. k \in Kept(t) <=> ~(l >= 1 /\ t[l] = "%") /\ ~(l >= 2 /\ t[l - 1] = "%")
  <2>1. DOMAIN t = 1..n
    OBVIOUS
  <2> HIDE DEF n, l
  <2>2. \A j : j \in Escapes(t) <=> j \in 1..n /\ t[j] = "%"
    BY <2>1 DEF Escapes
  <2>3. k \in Kept(t) <=> ~\E j \in Escapes(t) : k \in {j + 1, j + 2}
    BY <1>1, <2>1 DEF Kept
  <2>4. l >= 1 /\ t[l] = "%" => l \in Escapes(t) /\ k = l + 1
    BY <1>1, <2>2
  <2>5. l >= 2 /\ t[l - 1] = "%" => l - 1 \in Escapes(t) /\ k = (l - 1) + 2
    BY <1>1, <2>2
  <2>6. ASSUME NEW j \in Escapes(t), k \in {j + 1, j + 2} PROVE (l >= 1 /\ t[l] = "%") \/ (l >= 2 /\ t[l - 1] = "%")
    <3>1. j \in 1..n /\ t[j] = "%"
      BY <2>2
    <3>2. j = l \/ (j = l - 1 /\ l >= 2)
      BY <1>1, <2>6, <3>1
    <3> QED
      BY <3>1, <3>2
  <2> QED
    BY <2>3, <2>4, <2>5, <2>6
<1>4. /\ g[l].skip > 0 => g[k].ret = g[l].ret
      /\ g[l].skip = 0 /\ t[k] # "%" => g[k].ret = Append(g[l].ret, Plain(t[k]))
      /\ g[l].skip = 0 /\ t[k] = "%" => g[k].ret = Append(g[l].ret, Byte(Scanned(t, k, g[l].ii)))
  BY DEF DecodeSteps
<1>5. t[k] = "%" => Scanned(t, k, g[l].ii) = 16 * HexValue(t[k + 1]) + HexValue(t[k + 2])
  BY EscapeHasDigits
<1> HIDE DEF l
<1>6. CASE k \in Kept(t)
  <2>1. g[l].skip = 0
    BY <1>2, <1>3, <1>6
  <2> QED
    BY <1>4, <1>5, <1>6, <2>1 DEF Meant, l
<1>7. CASE k \notin Kept(t)
  <2>1. g[l].skip > 0
    BY <1>2, <1>3, <1>7
  <2> QED
    BY <1>4, <1>7, <2>1 DEF l
<1> QED
  BY <1>6, <1>7

LEMMA CountNone ==
  ASSUME NEW n \in Nat, NEW K \in SUBSET (1..n)
  PROVE  Cardinality(UpTo(K, 0)) = 0
<1>1. \A j \in K : ~(j <= 0)
  OBVIOUS
<1>2. UpTo(K, 0) = {}
  BY <1>1 DEF UpTo
<1> QED
  BY <1>2, FS_EmptySet

LEMMA CountMore ==
  ASSUME NEW n \in Nat, NEW K \in SUBSET (1..n), NEW k \in 1..n
  PROVE  /\ k \in K => Cardinality(UpTo(K, k)) = Cardinality(UpTo(K, k - 1)) + 1
         /\ k \notin K => Cardinality(UpTo(K, k)) = Cardinality(UpTo(K, k - 1))
<1> DEFINE a == UpTo(K, k - 1)
           b == UpTo(K, k)
<1>1. a \subseteq 1..n /\ IsFiniteSet(1..n)
  <2>1. a \subseteq K /\ K \subseteq 1..n
    BY DEF UpTo
  <2>2. IsFiniteSet(1..n)
    BY FS_Interval
  <2> HIDE DEF a
  <2> QED
    BY <2>1, <2>2
<1>2. \A j \in K : j \in 1..n /\ (j <= k <=> j <= k - 1 \/ j = k)
  OBVIOUS
<1>3. k \notin a /\ \A j : j \in b <=> j \in a \/ (j = k /\ k \in K)
  <2>1. \A j : (j \in a <=> j \in K /\ j <= k - 1) /\ (j \in b <=> j \in K /\ j <= k)
    BY DEF UpTo
  <2> HIDE DEF a, b
  <2>2. ~(k <= k - 1) /\ k <= k
    OBVIOUS
  <2> QED
    BY <1>2, <2>1, <2>2
<1> HIDE DEF a, b
<1>4. IsFiniteSet(a)
  BY <1>1, FS_Subset
<1>5. CASE k \in K
  <2>1. b = a \cup {k}
    BY <1>3, <1>5
  <2>2. Cardinality(a \cup {k}) = Cardinality(a) + 1
    BY <1>3, <1>4, FS_AddElement
  <2> QED
    BY <1>5, <2>1, <2>2 DEF a, b
<1>6. CASE k \notin K
  <2>1. b = a
    BY <1>3, <1>6
  <2> QED
    BY <1>6, <2>1 DEF a, b
<1> QED
  BY <1>5, <1>6

\* What stands in the result, and where.
LEMMA KeptInPlace ==
  ASSUME NEW C, NEW t \in Seq(C), WellFormed(t), NEW garbage, NEW g, NEW B, DecodeSteps(g, t, garbage, B)
  PROVE  \A k \in 0..Len(t) :
           /\ Len(g[k].ret) = Cardinality(UpTo(Kept(t), k))
           /\ \A i \in Kept(t) : i <= k =>
                g[k].ret[Cardinality(UpTo(Kept(t), i))] = Meant(t, i)
<1> DEFINE n    == Len(t)
           K    == Kept(t)
           c(k) == Cardinality(UpTo(K, k))
           P(k) == /\ Len(g[k].ret) = c(k)
                   /\ \A i \in K : i <= k => c(i) \in 1..c(k) /\ g[k].ret[c(i)] = Meant(t, i)
           A    == {k \in Nat : k \in 0..n => P(k)}
<1>1. n \in Nat /\ K \in SUBSET (1..n)
  BY DEF Kept
<1>2. g[0].ret = <<>> /\ \A k \in 0..n : g[k].ret \in Seq(B)
  BY DEF DecodeSteps
<1> HIDE DEF n, K
<1>3. 0 \in A
  <2>1. c(0) = 0
    BY <1>1, CountNone
  <2>2. Len(g[0].ret) = 0
    BY <1>2
  <2>3. \A i \in K : ~(i <= 0)
    BY <1>1
  <2> HIDE DEF c
  <2> QED
    BY <2>1, <2>2, <2>3
<1>4. ASSUME NEW k \in Nat, k \in A PROVE k + 1 \in A
  <2> DEFINE m == k + 1
             r == g[k].ret
  <2>1. m \in Nat
    OBVIOUS
  <2>2. ASSUME m \in 0..n PROVE P(m)
    <3>1. m \in 1..n /\ m - 1 = k /\ k \in 0..n
      BY <1>1, <2>2
    <3>2. (m \in K => c(m) = c(m - 1) + 1) /\ (m \notin K => c(m) = c(m - 1))
      <4> HIDE DEF m
      <4> QED
        BY <1>1, <3>1, CountMore
    <3>3. r \in Seq(B)
      BY <1>2, <3>1
    <3>4. (m \in K => g[m].ret = Append(r, Meant(t, m))) /\ (m \notin K => g[m].ret = r)
      <4> HIDE DEF m
      <4>1. /\ m \in K => g[m].ret = Append(g[m - 1].ret, Meant(t, m))
            /\ m \notin K => g[m].ret = g[m - 1].ret
        BY <3>1, KeptOrNot DEF n, K
      <4> QED
        BY <3>1, <4>1
    <3>5. c(m - 1) = c(k)
      BY <3>1
    <3> HIDE DEF c
    <3>6. Len(r) = c(k) /\ \A i \in K : i <= k => c(i) \in 1..c(k) /\ r[c(i)] = Meant(t, i)
      BY <1>4, <3>1
    <3>7. c(k) \in Nat
      BY <3>3, <3>6
    <3>8. \A i \in K : i <= m => i = m \/ i <= k
      BY <1>1
    <3> HIDE DEF m, r
    <3>9. CASE m \in K
      <4> DEFINE v == Meant(t, m)
                 q == Append(r, v)
      <4>1. Len(q) = Len(r) + 1 /\ q[Len(r) + 1] = v /\ \A l \in 1..Len(r) : q[l] = r[l]
        <5> HIDE DEF v
        <5> QED
          BY <3>3
      <4>2. g[m].ret = q /\ c(m) = c(k) + 1
        BY <3>2, <3>4, <3>5, <3>9
      <4> HIDE DEF q
      <4>3. Len(g[m].ret) = c(m)
        BY <3>6, <4>1, <4>2
      <4>4. ASSUME NEW i \in K, i <= m PROVE c(i) \in 1..c(m) /\ g[m].ret[c(i)] = Meant(t, i)
        <5>1. CASE i = m
          BY <3>6, <3>7, <4>1, <4>2, <5>1
        <5>2. CASE i <= k
          <6>1. c(i) \in 1..c(k) /\ r[c(i)] = Meant(t, i)
            BY <3>6, <5>2
          <6>2. c(i) \in 1..Len(r) /\ c(i) \in 1..c(m)
            BY <3>6, <3>7, <4>2, <6>1
          <6> QED
            BY <4>1, <4>2, <6>1, <6>2
        <5> QED
          BY <3>8, <4>4, <5>1, <5>2
      <4> QED
        BY <4>3, <4>4
    <3>10. CASE m \notin K
      <4>1. g[m].ret = r /\ c(m) = c(k)
        BY <3>2, <3>4, <3>5, <3>7, <3>10
      <4>2. \A i \in K : i <= m => i <= k
        BY <3>8, <3>10
      <4> QED
        BY <3>6, <4>1, <4>2
    <3> QED
      BY <3>9, <3>10
  <2> HIDE DEF m, P
  <2>3. m \in A
    BY <2>1, <2>2
  <2> QED
    BY <2>3 DEF m
<1>5. Nat \subseteq A
  <2> HIDE DEF A
  <2> QED
    BY <1>3, <1>4, Numbers
<1>6. \A k \in 0..n : P(k)
  <2> HIDE DEF P
  <2> QED
    BY <1>1, <1>5
<1> QED
  BY <1>6 DEF n, K

(* Whatever parameter comes: it is decoded to no more bytes than it has    *)
(* characters; and if every escape in it has its two digits, to a byte for *)
(* each escape and for each character outside the escapes, in their order, *)
(* whatever stood in the variable that the number is scanned into.         *)
THEOREM EveryExtRead ==
  ASSUME NEW Char, NEW t \in Seq(Char)
  PROVE  ExtRead(t)
<1> SUFFICES ASSUME NEW garbage
             PROVE  /\ Len(url_decode(t, garbage)) <= Len(t)
                    /\ WellFormed(t) =>
                         /\ Len(url_decode(t, garbage)) = Cardinality(Kept(t))
                         /\ \A i \in Kept(t) :
                              url_decode(t, garbage)[Cardinality(UpTo(Kept(t), i))] = Meant(t, i)
  BY DEF ExtRead
<1>1. PICK g, B : DecodeSteps(g, t, garbage, B)
  BY Decoding
<1>2. url_decode(t, garbage) = g[Len(t)].ret /\ Len(t) \in 0..Len(t)
  BY <1>1 DEF DecodeSteps
<1>3. Len(url_decode(t, garbage)) <= Len(t)
  BY <1>1, <1>2, NotLonger
<1>4. ASSUME WellFormed(t)
      PROVE  /\ Len(url_decode(t, garbage)) = Cardinality(Kept(t))
             /\ \A i \in Kept(t) :
                  url_decode(t, garbage)[Cardinality(UpTo(Kept(t), i))] = Meant(t, i)
  <2>1. UpTo(Kept(t), Len(t)) = Kept(t) /\ \A i \in Kept(t) : i <= Len(t)
    <3>1. \A i \in Kept(t) : i <= Len(t)
      BY DEF Kept
    <3> QED
      BY <3>1 DEF UpTo
  <2>2. /\ Len(g[Len(t)].ret) = Cardinality(UpTo(Kept(t), Len(t)))
        /\ \A i \in Kept(t) : i <= Len(t) =>
             g[Len(t)].ret[Cardinality(UpTo(Kept(t), i))] = Meant(t, i)
    BY <1>1, <1>2, <1>4, KeptInPlace
  <2> QED
    BY <1>2, <2>1, <2>2
<1> QED
  BY <1>3, <1>4

-----------------------------------------------------------------------------
(* Decimal digits                                                          *)

\* The characters of the texts that stand for numbers and times.
Figures == {Digits[k] : k \in 1..10}
Signs   == {" ", "T", "-", ":", "."}
Glyphs  == Figures \cup Signs

LEMMA DigitsAre ==
  /\ DOMAIN Digits = 1..10
  /\ Digits[1] = "0" /\ Digits[2] = "1" /\ Digits[3] = "2" /\ Digits[4] = "3" /\ Digits[5] = "4"
  /\ Digits[6] = "5" /\ Digits[7] = "6" /\ Digits[8] = "7" /\ Digits[9] = "8" /\ Digits[10] = "9"
BY DEF Digits

LEMMA DigitOf ==
  ASSUME NEW k \in 0..9
  PROVE  Digits[k + 1] \in Figures /\ Value(Digits[k + 1]) = k
<1> DEFINE d == Digits[k + 1]
<1>1. k + 1 \in 1..10 /\ d \in Figures
  BY DEF Figures
<1>2. \A i, j \in 1..10 : Digits[i] = Digits[j] => i = j
  BY DigitsAre
<1>3. (CHOOSE i \in 1..10 : Digits[i] = d) = k + 1
  BY <1>1, <1>2
<1>4. Value(d) = (k + 1) - 1
  BY <1>3 DEF Value
<1> QED
  BY <1>1, <1>4

LEMMA FigureIs ==
  ASSUME NEW ch \in Figures
  PROVE  IsDigit(ch) /\ Value(ch) \in 0..9 /\ ch \notin Signs /\ ch # "+"
<1>1. PICK j \in 1..10 : ch = Digits[j]
  BY DEF Figures
<1> DEFINE k == j - 1
<1>2. k \in 0..9 /\ k + 1 = j
  OBVIOUS
<1>3. Value(ch) = k
  <2> HIDE DEF k
  <2> QED
    BY <1>1, <1>2, DigitOf
<1>4. ch \notin Signs /\ ch # "+"
  <2>1. j = 1 \/ j = 2 \/ j = 3 \/ j = 4 \/ j = 5 \/ j = 6 \/ j = 7 \/ j = 8 \/ j = 9 \/ j = 10
    OBVIOUS
  <2> QED
    BY <1>1, <2>1, DigitsAre DEF Signs
<1> QED
  BY <1>1, <1>2, <1>3, <1>4 DEF IsDigit

LEMMA SignIs ==
  ASSUME NEW ch \in Signs \cup {"+"}
  PROVE  ~IsDigit(ch)
<1>1. SUFFICES ASSUME NEW d \in 1..10, Digits[d] = ch PROVE FALSE
  BY DEF IsDigit
<1>2. ch \in Figures
  BY <1>1 DEF Figures
<1> QED
  BY <1>2, FigureIs

\* The last digit of a number and the ones before.
LEMMA LastDigit ==
  ASSUME NEW n \in Nat
  PROVE  /\ n % 10 \in 0..9 /\ n \div 10 \in Nat /\ n = 10 * (n \div 10) + (n % 10)
         /\ n >= 10 => n \div 10 < n /\ n \div 10 >= 1
OBVIOUS

(* Decimal is its recursion.                                               *)
DecimalStep(d, k) ==
  d[k] = IF k < 10 THEN <<Digits[k + 1]>> ELSE Append(d[k \div 10], Digits[(k % 10) + 1])

LEMMA DecimalSteps ==
  \E d : \A k \in Nat : Decimal(k) = d[k] /\ DecimalStep(d, k)
<1> DEFINE Op(f, k) == IF k < 10 THEN <<Digits[k + 1]>> ELSE Append(f[k \div 10], Digits[(k % 10) + 1])
           Sol(f, n) == f = [k \in 0..n |-> Op(f, k)]
           A == {n \in Nat : \E f : Sol(f, n)}
           Whole(f) == f = [k \in Nat |-> Op(f, k)]
           dec == CHOOSE f : Whole(f)
<1>1. \A n : Decimal(n) = dec[n]
  BY Zenon DEF Decimal
<1>2. \A k \in Nat : \A f, g : (k >= 10 => f[k \div 10] = g[k \div 10]) => Op(f, k) = Op(g, k)
  <2> SUFFICES ASSUME NEW k \in Nat, NEW f, NEW g, k >= 10 => f[k \div 10] = g[k \div 10]
               PROVE  Op(f, k) = Op(g, k)
    <3> HIDE DEF Op
    <3> QED
      OBVIOUS
  <2>1. CASE k < 10
    BY <2>1
  <2>2. CASE ~(k < 10)
    BY <2>2
  <2> QED
    BY <2>1, <2>2
<1>3. \A f, k : Op(f, k) = f[k] => DecimalStep(f, k)
  BY DEF DecimalStep
<1> HIDE DEF Op
<1>4. 0 \in A
  <2> DEFINE f == [k \in 0..0 |-> Op(0, k)]
  <2>1. \A k \in 0..0 : Op(f, k) = Op(0, k)
    <3> HIDE DEF f
    <3> QED
      BY <1>2
  <2>2. f = [k \in 0..0 |-> Op(f, k)]
    BY <2>1
  <2> HIDE DEF f
  <2> QED
    BY <2>2
<1>5. ASSUME NEW n \in Nat, n \in A PROVE n + 1 \in A
  <2>1. PICK f : Sol(f, n)
    BY <1>5
  <2> DEFINE m == n + 1
             h == [k \in 0..m |-> IF k = m THEN Op(f, m) ELSE f[k]]
  <2>2. ASSUME NEW k \in 0..m PROVE h[k] = Op(h, k)
    <3>1. k \in Nat /\ (k >= 10 => k \div 10 \in 0..n)
      OBVIOUS
    <3>2. k >= 10 => h[k \div 10] = f[k \div 10]
      BY <3>1
    <3>3. Op(h, k) = Op(f, k)
      <4> HIDE DEF h, m
      <4> QED
        BY <1>2, <3>1, <3>2
    <3>4. CASE k = m
      BY <3>3, <3>4
    <3>5. CASE k # m
      <4>1. k \in 0..n
        BY <3>5
      <4>2. f[k] = Op(f, k)
        BY <2>1, <4>1
      <4>3. h[k] = f[k]
        BY <3>5
      <4> QED
        BY <3>3, <4>2, <4>3
    <3> QED
      BY <3>4, <3>5
  <2>3. h = [k \in 0..m |-> h[k]]
    OBVIOUS
  <2> HIDE DEF h
  <2>4. Sol(h, n + 1)
    BY <2>2, <2>3
  <2> HIDE DEF Sol
  <2> QED
    BY <2>4
<1>6. \A n \in Nat : \E f : Sol(f, n)
  <2> HIDE DEF A
  <2>1. Nat \subseteq A
    BY <1>4, <1>5, Numbers
  <2> QED
    BY <2>1 DEF A
<1>7. ASSUME NEW f, NEW g, NEW n \in Nat, NEW m \in Nat, Sol(f, n), Sol(g, m), NEW k \in Nat, k <= n, k <= m
      PROVE  f[k] = g[k]
  <2> DEFINE B == {i \in Nat : i <= n /\ i <= m /\ f[i] # g[i]}
  <2>1. SUFFICES ASSUME B # {} PROVE FALSE
    <3>1. f[k] # g[k] => k \in B
      BY <1>7
    <3> HIDE DEF B
    <3> QED
      BY <3>1
  <2>2. B \in SUBSET Nat
    OBVIOUS
  <2>3. PICK i \in B : \A j \in B : i <= j
    <3> HIDE DEF B
    <3> QED
      BY <2>1, <2>2, LeastElement
  <2>4. i \in Nat /\ i <= n /\ i <= m /\ i \in 0..n /\ i \in 0..m
    OBVIOUS
  <2> HIDE DEF B
  <2>5. f[i] = Op(f, i) /\ g[i] = Op(g, i)
    BY <1>7, <2>4
  <2>6. i >= 10 => f[i \div 10] = g[i \div 10]
    <3> SUFFICES ASSUME i >= 10 PROVE f[i \div 10] = g[i \div 10]
      OBVIOUS
    <3>1. i \div 10 \in Nat /\ i \div 10 < i
      BY <2>4, LastDigit
    <3>2. i \div 10 <= n /\ i \div 10 <= m /\ ~(i <= i \div 10)
      BY <2>4, <3>1
    <3>3. i \div 10 \notin B
      BY <2>3, <3>2
    <3> QED
      BY <3>1, <3>2, <3>3 DEF B
  <2>7. f[i] = g[i]
    BY <1>2, <2>4, <2>5, <2>6
  <2> QED
    BY <2>7 DEF B
<1>8. \E f : Whole(f)
  <2> DEFINE own(n) == CHOOSE f : Sol(f, n)
             d == [k \in Nat |-> own(k)[k]]
  <2>1. \A n \in Nat : Sol(own(n), n)
    BY <1>6, Zenon
  <2>2. ASSUME NEW k \in Nat PROVE d[k] = Op(d, k)
    <3> DEFINE e == own(k)
    <3>1. Sol(e, k)
      BY <2>1
    <3> HIDE DEF e
    <3>2. d[k] = e[k] /\ e[k] = Op(e, k)
      <4>1. k \in 0..k
        OBVIOUS
      <4>2. e[k] = Op(e, k)
        BY <3>1, <4>1
      <4> QED
        BY <4>2 DEF e
    <3>3. k >= 10 => e[k \div 10] = d[k \div 10]
      <4> SUFFICES ASSUME k >= 10 PROVE e[k \div 10] = d[k \div 10]
        OBVIOUS
      <4> DEFINE q == k \div 10
                 o == own(q)
      <4>1. q \in Nat /\ q <= k /\ q <= q
        BY LastDigit
      <4>2. d[q] = o[q]
        BY <4>1
      <4> HIDE DEF q
      <4>3. Sol(o, q)
        BY <2>1, <4>1
      <4> HIDE DEF o, Sol, d
      <4> QED
        BY <1>7, <3>1, <4>1, <4>2, <4>3 DEF q
    <3> HIDE DEF d
    <3> QED
      BY <1>2, <3>2, <3>3
  <2>3. d = [k \in Nat |-> d[k]]
    OBVIOUS
  <2> HIDE DEF d
  <2>4. Whole(d)
    BY <2>2, <2>3
  <2> QED
    BY <2>4
<1>9. Whole(dec)
  BY <1>8, Zenon
<1> HIDE DEF dec
<1>10. \A k \in Nat : Op(dec, k) = dec[k]
  BY <1>9
<1> QED
  BY <1>1, <1>10, <1>3

LEMMA DecimalIs ==
  ASSUME NEW n \in Nat
  PROVE  Decimal(n) = IF n < 10 THEN <<Digits[n + 1]>> ELSE Append(Decimal(n \div 10), Digits[(n % 10) + 1])
<1>1. PICK d : \A k \in Nat : Decimal(k) = d[k] /\ DecimalStep(d, k)
  BY DecimalSteps
<1>2. n \div 10 \in Nat
  BY LastDigit
<1> QED
  BY <1>1, <1>2 DEF DecimalStep

\* A set has all numbers if it has each whose predecessors it has.
LEMMA AllNumbers ==
  ASSUME NEW A, \A n \in Nat : (\A k \in Nat : k < n => k \in A) => n \in A
  PROVE  Nat \subseteq A
<1> DEFINE B == Nat \ A
<1>1. SUFFICES ASSUME B # {} PROVE FALSE
  OBVIOUS
<1>2. B \in SUBSET Nat
  OBVIOUS
<1>3. PICK n \in B : \A m \in B : n <= m
  <2> HIDE DEF B
  <2> QED
    BY <1>1, <1>2, LeastElement
<1>4. ASSUME NEW k \in Nat, k < n PROVE k \in A
  <2>1. ~(n <= k)
    BY <1>2, <1>4
  <2>2. k \notin B
    <3> HIDE DEF B
    <3> QED
      BY <1>3, <2>1
  <2> QED
    BY <2>2
<1> QED
  BY <1>4

LEMMA DecimalFigures ==
  ASSUME NEW n \in Nat
  PROVE  Decimal(n) \in Seq(Figures) /\ Len(Decimal(n)) >= 1
<1> DEFINE P(k) == Decimal(k) \in Seq(Figures) /\ Len(Decimal(k)) >= 1
           A == {k \in Nat : P(k)}
<1>1. ASSUME NEW k \in Nat, \A j \in Nat : j < k => j \in A PROVE k \in A
  <2> DEFINE q == k \div 10
             r == k % 10
  <2>1. r \in 0..9 /\ q \in Nat /\ (k >= 10 => q < k)
    BY LastDigit
  <2>2. Decimal(k) = IF k < 10 THEN <<Digits[k + 1]>> ELSE Append(Decimal(q), Digits[r + 1])
    BY DecimalIs
  <2> HIDE DEF q, r
  <2>3. CASE k < 10
    <3>1. k \in 0..9
      BY <2>3
    <3>2. Digits[k + 1] \in Figures
      BY <3>1, DigitOf
    <3>3. Decimal(k) = <<Digits[k + 1]>>
      BY <2>2, <2>3
    <3>4. P(k)
      BY <3>2, <3>3
    <3> QED
      BY <3>4
  <2>4. CASE ~(k < 10)
    <3>1. Digits[r + 1] \in Figures
      BY <2>1, DigitOf
    <3>2. P(q)
      BY <1>1, <2>1, <2>4
    <3>3. Decimal(k) = Append(Decimal(q), Digits[r + 1])
      BY <2>2, <2>4
    <3>4. P(k)
      BY <3>1, <3>2, <3>3
    <3> QED
      BY <3>4
  <2> QED
    BY <2>3, <2>4
<1>2. n \in A
  <2> HIDE DEF A
  <2> QED
    BY <1>1, AllNumbers
<1> QED
  BY <1>2

\* Number as a recursion: g[k] is what the first k digits say.
NumberSolved(g, t) ==
  /\ g \in [0..Len(t) -> Nat] /\ g[0] = 0
  /\ \A k \in 1..Len(t) : g[k] = 10 * g[k - 1] + Value(t[k])
  /\ Number(t) = g[Len(t)]

LEMMA NumberExists ==
  ASSUME NEW t \in Seq(Figures)
  PROVE  \E g : NumberSolved(g, t)
<1> DEFINE n        == Len(t)
           Op(x, ch) == 10 * x + Value(ch)
           Sol(f)   == f = [T \in SUBSET (DOMAIN t) |->
                              IF T = {} THEN 0 ELSE LET x == Max(T) IN Op(f[T \ {x}], t[x])]
           iter     == CHOOSE f : Sol(f)
           g        == [k \in 0..n |-> iter[1..k]]
<1>1. Number(t) = iter[DOMAIN t]
  BY Zenon DEF Number, FoldLeft, MapThenFoldSet
<1>2. DOMAIN t = 1..n /\ n \in Nat /\ \A k \in 1..n : t[k] \in Figures
  <2> HIDE DEF Sol
  <2> QED
    OBVIOUS
<1> HIDE DEF n
<1>3. \A x \in Nat, k \in 1..n : Op(x, t[k]) \in Nat
  <2> SUFFICES ASSUME NEW x \in Nat, NEW k \in 1..n PROVE 10 * x + Value(t[k]) \in Nat
    OBVIOUS
  <2>1. Value(t[k]) \in 0..9
    BY <1>2, FigureIs
  <2> QED
    BY <2>1
<1>4. \A x, ch : Op(x, ch) = 10 * x + Value(ch)
  OBVIOUS
<1> HIDE DEF Op
<1>5. \E f : Sol(f)
  <2> DEFINE G == [p \in Nat \X (1..n) |-> Op(p[1], t[p[2]])]
  <2>1. G \in [Nat \X (1..n) -> Nat]
    BY <1>3
  <2>2. \A x \in Nat, k \in 1..n : G[<<x, k>>] = Op(x, t[k])
    OBVIOUS
  <2> HIDE DEF G
  <2>3. PICK h \in [SUBSET (1..n) -> Nat] : Folds(h, n, G, 0)
    <3> HIDE DEF Sol
    <3>1. 0 \in Nat
      OBVIOUS
    <3> QED
      BY <1>2, <2>1, <3>1, FoldExists
  <2>4. ASSUME NEW T \in SUBSET (1..n), T # {} PROVE G[<<h[T \ {Max(T)}], Max(T)>>] = Op(h[T \ {Max(T)}], t[Max(T)])
    <3> DEFINE x == Max(T)
               y == h[T \ {x}]
    <3>1. x \in 1..n
      BY <1>2, <2>4, MaxOf
    <3> HIDE DEF x
    <3>2. y \in Nat
      BY <2>3, <3>1
    <3> HIDE DEF y
    <3>3. G[<<y, x>>] = Op(y, t[x])
      BY <2>2, <3>1, <3>2
    <3> QED
      BY <3>3 DEF y, x
  <2>5. Sol(h)
    BY <1>2, <2>3, <2>4 DEF Folds
  <2> QED
    BY <2>5, Zenon
<1>6. Sol(iter)
  BY <1>5, Zenon
<1> HIDE DEF iter
<1>7. g[0] = 0
  <2>1. 1..0 = {} /\ {} \in SUBSET (1..n) /\ 0 \in 0..n
    BY <1>2
  <2>2. iter[{}] = 0
    BY <1>2, <1>6, <2>1
  <2> QED
    BY <2>1, <2>2
<1>8. ASSUME NEW k \in 1..n PROVE g[k] = Op(g[k - 1], t[k])
  <2>1. Max(1..k) = k /\ (1..k) \ {k} = 1..(k - 1) /\ 1..k # {} /\ 1..k \in SUBSET (1..n)
    BY <1>2, LastOf
  <2>2. iter[1..k] = IF 1..k = {} THEN 0 ELSE Op(iter[(1..k) \ {Max(1..k)}], t[Max(1..k)])
    BY <1>2, <1>6, <2>1
  <2>3. iter[1..k] = Op(iter[1..(k - 1)], t[k])
    BY <2>1, <2>2
  <2>4. k \in 0..n /\ k - 1 \in 0..n
    BY <1>2
  <2>5. g[k] = iter[1..k] /\ g[k - 1] = iter[1..(k - 1)]
    BY <2>4
  <2> HIDE DEF g
  <2> QED
    BY <2>3, <2>5
<1>9. DOMAIN g = 0..n /\ g = [k \in 0..n |-> g[k]]
  OBVIOUS
<1>10. g[n] = iter[1..n]
  BY <1>2
<1> HIDE DEF g
<1>11. \A k \in 0..n : g[k] \in Nat
  <2> DEFINE A == {k \in Nat : k <= n => g[k] \in Nat}
  <2>1. 0 \in A
    BY <1>7
  <2>2. ASSUME NEW k \in Nat, k \in A PROVE k + 1 \in A
    <3> SUFFICES ASSUME k + 1 <= n PROVE g[k + 1] \in Nat
      OBVIOUS
    <3>1. k + 1 \in 1..n /\ (k + 1) - 1 = k /\ k <= n
      BY <1>2
    <3>2. g[k] \in Nat
      BY <2>2, <3>1
    <3>3. g[k + 1] = Op(g[k], t[k + 1])
      BY <1>8, <3>1
    <3> QED
      BY <1>3, <3>1, <3>2, <3>3
  <2> HIDE DEF A
  <2>3. Nat \subseteq A
    BY <2>1, <2>2, Numbers
  <2> QED
    BY <1>2, <2>3 DEF A
<1>12. NumberSolved(g, t)
  <2>1. g \in [0..n -> Nat]
    BY <1>9, <1>11
  <2> QED
    BY <1>1, <1>2, <1>7, <1>8, <1>10, <1>4, <2>1 DEF NumberSolved, n
<1> QED
  BY <1>12

LEMMA NumberMore ==
  ASSUME NEW t \in Seq(Figures), NEW ch \in Figures
  PROVE  Number(Append(t, ch)) = 10 * Number(t) + Value(ch) /\ Number(t) \in Nat
<1> DEFINE n == Len(t)
           u == Append(t, ch)
<1>1. n \in Nat /\ u \in Seq(Figures) /\ Len(u) = n + 1 /\ u[n + 1] = ch /\ \A k \in 1..n : u[k] = t[k]
  OBVIOUS
<1> HIDE DEF n, u
<1>2. PICK g : NumberSolved(g, t)
  BY NumberExists
<1>3. PICK h : NumberSolved(h, u)
  BY <1>1, NumberExists
<1>4. /\ g[0] = 0 /\ \A k \in 1..n : g[k] = 10 * g[k - 1] + Value(t[k])
      /\ Number(t) = g[n] /\ g[n] \in Nat
  <2>1. n \in 0..n
    BY <1>1
  <2> QED
    BY <1>2, <2>1 DEF NumberSolved, n
<1>5. /\ h[0] = 0 /\ \A k \in 1..(n + 1) : h[k] = 10 * h[k - 1] + Value(u[k])
      /\ Number(u) = h[n + 1]
  BY <1>1, <1>3 DEF NumberSolved
<1>6. h[n] = g[n]
  <2> DEFINE A == {k \in Nat : k <= n => h[k] = g[k]}
  <2>1. 0 \in A
    BY <1>4, <1>5
  <2>2. ASSUME NEW k \in Nat, k \in A PROVE k + 1 \in A
    <3> SUFFICES ASSUME k + 1 <= n PROVE h[k + 1] = g[k + 1]
      OBVIOUS
    <3>1. k + 1 \in 1..n /\ k + 1 \in 1..(n + 1) /\ (k + 1) - 1 = k /\ k <= n
      BY <1>1
    <3>2. h[k] = g[k]
      BY <2>2, <3>1
    <3>3. u[k + 1] = t[k + 1]
      BY <1>1, <3>1
    <3> QED
      BY <1>4, <1>5, <3>1, <3>2, <3>3
  <2> HIDE DEF A
  <2>3. Nat \subseteq A
    BY <2>1, <2>2, Numbers
  <2> QED
    BY <1>1, <2>3 DEF A
<1>7. n + 1 \in 1..(n + 1) /\ (n + 1) - 1 = n
  BY <1>1
<1>8. h[n + 1] = 10 * h[n] + Value(u[n + 1])
  BY <1>5, <1>7
<1> QED
  BY <1>1, <1>4, <1>5, <1>6, <1>8 DEF u

\* Zeros in front do not count.
LEMMA LeadingZeros ==
  ASSUME NEW t \in Seq(Figures), NEW z \in Seq(Figures), \A i \in 1..Len(z) : z[i] = "0"
  PROVE  Number(z \o t) = Number(t)
<1> DEFINE n == Len(t)
           m == Len(z)
           u == z \o t
<1>1. /\ n \in Nat /\ m \in Nat /\ u \in Seq(Figures) /\ Len(u) = m + n
      /\ (\A k \in 1..m : u[k] = z[k]) /\ \A k \in 1..n : u[m + k] = t[k]
  OBVIOUS
<1>2. \A k \in 1..m : u[k] = "0"
  BY <1>1
<1> HIDE DEF n, m, u
<1>3. PICK g : NumberSolved(g, t)
  BY NumberExists
<1>4. PICK h : NumberSolved(h, u)
  BY <1>1, NumberExists
<1>5. g[0] = 0 /\ (\A k \in 1..n : g[k] = 10 * g[k - 1] + Value(t[k])) /\ Number(t) = g[n]
  BY <1>3 DEF NumberSolved, n
<1>6. /\ h[0] = 0 /\ \A k \in 1..(m + n) : h[k] = 10 * h[k - 1] + Value(u[k])
      /\ Number(u) = h[m + n]
  BY <1>1, <1>4 DEF NumberSolved
<1>7. Value("0") = 0
  <2>1. 0 \in 0..9 /\ Digits[0 + 1] = "0"
    BY DigitsAre
  <2> QED
    BY <2>1, DigitOf
<1>8. h[m] = 0
  <2> DEFINE A == {k \in Nat : k <= m => h[k] = 0}
  <2>1. 0 \in A
    BY <1>6
  <2>2. ASSUME NEW k \in Nat, k \in A PROVE k + 1 \in A
    <3> SUFFICES ASSUME k + 1 <= m PROVE h[k + 1] = 0
      OBVIOUS
    <3>1. k + 1 \in 1..m /\ k + 1 \in 1..(m + n) /\ (k + 1) - 1 = k /\ k <= m
      BY <1>1
    <3>2. h[k] = 0
      BY <2>2, <3>1
    <3>3. u[k + 1] = "0"
      BY <1>2, <3>1
    <3>4. h[k + 1] = 10 * h[k] + Value(u[k + 1])
      BY <1>6, <3>1
    <3> QED
      BY <1>7, <3>2, <3>3, <3>4
  <2> HIDE DEF A
  <2>3. Nat \subseteq A
    BY <2>1, <2>2, Numbers
  <2> QED
    BY <1>1, <2>3 DEF A
<1>9. h[m + n] = g[n]
  <2> DEFINE A == {k \in Nat : k <= n => h[m + k] = g[k]}
  <2>1. 0 \in A
    <3>1. m + 0 = m
      BY <1>1
    <3> QED
      BY <1>5, <1>8, <3>1
  <2>2. ASSUME NEW k \in Nat, k \in A PROVE k + 1 \in A
    <3> SUFFICES ASSUME k + 1 <= n PROVE h[m + (k + 1)] = g[k + 1]
      OBVIOUS
    <3>1. /\ k + 1 \in 1..n /\ (k + 1) - 1 = k /\ k <= n
          /\ m + (k + 1) \in 1..(m + n) /\ (m + (k + 1)) - 1 = m + k
      BY <1>1
    <3>2. h[m + k] = g[k]
      BY <2>2, <3>1
    <3>3. u[m + (k + 1)] = t[k + 1]
      BY <1>1, <3>1
    <3> QED
      BY <1>5, <1>6, <3>1, <3>2, <3>3
  <2> HIDE DEF A
  <2>3. Nat \subseteq A
    BY <2>1, <2>2, Numbers
  <2> QED
    BY <1>1, <2>3 DEF A
<1> QED
  BY <1>5, <1>6, <1>9 DEF u

\* A number is read from its digits.
LEMMA NumberOfDecimal ==
  ASSUME NEW n \in Nat
  PROVE  Number(Decimal(n)) = n
<1> DEFINE P(k) == Number(Decimal(k)) = k
           A == {k \in Nat : P(k)}
<1>1. ASSUME NEW k \in Nat, \A j \in Nat : j < k => j \in A PROVE k \in A
  <2> DEFINE q == k \div 10
             r == k % 10
  <2>1. r \in 0..9 /\ q \in Nat /\ (k >= 10 => q < k) /\ k = 10 * q + r
    BY LastDigit
  <2>2. Decimal(k) = IF k < 10 THEN <<Digits[k + 1]>> ELSE Append(Decimal(q), Digits[r + 1])
    BY DecimalIs
  <2> HIDE DEF q, r
  <2>3. CASE k < 10
    <3> DEFINE ch == Digits[k + 1]
               none == SubSeq(Decimal(0), 1, 0)
    <3>1. k \in 0..9
      BY <2>3
    <3>2. ch \in Figures /\ Value(ch) = k
      BY <3>1, DigitOf
    <3>3. Decimal(k) = <<ch>>
      BY <2>2, <2>3
    <3>4. <<>> \in Seq(Figures) /\ Append(<<>>, ch) = <<ch>>
      OBVIOUS
    <3>5. Number(<<>>) = 0
      <4>1. PICK g : NumberSolved(g, <<>>)
        BY <3>4, NumberExists
      <4>2. Len(<<>>) = 0
        OBVIOUS
      <4> QED
        BY <4>1, <4>2 DEF NumberSolved
    <3> HIDE DEF ch
    <3>6. Number(Append(<<>>, ch)) = 10 * Number(<<>>) + Value(ch)
      BY <3>2, <3>4, NumberMore
    <3>7. P(k)
      BY <3>2, <3>3, <3>4, <3>5, <3>6
    <3> QED
      BY <3>7
  <2>4. CASE ~(k < 10)
    <3> DEFINE ch == Digits[r + 1]
               t  == Decimal(q)
    <3>1. ch \in Figures /\ Value(ch) = r
      BY <2>1, DigitOf
    <3>2. t \in Seq(Figures)
      BY <2>1, DecimalFigures
    <3>3. Number(t) = q
      BY <1>1, <2>1, <2>4
    <3>4. Decimal(k) = Append(t, ch)
      BY <2>2, <2>4
    <3> HIDE DEF ch, t
    <3>5. Number(Append(t, ch)) = 10 * Number(t) + Value(ch)
      BY <3>1, <3>2, NumberMore
    <3>6. P(k)
      BY <2>1, <3>1, <3>3, <3>4, <3>5
    <3> QED
      BY <3>6
  <2> QED
    BY <2>3, <2>4
<1>2. n \in A
  <2> HIDE DEF A
  <2> QED
    BY <1>1, AllNumbers
<1> QED
  BY <1>2

\* The number of digits.
LEMMA DecimalLength ==
  ASSUME NEW n \in Nat
  PROVE  /\ n < 10 => Len(Decimal(n)) = 1
         /\ n < 100 => Len(Decimal(n)) <= 2
         /\ n < 1000 => Len(Decimal(n)) <= 3
         /\ n < 10000 => Len(Decimal(n)) <= 4
         /\ n < 100000 => Len(Decimal(n)) <= 5
         /\ n < 1000000 => Len(Decimal(n)) <= 6
<1> DEFINE L(k) == Len(Decimal(k))
<1>1. ASSUME NEW k \in Nat
      PROVE  /\ k \div 10 \in Nat /\ L(k) \in Nat /\ (k < 10 => L(k) = 1)
             /\ (k >= 10 => L(k) = L(k \div 10) + 1)
  <2> DEFINE q == k \div 10
             t == Decimal(q)
             r == k % 10
             ch == Digits[r + 1]
  <2>1. q \in Nat
    BY LastDigit
  <2>2. t \in Seq(Figures)
    BY <2>1, DecimalFigures
  <2>3. Decimal(k) = IF k < 10 THEN <<Digits[k + 1]>> ELSE Append(t, ch)
    BY DecimalIs
  <2>4. Decimal(k) \in Seq(Figures)
    BY DecimalFigures
  <2> HIDE DEF t, ch
  <2>5. Len(Append(t, ch)) = Len(t) + 1 /\ Len(<<Digits[k + 1]>>) = 1
    BY <2>2
  <2> QED
    BY <2>1, <2>3, <2>4, <2>5 DEF t
<1> HIDE DEF L
<1>2. ASSUME NEW k \in Nat
      PROVE  /\ k < 100 => k \div 10 < 10
             /\ k < 1000 => k \div 10 < 100
             /\ k < 10000 => k \div 10 < 1000
             /\ k < 100000 => k \div 10 < 10000
             /\ k < 1000000 => k \div 10 < 100000
  OBVIOUS
<1>3. \A k \in Nat : k < 100 => L(k) <= 2
  BY <1>1, <1>2
<1>4. \A k \in Nat : k < 1000 => L(k) <= 3
  BY <1>1, <1>3, <1>2
<1>5. \A k \in Nat : k < 10000 => L(k) <= 4
  BY <1>1, <1>4, <1>2
<1>6. \A k \in Nat : k < 100000 => L(k) <= 5
  BY <1>1, <1>5, <1>2
<1>7. \A k \in Nat : k < 1000000 => L(k) <= 6
  BY <1>1, <1>6, <1>2
<1>8. /\ n < 10 => L(n) = 1
      /\ n < 100 => L(n) <= 2
      /\ n < 1000 => L(n) <= 3
      /\ n < 10000 => L(n) <= 4
      /\ n < 100000 => L(n) <= 5
      /\ n < 1000000 => L(n) <= 6
  BY <1>1, <1>3, <1>4, <1>5, <1>6, <1>7
<1>9. L(n) = Len(Decimal(n))
  BY DEF L
<1> QED
  BY <1>8, <1>9

\* A number with zeros in front.
LEMMA PaddedIs ==
  ASSUME NEW n \in Nat, NEW width \in Nat
  PROVE  /\ Padded(n, width) \in Seq(Figures) /\ Len(Padded(n, width)) >= 1
         /\ Len(Decimal(n)) <= width => Len(Padded(n, width)) = width
         /\ Number(Padded(n, width)) = n
<1> DEFINE t == Decimal(n)
           m == width - Len(t)
           z == [i \in 1..m |-> "0"]
<1>1. t \in Seq(Figures) /\ Len(t) >= 1 /\ Number(t) = n
  BY DecimalFigures, NumberOfDecimal
<1>2. Padded(n, width) = z \o t
  BY DEF Padded
<1> HIDE DEF t
<1>3. "0" \in Figures
  <2>1. 1 \in 1..10
    OBVIOUS
  <2> QED
    BY <2>1, DigitsAre DEF Figures
<1>4. z \in Seq(Figures) /\ (m >= 0 => Len(z) = m) /\ \A i \in 1..Len(z) : z[i] = "0"
  <2>1. m \in Int
    BY <1>1
  <2> HIDE DEF m
  <2>2. CASE m >= 0
    BY <1>3, <2>1, <2>2
  <2>3. CASE m < 0
    <3>1. z = <<>>
      BY <2>1, <2>3
    <3> HIDE DEF z
    <3> QED
      BY <2>1, <2>3, <3>1
  <2> HIDE DEF z
  <2> QED
    BY <2>1, <2>2, <2>3
<1>5. Number(z \o t) = n
  <2> HIDE DEF z
  <2> QED
    BY <1>1, <1>4, LeadingZeros
<1>6. z \o t \in Seq(Figures) /\ Len(z \o t) = Len(z) + Len(t) /\ Len(z) \in Nat /\ Len(t) \in Nat
  <2> HIDE DEF z
  <2> QED
    BY <1>1, <1>4
<1> HIDE DEF z
<1> QED
  BY <1>1, <1>2, <1>4, <1>5, <1>6 DEF t
-----------------------------------------------------------------------------
(* Integers as texts                                                       *)

Inked(ch) == ch # " "

\* There are no blanks to strip.
LEMMA NotStripped ==
  ASSUME NEW C, NEW t \in Seq(C), Len(t) >= 1, Inked(t[1]), Inked(t[Len(t)])
  PROVE  Strip(t) = t
<1> DEFINE n == Len(t)
           ink == {i \in DOMAIN t : Inked(t[i])}
<1>1. n \in Nat /\ n >= 1 /\ DOMAIN t = 1..n
  OBVIOUS
<1>2. SubSeq(t, 1, n) = t
  OBVIOUS
<1>3. Strip(t) = IF ink = {} THEN <<>> ELSE SubSeq(t, Min(ink), Max(ink))
  BY Zenon DEF Strip, Inked
<1>4. ink \in SUBSET (1..n) /\ 1 \in ink /\ n \in ink
  BY <1>1
<1>5. ink \in SUBSET Nat /\ ink # {} /\ \A i \in ink : i \in Nat /\ 1 <= i /\ i <= n
  <2> HIDE DEF n, ink
  <2> QED
    BY <1>1, <1>4
<1> HIDE DEF n, ink
<1>6. Min(ink) \in ink /\ \A y \in ink : Min(ink) <= y
  BY <1>5, Minimum DEF Min
<1>7. Max(ink) \in ink /\ \A y \in ink : Max(ink) >= y
  BY <1>1, <1>4, <1>5, MaxOf
<1>8. Min(ink) = 1 /\ Max(ink) = n
  <2>1. Min(ink) \in Nat /\ Max(ink) \in Nat
    BY <1>5, <1>6, <1>7
  <2>2. Min(ink) <= 1 /\ 1 <= Min(ink) /\ Max(ink) >= n /\ Max(ink) <= n
    BY <1>4, <1>5, <1>6, <1>7
  <2> QED
    BY <1>1, <2>1, <2>2
<1> QED
  BY <1>2, <1>3, <1>5, <1>8

LEMMA FigureInked == \A ch \in Figures : IsDigit(ch) /\ Inked(ch) /\ ch \notin {"+", "-"}
BY FigureIs DEF Signs, Inked

\* A text of digits is a number.
LEMMA IntOfFigures ==
  ASSUME NEW t \in Seq(Figures), Len(t) >= 1
  PROVE  IsInt(t) /\ int(t) = Number(t)
<1>1. 1 \in DOMAIN t /\ Len(t) \in DOMAIN t /\ t # <<>> /\ \A i \in DOMAIN t : t[i] \in Figures
  OBVIOUS
<1>2. \A i \in DOMAIN t : IsDigit(t[i]) /\ Inked(t[i]) /\ t[i] \notin {"+", "-"}
  BY <1>1, FigureInked, Zenon
<1>3. Strip(t) = t
  <2>1. Inked(t[1]) /\ Inked(t[Len(t)])
    BY <1>1, <1>2
  <2> QED
    BY <2>1, NotStripped
<1>4. ~IsSigned(t)
  BY <1>1, <1>2, Zenon DEF IsSigned
<1>5. IsInt(t)
  BY <1>1, <1>2, <1>3, <1>4, Zenon DEF IsInt
<1>6. int(t) = Number(t)
  BY <1>3, <1>4, Zenon DEF int
<1> QED
  BY <1>5, <1>6

LEMMA GlyphTexts ==
  /\ Figures \subseteq Glyphs /\ Signs \subseteq Glyphs /\ Seq(Figures) \subseteq Seq(Glyphs)
  /\ " " \in Signs /\ "T" \in Signs /\ "-" \in Signs /\ ":" \in Signs /\ "." \in Signs
<1>1. Figures \subseteq Glyphs /\ Signs \subseteq Glyphs
  BY DEF Glyphs
<1>2. \A S, T : S \subseteq T => Seq(S) \subseteq Seq(T)
  OBVIOUS
<1>3. Seq(Figures) \subseteq Seq(Glyphs)
  BY <1>1, <1>2
<1> QED
  BY <1>1, <1>3 DEF Signs

\* So is one behind a dash.
LEMMA IntOfDash ==
  ASSUME NEW t \in Seq(Figures), Len(t) >= 1
  PROVE  IsInt(<<"-">> \o t) /\ int(<<"-">> \o t) = -Number(t)
<1> DEFINE ch == "-"
           u == <<ch>> \o t
           n == Len(t)
<1>1. ch \in Glyphs /\ t \in Seq(Glyphs)
  BY GlyphTexts
<1>2. Inked(ch) /\ ch \in {"+", "-"} /\ ch = "-"
  BY DEF Inked
<1> HIDE DEF ch
<1>3. /\ u \in Seq(Glyphs) /\ Len(u) = n + 1 /\ n \in Nat /\ u[1] = ch /\ Tail(u) = t /\ u # <<>>
      /\ \A k \in 1..n : u[k + 1] = t[k]
  BY <1>1
<1>4. \A k \in 1..n : t[k] \in Figures
  OBVIOUS
<1>5. DOMAIN t = 1..n /\ t # <<>> /\ n >= 1
  OBVIOUS
<1>6. \A k \in 1..n : IsDigit(t[k]) /\ Inked(t[k])
  BY <1>4, FigureInked, Zenon
<1> HIDE DEF n, u
<1>7. Inked(u[1]) /\ Inked(u[Len(u)])
  <2>1. n \in 1..n /\ Len(u) = n + 1
    BY <1>3, <1>5
  <2> QED
    BY <1>2, <1>3, <1>6, <2>1
<1>8. Strip(u) = u
  <2>1. Len(u) >= 1
    BY <1>3
  <2> QED
    BY <1>3, <1>7, <2>1, NotStripped
<1>9. IsSigned(u)
  BY <1>2, <1>3, Zenon DEF IsSigned
<1>10. IsInt(u)
  BY <1>3, <1>5, <1>6, <1>8, <1>9, Zenon DEF IsInt
<1>11. int(u) = -Number(t)
  BY <1>2, <1>3, <1>8, <1>9, Zenon DEF int
<1> QED
  BY <1>10, <1>11 DEF u, ch

\* A text with another character is not one, whatever its ends are.
LEMMA NoInt ==
  ASSUME NEW t \in Seq(Glyphs), Len(t) >= 1, t[1] \in Figures, t[Len(t)] \in Figures,
         NEW i \in 1..Len(t), t[i] \in Signs
  PROVE  ~IsInt(t)
<1>1. 1 \in DOMAIN t /\ i \in DOMAIN t /\ t # <<>>
  OBVIOUS
<1>2. Inked(t[1]) /\ Inked(t[Len(t)]) /\ t[1] \notin {"+", "-"}
  BY FigureInked, Zenon
<1>3. Strip(t) = t
  BY <1>2, NotStripped
<1>4. ~IsSigned(t)
  BY <1>2, Zenon DEF IsSigned
<1>5. ~IsDigit(t[i])
  <2>1. t[i] \in Signs \cup {"+"}
    BY Zenon
  <2> QED
    BY <2>1, SignIs
<1> QED
  BY <1>1, <1>3, <1>4, <1>5, Zenon DEF IsInt

\* Every integer is read from what is written for it.
LEMMA IntOfSigned ==
  ASSUME NEW n \in Int
  PROVE  IsInt(Signed(n)) /\ int(Signed(n)) = n
<1>1. CASE n < 0
  <2> DEFINE m == -n
             t == Decimal(m)
  <2>1. m \in Nat /\ n = -m
    BY <1>1
  <2>2. Signed(n) = <<"-">> \o t
    BY <1>1 DEF Signed
  <2> HIDE DEF m
  <2>3. t \in Seq(Figures) /\ Len(t) >= 1 /\ Number(t) = m
    BY <2>1, DecimalFigures, NumberOfDecimal
  <2> HIDE DEF t
  <2> QED
    BY <2>1, <2>2, <2>3, IntOfDash
<1>2. CASE n >= 0
  <2> DEFINE t == Decimal(n)
  <2>1. n \in Nat /\ ~(n < 0)
    BY <1>2
  <2>2. Signed(n) = t
    BY <2>1 DEF Signed
  <2>3. t \in Seq(Figures) /\ Len(t) >= 1 /\ Number(t) = n
    BY <2>1, DecimalFigures, NumberOfDecimal
  <2> HIDE DEF t
  <2> QED
    BY <2>2, <2>3, IntOfFigures
<1> QED
  BY <1>1, <1>2
-----------------------------------------------------------------------------
(* Texts that are put together of fields and taken apart again             *)

\* What is searched for is there, and nowhere before.
LEMMA FindIs ==
  ASSUME NEW C, NEW t \in Seq(C), NEW ch, NEW i \in 1..(Len(t) + 1), NEW p \in i..(Len(t) + 1),
         p <= Len(t) => t[p] = ch, \A k \in i..(p - 1) : t[k] # ch
  PROVE  Find(ch, t, i) = p
<1> DEFINE n == Len(t)
           f == Find(ch, t, i)
<1>1. n \in Nat /\ i \in Nat \ {0} /\ i <= n + 1 /\ p \in Nat /\ i <= p /\ p <= n + 1
  OBVIOUS
<1>2. /\ f \in 1..(n + 1) /\ f >= i
      /\ f <= n => t[f] = ch
      /\ \A k \in i..n : k < f => t[k] # ch
  BY <1>1, FindsFirst
<1> HIDE DEF n, f
<1>3. ~(f < p)
  <2> SUFFICES ASSUME f < p PROVE FALSE
    OBVIOUS
  <2>1. f \in i..(p - 1) /\ f <= n
    BY <1>1, <1>2
  <2> QED
    BY <1>2, <2>1
<1>4. ~(p < f)
  <2> SUFFICES ASSUME p < f PROVE FALSE
    OBVIOUS
  <2>1. p \in i..n /\ p <= n
    BY <1>1, <1>2
  <2>2. t[p] = ch
    BY <2>1 DEF n
  <2> QED
    BY <1>2, <2>1, <2>2
<1>5. f = p
  BY <1>1, <1>2, <1>3, <1>4
<1> QED
  BY <1>5 DEF f

\* The text behind a separator.
Behind(t, a, ch, b) ==
  /\ Len(t) = Len(a) + 1 + Len(b) /\ t[Len(a) + 1] = ch
  /\ \A k \in 1..Len(a) : t[k] = a[k]
  /\ \A k \in 1..Len(b) : t[Len(a) + 1 + k] = b[k]

LEMMA PutTogether ==
  ASSUME NEW C, NEW a \in Seq(C), NEW ch \in C, NEW b \in Seq(C)
  PROVE  a \o <<ch>> \o b \in Seq(C) /\ Behind(a \o <<ch>> \o b, a, ch, b)
<1> DEFINE m == Len(a)
           n == Len(b)
           u == a \o <<ch>>
           t == u \o b
<1>1. m \in Nat /\ n \in Nat
  OBVIOUS
<1>2. u \in Seq(C) /\ Len(u) = m + 1 /\ u[m + 1] = ch /\ \A k \in 1..m : u[k] = a[k]
  OBVIOUS
<1>3. Len(b) = n
  OBVIOUS
<1> HIDE DEF u, n, m
<1>4. t \in Seq(C) /\ Len(t) = m + 1 + n /\ (\A k \in 1..(m + 1) : t[k] = u[k]) /\ \A k \in 1..n : t[m + 1 + k] = b[k]
  <2>1. t \in Seq(C) /\ Len(t) = Len(u) + Len(b)
    <3>1. u \in Seq(C)
      BY <1>2
    <3> QED
      BY <3>1
  <2>2. \A k \in 1..(m + 1) : t[k] = u[k]
    BY <1>1, <1>2
  <2>3. \A k \in 1..n : t[m + 1 + k] = b[k]
    BY <1>1, <1>2, <1>3
  <2> HIDE DEF t
  <2> QED
    BY <1>1, <1>2, <1>3, <2>1, <2>2, <2>3
<1> HIDE DEF t
<1>5. (m + 1) \in 1..(m + 1) /\ \A k \in 1..m : k \in 1..(m + 1)
  BY <1>1
<1>6. Behind(t, a, ch, b)
  BY <1>1, <1>2, <1>4, <1>5 DEF Behind, m, n
<1> QED
  BY <1>4, <1>6 DEF t, u

LEMMA FindBehind ==
  ASSUME NEW C, NEW t \in Seq(C), NEW a \in Seq(C), NEW ch, NEW b \in Seq(C), Behind(t, a, ch, b),
         NEW i \in 1..(Len(b) + 1)
  PROVE  Find(ch, t, Len(a) + 1 + i) = Len(a) + 1 + Find(ch, b, i)
<1> DEFINE m == Len(a) + 1
           n == Len(b)
           f == Find(ch, b, i)
           p == m + f
           s == m + i
<1>1. m \in Nat /\ n \in Nat /\ i \in Nat \ {0} /\ i <= n + 1
  OBVIOUS
<1>2. f \in 1..(n + 1) /\ f >= i /\ (f <= n => b[f] = ch) /\ \A k \in i..n : k < f => b[k] # ch
  BY <1>1, FindsFirst
<1>3. Len(t) = m + n /\ \A k \in 1..n : t[m + k] = b[k]
  BY DEF Behind
<1> HIDE DEF m, n, f
<1>4. s \in 1..(Len(t) + 1) /\ p \in s..(Len(t) + 1) /\ (p <= Len(t) => f <= n) /\ f \in Nat
  BY <1>1, <1>2, <1>3
<1>5. p <= Len(t) => t[p] = ch
  <2> SUFFICES ASSUME p <= Len(t) PROVE t[p] = ch
    OBVIOUS
  <2>1. f \in 1..n /\ b[f] = ch
    BY <1>2, <1>4
  <2> QED
    BY <1>3, <2>1
<1>6. ASSUME NEW k \in s..(p - 1) PROVE t[k] # ch
  <2> DEFINE j == k - m
  <2>1. j \in 1..n /\ j \in i..n /\ j < f /\ m + j = k
    BY <1>1, <1>2, <1>4
  <2> HIDE DEF j
  <2> QED
    BY <1>2, <1>3, <2>1
<1> HIDE DEF p, s
<1>7. Find(ch, t, s) = p
  BY <1>4, <1>5, <1>6, FindIs
<1> QED
  BY <1>7 DEF p, s, m, f

\* A piece that lies behind the separator.
LEMMA PieceBehind ==
  ASSUME NEW C, NEW t \in Seq(C), NEW a \in Seq(C), NEW ch, NEW b \in Seq(C), Behind(t, a, ch, b),
         NEW i \in 1..(Len(b) + 1), NEW j \in (i - 1)..Len(b)
  PROVE  SubSeq(t, Len(a) + 1 + i, Len(a) + 1 + j) = SubSeq(b, i, j)
<1> DEFINE m == Len(a) + 1
           n == Len(b)
           l == j - i + 1
           u == SubSeq(t, m + i, m + j)
           v == SubSeq(b, i, j)
<1>1. m \in Nat /\ n \in Nat /\ i \in Nat /\ j \in Nat /\ l \in Nat /\ 1 <= i /\ j <= n /\ j = i + l - 1
  OBVIOUS
<1>2. Len(t) = m + n /\ \A k \in 1..n : t[m + k] = b[k]
  BY DEF Behind
<1>3. v \in Seq(C) /\ Len(v) = l /\ \A k \in 1..l : v[k] = b[i + k - 1]
  <2>1. \A k \in i..j : k \in 1..n /\ b[k] \in C
    BY <1>1
  <2>2. v \in Seq(C)
    BY <1>1, <2>1
  <2>3. Len(v) = l
    BY <1>1
  <2>4. \A k \in 1..l : v[k] = b[i + k - 1]
    BY <1>1
  <2> QED
    BY <2>2, <2>3, <2>4
<1> HIDE DEF m, n, l, v
<1>4. u \in Seq(C) /\ Len(u) = l /\ \A k \in 1..l : u[k] = t[m + i + k - 1]
  <2>1. \A k \in (m + i)..(m + j) : k \in 1..(m + n) /\ t[k] \in C
    BY <1>1, <1>2
  <2> QED
    BY <1>1, <1>2, <2>1
<1> HIDE DEF u
<1>5. ASSUME NEW k \in 1..l PROVE u[k] = v[k]
  <2> DEFINE x == i + k - 1
  <2>1. x \in 1..n /\ m + x = m + i + k - 1
    BY <1>1
  <2> HIDE DEF x
  <2>2. t[m + x] = b[x]
    BY <1>2, <2>1
  <2> QED
    BY <1>3, <1>4, <2>1, <2>2 DEF x
<1>6. u = v
  BY <1>3, <1>4, <1>5, SeqEqual
<1> QED
  BY <1>6 DEF u, v, m

\* A text without the separator is one field.
LEMMA SplitOne ==
  ASSUME NEW C, NEW t \in Seq(C), NEW ch, NEW max \in Nat, max = 0 \/ ~Occurs(ch, t)
  PROVE  Split(t, ch, max) = <<t>>
<1>1. PICK r : SplitSolved(r, t, ch, max)
  BY SplitExists
<1>2. max \in 0..max /\ 1 \in 1..(Len(t) + 1) /\ 1 \in Nat \ {0} /\ Len(t) \in Nat
  OBVIOUS
<1>3. max = 0 \/ Find(ch, t, 1) > Len(t)
  <2> SUFFICES ASSUME ~Occurs(ch, t) PROVE Find(ch, t, 1) > Len(t)
    OBVIOUS
  <2> DEFINE f == Find(ch, t, 1)
  <2>1. f \in 1..(Len(t) + 1) /\ (f <= Len(t) => t[f] = ch)
    BY <1>2, FindsFirst
  <2>2. \A k \in 1..Len(t) : t[k] # ch
    BY DEF Occurs
  <2> HIDE DEF f
  <2>3. f > Len(t)
    BY <1>2, <2>1, <2>2
  <2> QED
    BY <2>3 DEF f
<1>4. Split(t, ch, max) = <<SubSeq(t, 1, Len(t))>>
  BY <1>1, <1>2, <1>3 DEF SplitSolved
<1>5. SubSeq(t, 1, Len(t)) = t
  OBVIOUS
<1> QED
  BY <1>4, <1>5

\* The field a is cut off from t, and b is left.
Cuts(t, a, ch, b) == \A max \in Nat : Split(t, ch, max + 1) = <<a>> \o Split(b, ch, max)

LEMMA SplitMore ==
  ASSUME NEW C, NEW a \in Seq(C), NEW ch \in C, NEW b \in Seq(C), ~Occurs(ch, a)
  PROVE  Cuts(a \o <<ch>> \o b, a, ch, b)
<1> SUFFICES ASSUME NEW max \in Nat
             PROVE  Split(a \o <<ch>> \o b, ch, max + 1) = <<a>> \o Split(b, ch, max)
  BY DEF Cuts
<1> DEFINE t == a \o <<ch>> \o b
           m == Len(a) + 1
           n == Len(b)
           N == max + 1
<1>1. t \in Seq(C) /\ Behind(t, a, ch, b)
  BY PutTogether
<1> HIDE DEF t
<1>2. Len(t) = m + n /\ m \in Nat /\ n \in Nat /\ m >= 1 /\ N \in Nat /\ Len(t) \in Nat
  BY <1>1 DEF Behind
<1>3. PICK r : SplitSolved(r, t, ch, N)
  BY <1>1, <1>2, SplitExists
<1>4. PICK q : SplitSolved(q, b, ch, max)
  BY SplitExists
<1>5. \A i \in 1..(n + 1) : Find(ch, t, m + i) = m + Find(ch, b, i)
  BY <1>1, FindBehind
<1>6. \A i \in 1..(n + 1), j \in 0..n : j >= i - 1 => SubSeq(t, m + i, m + j) = SubSeq(b, i, j)
  <2> SUFFICES ASSUME NEW i \in 1..(n + 1), NEW j \in 0..n, j >= i - 1
               PROVE  SubSeq(t, m + i, m + j) = SubSeq(b, i, j)
    OBVIOUS
  <2>1. i \in 1..(Len(b) + 1) /\ j \in (i - 1)..Len(b)
    OBVIOUS
  <2> QED
    BY <1>1, <2>1, PieceBehind
<1>7. Find(ch, t, 1) = m /\ SubSeq(t, 1, m - 1) = a
  <2>1. 1 \in 1..(Len(t) + 1) /\ m \in 1..(Len(t) + 1) /\ t[m] = ch
    BY <1>1, <1>2 DEF Behind
  <2>2. \A k \in 1..(m - 1) : t[k] = a[k] /\ a[k] # ch
    <3>1. m - 1 = Len(a) /\ DOMAIN a = 1..Len(a)
      OBVIOUS
    <3> HIDE DEF m
    <3> QED
      BY <1>1, <3>1 DEF Behind, Occurs
  <2>3. Find(ch, t, 1) = m
    <3> HIDE DEF m
    <3>1. (m <= Len(t) => t[m] = ch) /\ \A k \in 1..(m - 1) : t[k] # ch
      BY <2>1, <2>2
    <3> QED
      BY <1>1, <2>1, <3>1, FindIs
  <2>4. SubSeq(t, 1, m - 1) = a
    <3> DEFINE l == Len(a)
               u == SubSeq(t, 1, l)
    <3>1. l \in Nat /\ l <= Len(t) /\ m - 1 = l /\ Len(a) = l
      BY <1>2
    <3> HIDE DEF l
    <3>2. u \in Seq(C) /\ Len(u) = l /\ \A k \in 1..l : u[k] = t[k]
      BY <1>1, <3>1
    <3> HIDE DEF u, m
    <3>3. u = a
      BY <2>2, <3>1, <3>2, SeqEqual
    <3> QED
      BY <3>1, <3>3 DEF u
  <2> QED
    BY <2>3, <2>4
<1>8. /\ \A k \in 0..N, i \in 1..(Len(t) + 1) :
           r[k][i] = IF k = 0 \/ Find(ch, t, i) > Len(t) THEN <<SubSeq(t, i, Len(t))>>
                     ELSE <<SubSeq(t, i, Find(ch, t, i) - 1)>> \o r[k - 1][Find(ch, t, i) + 1]
      /\ \A k \in 0..max, i \in 1..(n + 1) :
           q[k][i] = IF k = 0 \/ Find(ch, b, i) > n THEN <<SubSeq(b, i, n)>>
                     ELSE <<SubSeq(b, i, Find(ch, b, i) - 1)>> \o q[k - 1][Find(ch, b, i) + 1]
      /\ Split(t, ch, N) = r[N][1] /\ Split(b, ch, max) = q[max][1]
  BY <1>3, <1>4 DEF SplitSolved
<1>9. \A i \in 1..(n + 1) : Find(ch, b, i) \in i..(n + 1)
  <2> SUFFICES ASSUME NEW i \in 1..(n + 1) PROVE Find(ch, b, i) \in i..(n + 1)
    OBVIOUS
  <2> DEFINE f == Find(ch, b, i)
  <2>1. i \in Nat \ {0} /\ i <= n + 1
    BY <1>2
  <2>2. f \in 1..(n + 1) /\ f >= i
    BY <2>1, FindsFirst
  <2> HIDE DEF f, n
  <2>3. f \in i..(n + 1)
    BY <1>2, <2>1, <2>2
  <2> QED
    BY <2>3 DEF f
<1> HIDE DEF m, n, N
<1>10. ASSUME NEW k \in 0..max, NEW i \in 1..(n + 1),
              k > 0 => \A j \in 1..(n + 1) : r[k - 1][m + j] = q[k - 1][j]
       PROVE  r[k][m + i] = q[k][i]
  <2> DEFINE f == Find(ch, b, i)
             x == m + i
             y == m + f
  <2>1. Find(ch, t, x) = y /\ f \in i..(n + 1) /\ k \in 0..N /\ x \in 1..(Len(t) + 1)
    BY <1>2, <1>5, <1>9 DEF N
  <2>2. q[k][i] = IF k = 0 \/ f > n THEN <<SubSeq(b, i, n)>> ELSE <<SubSeq(b, i, f - 1)>> \o q[k - 1][f + 1]
    BY <1>8
  <2>3. SubSeq(t, x, Len(t)) = SubSeq(b, i, n)
    <3>1. n \in 0..n /\ n >= i - 1 /\ Len(t) = m + n
      BY <1>2
    <3>2. SubSeq(t, x, m + n) = SubSeq(b, i, n)
      BY <1>6, <3>1
    <3> QED
      BY <3>1, <3>2, Zenon
  <2> HIDE DEF f
  <2>4. (y > Len(t)) = (f > n) /\ y - 1 = m + (f - 1) /\ y + 1 = m + (f + 1)
    BY <1>2, <2>1
  <2>5. k # 0 /\ f <= n => SubSeq(t, x, y - 1) = SubSeq(b, i, f - 1) /\ r[k - 1][y + 1] = q[k - 1][f + 1]
    <3> SUFFICES ASSUME k # 0, f <= n
                 PROVE  SubSeq(t, x, y - 1) = SubSeq(b, i, f - 1) /\ r[k - 1][y + 1] = q[k - 1][f + 1]
      OBVIOUS
    <3>1. f - 1 \in 0..n /\ f - 1 >= i - 1 /\ f + 1 \in 1..(n + 1) /\ k > 0
      BY <1>2, <2>1
    <3>2. SubSeq(t, x, m + (f - 1)) = SubSeq(b, i, f - 1)
      BY <1>6, <3>1
    <3>3. r[k - 1][m + (f + 1)] = q[k - 1][f + 1]
      BY <1>10, <3>1
    <3> HIDE DEF x, y
    <3> QED
      BY <2>4, <3>2, <3>3
  <2> HIDE DEF x, y
  <2>6. r[k][x] = IF k = 0 \/ y > Len(t) THEN <<SubSeq(t, x, Len(t))>>
                  ELSE <<SubSeq(t, x, y - 1)>> \o r[k - 1][y + 1]
    BY <1>8, <2>1
  <2>7. f > n \/ f <= n
    BY <1>2, <2>1
  <2>8. r[k][x] = q[k][i]
    BY <2>2, <2>3, <2>4, <2>5, <2>6, <2>7
  <2> QED
    BY <2>8 DEF x
<1>11. \A i \in 1..(n + 1) : r[max][m + i] = q[max][i]
  <2> DEFINE Q(k) == \A i \in 1..(n + 1) : r[k][m + i] = q[k][i]
             A == {k \in Nat : k <= max => Q(k)}
  <2>1. 0 \in A
    <3>1. 0 \in 0..max /\ ~(0 > 0)
      OBVIOUS
    <3>2. Q(0)
      BY <1>10, <3>1
    <3> QED
      BY <3>2
  <2>2. ASSUME NEW k \in Nat, k \in A PROVE k + 1 \in A
    <3> SUFFICES ASSUME k + 1 <= max PROVE Q(k + 1)
      OBVIOUS
    <3>1. k + 1 \in 0..max /\ (k + 1) - 1 = k /\ k <= max
      OBVIOUS
    <3>2. Q(k)
      BY <2>2, <3>1
    <3> QED
      BY <1>10, <3>1, <3>2
  <2> HIDE DEF A
  <2>3. max \in A /\ max <= max
    BY <2>1, <2>2, Numbers
  <2> QED
    BY <2>3 DEF A
<1>12. r[N][1] = <<a>> \o r[max][m + 1]
  <2>1. N \in 0..N /\ 1 \in 1..(Len(t) + 1) /\ N # 0 /\ N - 1 = max /\ ~(m > Len(t))
    BY <1>2 DEF N
  <2>2. r[N][1] = IF N = 0 \/ m > Len(t) THEN <<SubSeq(t, 1, Len(t))>> ELSE <<SubSeq(t, 1, m - 1)>> \o r[N - 1][m + 1]
    BY <1>7, <1>8, <2>1
  <2> QED
    BY <1>7, <2>1, <2>2
<1>13. r[max][m + 1] = q[max][1]
  <2>1. 1 \in 1..(n + 1)
    BY <1>2
  <2> QED
    BY <1>11, <2>1
<1> QED
  BY <1>12, <1>13, <1>8 DEF t, N

\* Texts are put together in any order.
LEMMA Regroup ==
  ASSUME NEW C, NEW a \in Seq(C), NEW b \in Seq(C), NEW c \in Seq(C)
  PROVE  (a \o b) \o c = a \o (b \o c) /\ a \o b \in Seq(C) /\ a \o <<>> = a /\ <<>> \o a = a
OBVIOUS

LEMMA OccursIn ==
  ASSUME NEW C, NEW a \in Seq(C), NEW b \in Seq(C), NEW ch
  PROVE  Occurs(ch, a \o b) <=> Occurs(ch, a) \/ Occurs(ch, b)
<1> DEFINE m == Len(a)
           n == Len(b)
           t == a \o b
<1>1. m \in Nat /\ n \in Nat /\ DOMAIN a = 1..m /\ DOMAIN b = 1..n
  OBVIOUS
<1>2. DOMAIN t = 1..(m + n) /\ (\A k \in 1..m : t[k] = a[k]) /\ \A k \in 1..n : t[m + k] = b[k]
  OBVIOUS
<1> HIDE DEF m, n, t
<1>3. ASSUME Occurs(ch, t) PROVE Occurs(ch, a) \/ Occurs(ch, b)
  <2>1. PICK i \in 1..(m + n) : t[i] = ch
    BY <1>2, <1>3 DEF Occurs
  <2>2. CASE i <= m
    <3>1. i \in 1..m
      BY <1>1, <2>2
    <3> QED
      BY <1>1, <1>2, <2>1, <3>1 DEF Occurs
  <2>3. CASE i > m
    <3> DEFINE k == i - m
    <3>1. k \in 1..n /\ m + k = i
      BY <1>1, <2>3
    <3> HIDE DEF k
    <3> QED
      BY <1>1, <1>2, <2>1, <3>1 DEF Occurs
  <2> QED
    BY <1>1, <2>2, <2>3
<1>4. ASSUME Occurs(ch, a) PROVE Occurs(ch, t)
  <2>1. PICK i \in 1..m : a[i] = ch
    BY <1>1, <1>4 DEF Occurs
  <2>2. i \in 1..(m + n)
    BY <1>1
  <2> QED
    BY <1>2, <2>1, <2>2 DEF Occurs
<1>5. ASSUME Occurs(ch, b) PROVE Occurs(ch, t)
  <2>1. PICK i \in 1..n : b[i] = ch
    BY <1>1, <1>5 DEF Occurs
  <2>2. m + i \in 1..(m + n)
    BY <1>1
  <2> QED
    BY <1>2, <2>1, <2>2 DEF Occurs
<1> QED
  BY <1>3, <1>4, <1>5 DEF t

LEMMA OccursAlone ==
  ASSUME NEW x, NEW ch
  PROVE  Occurs(ch, <<x>>) <=> ch = x
<1> DEFINE t == <<x>>
<1>1. DOMAIN t = {1} /\ t[1] = x
  OBVIOUS
<1> HIDE DEF t
<1>2. Occurs(ch, t) <=> ch = x
  BY <1>1 DEF Occurs
<1> QED
  BY <1>2 DEF t

\* t says the number n in digits.
Says(t, n) == t \in Seq(Figures) /\ Len(t) >= 1 /\ Number(t) = n

LEMMA Said ==
  ASSUME NEW t, NEW n, Says(t, n)
  PROVE  /\ t \in Seq(Figures) /\ t \in Seq(Glyphs) /\ Len(t) \in Nat /\ Len(t) >= 1
         /\ t[1] \in Figures /\ t[Len(t)] \in Figures
         /\ IsInt(t) /\ int(t) = n /\ \A ch \in Signs : ~Occurs(ch, t)
<1>1. t \in Seq(Figures) /\ Len(t) >= 1 /\ Number(t) = n
  BY DEF Says
<1>2. Len(t) \in Nat /\ (\A i \in DOMAIN t : t[i] \in Figures) /\ 1 \in DOMAIN t /\ Len(t) \in DOMAIN t
  BY <1>1
<1>3. IsInt(t) /\ int(t) = n
  BY <1>1, IntOfFigures
<1>4. \A ch \in Signs : ~Occurs(ch, t)
  <2> SUFFICES ASSUME NEW ch \in Signs, Occurs(ch, t) PROVE FALSE
    OBVIOUS
  <2>1. ch \in Figures
    BY <1>2, Zenon DEF Occurs
  <2> QED
    BY <2>1, FigureIs
<1>5. t \in Seq(Glyphs)
  BY <1>1, GlyphTexts
<1> QED
  BY <1>1, <1>2, <1>3, <1>4, <1>5

LEMMA PaddedSays ==
  ASSUME NEW n \in Nat, NEW width \in Nat
  PROVE  Says(Padded(n, width), n) /\ Says(Decimal(n), n)
BY PaddedIs, DecimalFigures, NumberOfDecimal DEF Says

LEMMA SideBySide ==
  ASSUME NEW x, NEW y, NEW z
  PROVE  <<x>> \o <<y>> = <<x, y>> /\ <<x>> \o <<y, z>> = <<x, y, z>>
<1> DEFINE S == {x, y, z}
           p == <<x>>
           q == <<y>>
           r == <<y, z>>
<1>1. x \in S /\ y \in S /\ z \in S
  OBVIOUS
<1> HIDE DEF S
<1>2. p \in Seq(S) /\ Len(p) = 1 /\ p[1] = x
  BY <1>1
<1>3. q \in Seq(S) /\ Len(q) = 1 /\ q[1] = y
  BY <1>1
<1>4. r \in Seq(S) /\ Len(r) = 2 /\ r[1] = y /\ r[2] = z
  BY <1>1
<1>5. <<x, y>> \in Seq(S) /\ <<x, y, z>> \in Seq(S)
  BY <1>1
<1> HIDE DEF p, q, r
<1>6. p \o q = <<x, y>>
  <2> DEFINE u == p \o q
             v == <<x, y>>
  <2>1. u \in Seq(S) /\ Len(u) = 2 /\ u[1] = x /\ u[2] = y
    <3>1. u \in Seq(S) /\ Len(u) = 2 /\ \A i \in 1..2 : u[i] = IF i <= 1 THEN p[i] ELSE q[i - 1]
      BY <1>2, <1>3, ConcatProperties
    <3> HIDE DEF u
    <3> QED
      BY <1>2, <1>3, <3>1
  <2>2. v \in Seq(S) /\ Len(v) = 2 /\ v[1] = x /\ v[2] = y
    BY <1>5
  <2> HIDE DEF u, v
  <2>3. \A i \in 1..Len(u) : u[i] = v[i]
    BY <2>1, <2>2
  <2>4. u = v
    BY <2>1, <2>2, <2>3, SeqEqual
  <2> QED
    BY <2>4 DEF u, v
<1>7. p \o r = <<x, y, z>>
  <2> DEFINE u == p \o r
             v == <<x, y, z>>
  <2>1. u \in Seq(S) /\ Len(u) = 3 /\ u[1] = x /\ u[2] = y /\ u[3] = z
    <3>1. u \in Seq(S) /\ Len(u) = 3 /\ \A i \in 1..3 : u[i] = IF i <= 1 THEN p[i] ELSE r[i - 1]
      BY <1>2, <1>4, ConcatProperties
    <3> HIDE DEF u
    <3> QED
      BY <1>2, <1>4, <3>1
  <2>2. v \in Seq(S) /\ Len(v) = 3 /\ v[1] = x /\ v[2] = y /\ v[3] = z
    BY <1>5
  <2> HIDE DEF u, v
  <2>3. \A i \in 1..Len(u) : u[i] = v[i]
    BY <2>1, <2>2
  <2>4. u = v
    BY <2>1, <2>2, <2>3, SeqEqual
  <2> QED
    BY <2>4 DEF u, v
<1> QED
  BY <1>6, <1>7 DEF p, q, r

LEMMA TwoFields ==
  ASSUME NEW C, NEW a \in Seq(C), NEW ch \in C, NEW b \in Seq(C), ~Occurs(ch, a)
  PROVE  /\ Split(a \o <<ch>> \o b, ch, 1) = <<a, b>>
         /\ ~Occurs(ch, b) => SplitAll(a \o <<ch>> \o b, ch) = <<a, b>>
<1> DEFINE t == a \o <<ch>> \o b
           N == Len(a) + Len(b)
<1>1. t \in Seq(C) /\ Len(t) = N + 1 /\ N \in Nat
  <2>1. t \in Seq(C) /\ Behind(t, a, ch, b)
    BY PutTogether
  <2> HIDE DEF t
  <2>2. Len(a) \in Nat /\ Len(b) \in Nat
    OBVIOUS
  <2> QED
    BY <2>1, <2>2 DEF Behind
<1>2. Cuts(t, a, ch, b)
  BY SplitMore
<1> HIDE DEF t, N
<1>3. Split(t, ch, 1) = <<a>> \o Split(b, ch, 0) /\ Split(b, ch, 0) = <<b>>
  <2>1. 0 \in Nat /\ 0 + 1 = 1
    OBVIOUS
  <2>2. Split(t, ch, 0 + 1) = <<a>> \o Split(b, ch, 0)
    BY <1>2, <2>1 DEF Cuts
  <2> QED
    BY <2>1, <2>2, SplitOne
<1>4. Split(t, ch, N + 1) = <<a>> \o Split(b, ch, N)
  BY <1>1, <1>2 DEF Cuts
<1>5. ~Occurs(ch, b) => Split(b, ch, N) = <<b>>
  BY <1>1, SplitOne
<1>6. <<a>> \o <<b>> = <<a, b>>
  BY SideBySide, Zenon
<1>7. Split(t, ch, 1) = <<a, b>>
  BY <1>3, <1>6
<1>8. ~Occurs(ch, b) => SplitAll(t, ch) = <<a, b>>
  BY <1>1, <1>4, <1>5, <1>6 DEF SplitAll
<1> QED
  BY <1>7, <1>8 DEF t

LEMMA ThreeFields ==
  ASSUME NEW C, NEW a \in Seq(C), NEW ch \in C, NEW b \in Seq(C), NEW c \in Seq(C), ~Occurs(ch, a), ~Occurs(ch, b)
  PROVE  /\ Split(a \o <<ch>> \o (b \o <<ch>> \o c), ch, 2) = <<a, b, c>>
         /\ ~Occurs(ch, c) => SplitAll(a \o <<ch>> \o (b \o <<ch>> \o c), ch) = <<a, b, c>>
<1> DEFINE u == b \o <<ch>> \o c
           t == a \o <<ch>> \o u
           N == Len(a) + Len(u)
           M == N - 1
<1>1. u \in Seq(C) /\ Len(u) \in Nat /\ Len(u) >= 1
  <2>1. u \in Seq(C) /\ Behind(u, b, ch, c)
    BY PutTogether
  <2> HIDE DEF u
  <2>2. Len(b) \in Nat /\ Len(c) \in Nat /\ Len(u) \in Nat
    BY <2>1
  <2> QED
    BY <2>1, <2>2 DEF Behind
<1>2. t \in Seq(C) /\ Len(t) = N + 1 /\ N \in Nat /\ M \in Nat /\ N = M + 1
  <2> HIDE DEF u
  <2>1. t \in Seq(C) /\ Behind(t, a, ch, u)
    BY <1>1, PutTogether
  <2> HIDE DEF t
  <2>2. Len(a) \in Nat
    OBVIOUS
  <2> QED
    BY <1>1, <2>1, <2>2 DEF Behind
<1> HIDE DEF M, N
<1>3. Split(u, ch, 1) = <<b, c>>
  BY TwoFields
<1>4. Cuts(u, b, ch, c)
  BY SplitMore
<1> HIDE DEF u
<1>5. Cuts(t, a, ch, u)
  BY <1>1, SplitMore
<1> HIDE DEF t
<1>6. Split(u, ch, M + 1) = <<b>> \o Split(c, ch, M)
  BY <1>2, <1>4 DEF Cuts
<1>7. ~Occurs(ch, c) => Split(c, ch, M) = <<c>>
  BY <1>2, SplitOne
<1>8. Split(t, ch, 2) = <<a>> \o Split(u, ch, 1)
  <2>1. 1 \in Nat /\ 1 + 1 = 2
    OBVIOUS
  <2>2. Split(t, ch, 1 + 1) = <<a>> \o Split(u, ch, 1)
    BY <1>5, <2>1 DEF Cuts
  <2> QED
    BY <2>1, <2>2
<1>9. Split(t, ch, N + 1) = <<a>> \o Split(u, ch, N)
  BY <1>2, <1>5 DEF Cuts
<1>10. <<a>> \o <<b, c>> = <<a, b, c>> /\ <<b>> \o <<c>> = <<b, c>>
  BY SideBySide, Zenon
<1>11. Split(t, ch, 2) = <<a, b, c>>
  BY <1>3, <1>8, <1>10
<1>12. ~Occurs(ch, c) => SplitAll(t, ch) = <<a, b, c>>
  BY <1>2, <1>6, <1>7, <1>9, <1>10 DEF SplitAll
<1> QED
  BY <1>11, <1>12 DEF t, u
-----------------------------------------------------------------------------
(* Fractions and clocks                                                    *)

LEMMA ZeroSays == "0" \in Figures /\ Value("0") = 0 /\ Says(<<"0">>, 0)
<1>1. 0 \in 0..9 /\ Digits[0 + 1] = "0"
  BY DigitsAre
<1>2. "0" \in Figures /\ Value("0") = 0
  BY <1>1, DigitOf
<1>3. 0 \in Nat /\ 0 < 10
  OBVIOUS
<1>4. Decimal(0) = <<Digits[0 + 1]>>
  BY <1>3, DecimalIs
<1>5. Says(<<"0">>, 0)
  BY <1>1, <1>3, <1>4, PaddedSays
<1> QED
  BY <1>2, <1>5

LEMMA FractionNone ==
  ASSUME NEW x \in Seq(Glyphs), ~Occurs(".", x)
  PROVE  Fraction(x) = <<x, <<"0">>>> /\ SplitAll(x, ".") = <<x>>
<1>1. Fraction(x) = <<x, <<"0">>>>
  BY DEF Fraction
<1>2. Len(x) \in Nat
  OBVIOUS
<1>3. Split(x, ".", Len(x)) = <<x>>
  BY <1>2, SplitOne
<1> QED
  BY <1>1, <1>3 DEF SplitAll

LEMMA FractionSome ==
  ASSUME NEW x \in Seq(Glyphs), ~Occurs(".", x), NEW b \in Seq(Figures)
  PROVE  Fraction(x \o <<".">> \o b) = <<x, ljust(b, 6)>> /\ SplitAll(x \o <<".">> \o b, ".") = <<x, b>>
<1> DEFINE ch == "."
           t  == x \o <<ch>> \o b
<1>1. ch \in Glyphs /\ ch \in Signs /\ b \in Seq(Glyphs)
  BY GlyphTexts
<1>2. ~Occurs(ch, b)
  <2> SUFFICES ASSUME Occurs(ch, b) PROVE FALSE
    OBVIOUS
  <2>1. \A i \in DOMAIN b : b[i] \in Figures
    OBVIOUS
  <2>2. ch \in Figures
    BY <2>1, Zenon DEF Occurs
  <2> QED
    BY <1>1, <2>2, FigureIs
<1>3. ch = "." /\ ~Occurs(ch, x)
  OBVIOUS
<1> HIDE DEF ch
<1>4. Split(t, ch, 1) = <<x, b>> /\ SplitAll(t, ch) = <<x, b>>
  BY <1>1, <1>2, <1>3, TwoFields
<1>5. Occurs(ch, t)
  <2>1. t \in Seq(Glyphs) /\ Behind(t, x, ch, b)
    BY <1>1, PutTogether
  <2> HIDE DEF t
  <2> DEFINE i == Len(x) + 1
  <2>2. i \in DOMAIN t /\ t[i] = ch
    <3>1. Len(x) \in Nat /\ Len(b) \in Nat
      BY <1>1
    <3> QED
      BY <2>1, <3>1 DEF Behind
  <2> QED
    BY <2>2, Zenon DEF Occurs
<1> HIDE DEF t
<1>6. Fraction(t) = <<<<x, b>>[1], ljust(<<x, b>>[2], 6)>>
  BY <1>3, <1>4, <1>5, Zenon DEF Fraction
<1>7. <<x, b>>[1] = x /\ <<x, b>>[2] = b
  OBVIOUS
<1> QED
  BY <1>3, <1>4, <1>6, <1>7 DEF t

\* What six digits say.
Decimals(a, b, c, d, e, f) == 100000 * a + 10000 * b + 1000 * c + 100 * d + 10 * e + f

LEMMA SixOf ==
  ASSUME NEW t \in Seq(Figures), Len(t) = 6
  PROVE  \A k \in 1..6 : t[k] \in Figures
BY SMTT(30)

LEMMA SixDigits ==
  ASSUME NEW t \in Seq(Figures), Len(t) = 6
  PROVE  /\ \A k \in 1..6 : Value(t[k]) \in 0..9
         /\ Number(t) = Decimals(Value(t[1]), Value(t[2]), Value(t[3]), Value(t[4]), Value(t[5]), Value(t[6]))
<1>1. \A k \in 1..6 : t[k] \in Figures
  BY SMTT(30)
<1>2. \A k \in 1..6 : Value(t[k]) \in 0..9
  BY <1>1, FigureIs
<1>3. PICK g : NumberSolved(g, t)
  BY NumberExists
<1>4. g[0] = 0 /\ (\A k \in 1..6 : g[k] = 10 * g[k - 1] + Value(t[k])) /\ Number(t) = g[6]
  BY <1>3 DEF NumberSolved
<1> DEFINE v(k) == Value(t[k])
<1>5. v(1) \in Int /\ v(2) \in Int /\ v(3) \in Int /\ v(4) \in Int /\ v(5) \in Int /\ v(6) \in Int
  BY <1>2
<1>6. \A k \in 1..6 : g[k] = 10 * g[k - 1] + v(k)
  BY <1>4
<1> HIDE DEF v
<1>7. /\ g[1] = 10 * 0 + v(1) /\ g[2] = 10 * g[1] + v(2) /\ g[3] = 10 * g[2] + v(3)
      /\ g[4] = 10 * g[3] + v(4) /\ g[5] = 10 * g[4] + v(5) /\ g[6] = 10 * g[5] + v(6)
  <2>1. \A k \in 1..6 : k \in Int
    OBVIOUS
  <2>2. 1 - 1 = 0 /\ 2 - 1 = 1 /\ 3 - 1 = 2 /\ 4 - 1 = 3 /\ 5 - 1 = 4 /\ 6 - 1 = 5
    OBVIOUS
  <2>3. /\ g[1] = 10 * g[1 - 1] + v(1) /\ g[2] = 10 * g[2 - 1] + v(2) /\ g[3] = 10 * g[3 - 1] + v(3)
        /\ g[4] = 10 * g[4 - 1] + v(4) /\ g[5] = 10 * g[5 - 1] + v(5) /\ g[6] = 10 * g[6 - 1] + v(6)
    BY <1>6
  <2> QED
    BY <1>4, <2>2, <2>3
<1>8. g[6] = 10 * (10 * (10 * (10 * (10 * (10 * 0 + v(1)) + v(2)) + v(3)) + v(4)) + v(5)) + v(6)
  BY <1>7
<1>9. g[6] = Decimals(v(1), v(2), v(3), v(4), v(5), v(6))
  <2> DEFINE a == v(1)
             b == v(2)
             c == v(3)
             d == v(4)
             e == v(5)
             f == v(6)
  <2>1. a \in Int /\ b \in Int /\ c \in Int /\ d \in Int /\ e \in Int /\ f \in Int
    BY <1>5
  <2>2. g[6] = 10 * (10 * (10 * (10 * (10 * (10 * 0 + a) + b) + c) + d) + e) + f
    BY <1>8
  <2> HIDE DEF a, b, c, d, e, f
  <2>3. g[6] = Decimals(a, b, c, d, e, f)
    BY SMT, <2>1, <2>2 DEF Decimals
  <2> QED
    BY <2>3, Zenon DEF a, b, c, d, e, f
<1> QED
  BY <1>2, <1>4, <1>9 DEF v

\* The digits from some place on are a remainder.
Placed(n, a, b, c, d, e, f) ==
  /\ n = Decimals(0, 0, 0, 0, 0, 0) <=> n % 1000000 = 0
  /\ n = Decimals(a, 0, 0, 0, 0, 0) <=> n % 100000 = 0
  /\ n = Decimals(a, b, 0, 0, 0, 0) <=> n % 10000 = 0
  /\ n = Decimals(a, b, c, 0, 0, 0) <=> n % 1000 = 0
  /\ n = Decimals(a, b, c, d, 0, 0) <=> n % 100 = 0
  /\ n = Decimals(a, b, c, d, e, 0) <=> n % 10 = 0
  /\ n = Decimals(a, b, c, d, e, f) <=> n % 1 = 0

LEMMA Remainders ==
  ASSUME NEW a \in 0..9, NEW b \in 0..9, NEW c \in 0..9, NEW d \in 0..9, NEW e \in 0..9, NEW f \in 0..9,
         NEW n, n = Decimals(a, b, c, d, e, f)
  PROVE  Placed(n, a, b, c, d, e, f)
<1> DEFINE l1 == f
           l2 == 10 * e + f
           l3 == 100 * d + l2
           l4 == 1000 * c + l3
           l5 == 10000 * b + l4
           l6 == 100000 * a + l5
<1>1. l1 \in Nat /\ l1 < 10
  OBVIOUS
<1>2. l2 \in Nat /\ l2 < 100
  OBVIOUS
<1>3. l3 \in Nat /\ l3 < 1000 /\ l3 = 100 * d + l2
  <2> HIDE DEF l2
  <2> QED
    BY SMT, <1>2
<1>4. l4 \in Nat /\ l4 < 10000 /\ l4 = 1000 * c + l3
  <2> HIDE DEF l3
  <2> QED
    BY SMT, <1>3
<1>5. l5 \in Nat /\ l5 < 100000 /\ l5 = 10000 * b + l4
  <2> HIDE DEF l4
  <2> QED
    BY SMT, <1>4
<1>6. l6 \in Nat /\ l6 < 1000000 /\ l6 = 100000 * a + l5
  <2> HIDE DEF l5
  <2> QED
    BY SMT, <1>5
<1>7. n = l6
  BY SMT DEF Decimals
<1>8. /\ Decimals(0, 0, 0, 0, 0, 0) = 0 /\ Decimals(a, 0, 0, 0, 0, 0) = l6 - l5
      /\ Decimals(a, b, 0, 0, 0, 0) = l6 - l4 /\ Decimals(a, b, c, 0, 0, 0) = l6 - l3
      /\ Decimals(a, b, c, d, 0, 0) = l6 - l2 /\ Decimals(a, b, c, d, e, 0) = l6 - l1
  BY SMT DEF Decimals
<1>9. /\ l6 = 10 * (10000 * a + 1000 * b + 100 * c + 10 * d + e) + l1
      /\ l6 = 100 * (1000 * a + 100 * b + 10 * c + d) + l2
      /\ l6 = 1000 * (100 * a + 10 * b + c) + l3
      /\ l6 = 10000 * (10 * a + b) + l4
  BY SMT
<1>10. /\ 10000 * a + 1000 * b + 100 * c + 10 * d + e \in Nat /\ 1000 * a + 100 * b + 10 * c + d \in Nat
       /\ 100 * a + 10 * b + c \in Nat /\ 10 * a + b \in Nat /\ a \in Nat
  BY SMT
<1>11. \A h, l \in Nat : /\ l < 10 => ((10 * h + l) % 10 = 0 <=> l = 0)
                         /\ l < 100 => ((100 * h + l) % 100 = 0 <=> l = 0)
                         /\ l < 1000 => ((1000 * h + l) % 1000 = 0 <=> l = 0)
                         /\ l < 10000 => ((10000 * h + l) % 10000 = 0 <=> l = 0)
                         /\ l < 100000 => ((100000 * h + l) % 100000 = 0 <=> l = 0)
                         /\ l < 1000000 => (l % 1000000 = 0 <=> l = 0)
                         /\ l % 1 = 0
  BY SMT
<1> HIDE DEF l1, l2, l3, l4, l5, l6
<1>12. /\ l6 % 10 = 0 <=> l1 = 0
       /\ l6 % 100 = 0 <=> l2 = 0
       /\ l6 % 1000 = 0 <=> l3 = 0
       /\ l6 % 10000 = 0 <=> l4 = 0
       /\ l6 % 100000 = 0 <=> l5 = 0
       /\ l6 % 1000000 = 0 <=> l6 = 0
       /\ l6 % 1 = 0
  BY SMT, <1>1, <1>2, <1>3, <1>4, <1>5, <1>6, <1>9, <1>10, <1>11
<1> QED
  BY SMT, <1>1, <1>2, <1>3, <1>4, <1>5, <1>6, <1>7, <1>8, <1>12 DEF Placed

\* The first n digits of six, filled up again.
LEMMA FilledUp ==
  ASSUME NEW p \in Seq(Figures), Len(p) = 6, NEW n \in 0..6
  PROVE  /\ SubSeq(p, 1, n) \in Seq(Figures) /\ Len(SubSeq(p, 1, n)) = n
         /\ ljust(SubSeq(p, 1, n), 6) \in Seq(Figures) /\ Len(ljust(SubSeq(p, 1, n), 6)) = 6
         /\ \A k \in 1..6 : ljust(SubSeq(p, 1, n), 6)[k] = IF k <= n THEN p[k] ELSE "0"
<1>1. \A k \in 1..6 : p[k] \in Figures
  BY SixOf
<1> DEFINE b == SubSeq(p, 1, n)
           m == 6 - n
           nul == "0"
           z == [i \in 1..m |-> nul]
           u == b \o z
<1>2. b \in Seq(Figures) /\ Len(b) = n /\ \A k \in 1..n : b[k] = p[k]
  <2>1. n \in Int /\ \A k \in 1..n : k \in 1..6
    OBVIOUS
  <2>2. 1 \in Int /\ n \in Int /\ \A k \in 1..n : p[k] \in Figures
    BY <1>1, <2>1
  <2>3. b \in Seq(Figures) /\ Len(b) = IF 1 <= n THEN n - 1 + 1 ELSE 0
    BY <2>2, SubSeqProperties
  <2>4. \A k \in 1..(n - 1 + 1) : b[k] = p[1 + k - 1]
    BY <2>2, SubSeqProperties
  <2> HIDE DEF b
  <2> QED
    BY <2>2, <2>3, <2>4
<1>3. nul \in Figures
  BY ZeroSays
<1>4. ljust(b, 6) = u
  <2> HIDE DEF b
  <2> QED
    BY <1>2 DEF ljust
<1> HIDE DEF nul
<1>5. z \in Seq(Figures) /\ Len(z) = m /\ \A k \in 1..m : z[k] = nul
  <2>1. m \in Nat
    OBVIOUS
  <2> HIDE DEF m
  <2> QED
    BY <1>3, <2>1
<1> HIDE DEF b, z
<1>6. u \in Seq(Figures) /\ Len(u) = n + m /\ \A k \in 1..(n + m) : u[k] = IF k <= n THEN b[k] ELSE z[k - n]
  <2>1. m \in Nat
    OBVIOUS
  <2> HIDE DEF m
  <2> QED
    BY <1>2, <1>5, ConcatProperties
<1>7. n + m = 6 /\ \A k \in 1..6 : k > n => k - n \in 1..m
  OBVIOUS
<1> HIDE DEF u, m
<1>8. \A k \in 1..6 : u[k] = IF k <= n THEN p[k] ELSE nul
  <2> SUFFICES ASSUME NEW k \in 1..6 PROVE u[k] = IF k <= n THEN p[k] ELSE nul
    OBVIOUS
  <2>1. CASE k <= n
    <3>1. k \in 1..n
      BY <2>1
    <3> QED
      BY <1>2, <1>6, <1>7, <2>1, <3>1
  <2>2. CASE ~(k <= n)
    <3>1. k - n \in 1..m
      BY <1>7, <2>2
    <3> QED
      BY <1>5, <1>6, <1>7, <2>2, <3>1
  <2> QED
    BY <2>1, <2>2
<1> QED
  BY <1>2, <1>4, <1>6, <1>7, <1>8 DEF b, nul

\* How many microseconds the last of n digits counts.
Unit == <<1000000, 100000, 10000, 1000, 100, 10, 1>>

LEMMA MillionIs == Million = 1000000
BY SMT DEF Million

LEMMA BelowMillion == \A n \in Nat : n < Million <=> n < 1000000
BY SMT, MillionIs

LEMMA Micros ==
  Million \in Nat /\ Million > 0 /\ \A us : us \in 0..(Million - 1) <=> us \in Nat /\ us < Million
<1>1. Million \in Nat /\ Million > 0
  BY SMT, MillionIs
<1> QED
  BY <1>1

\* A fraction fits n digits if it has whole units of the last one.
LEMMA FitsIs ==
  ASSUME NEW us \in 0..(Million - 1), NEW n \in 0..6
  PROVE  /\ Digit6(us, n) \in Seq(Figures) /\ Len(Digit6(us, n)) = n
         /\ FitsColumn(us, n) <=> us % Unit[n + 1] = 0
         /\ FitsColumn(us, n) => Says(ljust(Digit6(us, n), 6), us)
<1> DEFINE p == Padded(us, 6)
           b == Digit6(us, n)
           u == ljust(b, 6)
<1>1. us \in Nat /\ us < Million /\ 6 \in Nat
  BY Micros
<1>2. p \in Seq(Figures) /\ Len(p) = 6 /\ Number(p) = us
  <2>1. us < 1000000
    BY SMT, <1>1, BelowMillion
  <2>2. Len(Decimal(us)) <= 6
    BY SMT, <1>1, <2>1, DecimalLength
  <2> QED
    BY <1>1, <2>2, PaddedIs
<1> HIDE DEF p
<1>3. /\ b \in Seq(Figures) /\ Len(b) = n /\ u \in Seq(Figures) /\ Len(u) = 6
      /\ \A k \in 1..6 : u[k] = IF k <= n THEN p[k] ELSE "0"
  <2>1. b = SubSeq(p, 1, n)
    BY DEF Digit6, p
  <2> HIDE DEF b
  <2> QED
    BY <1>2, <2>1, FilledUp
<1> HIDE DEF b, u
<1>4. FitsColumn(us, n) <=> us = Number(u)
  <2>1. Len(u) >= 1
    BY <1>3
  <2>2. int(u) = Number(u)
    BY <1>3, <2>1, IntOfFigures
  <2>3. FitsColumn(us, n) <=> us = int(u)
    BY DEF FitsColumn, u, b
  <2> QED
    BY <2>2, <2>3
<1>5. FitsColumn(us, n) => Says(u, us)
  BY <1>3, <1>4 DEF Says
<1> DEFINE v(k) == Value(p[k])
           w(k) == IF k <= n THEN v(k) ELSE 0
<1>6. v(1) \in 0..9 /\ v(2) \in 0..9 /\ v(3) \in 0..9 /\ v(4) \in 0..9 /\ v(5) \in 0..9 /\ v(6) \in 0..9
  <2>1. \A k \in 1..6 : v(k) \in 0..9
    BY <1>2, SixDigits
  <2> HIDE DEF v
  <2> QED
    BY <2>1
<1>7. us = Decimals(v(1), v(2), v(3), v(4), v(5), v(6))
  BY <1>2, SixDigits
<1>8. Number(u) = Decimals(w(1), w(2), w(3), w(4), w(5), w(6))
  <2>1. \A k \in 1..6 : Value(u[k]) = w(k)
    BY <1>3, ZeroSays
  <2>2. Number(u) = Decimals(Value(u[1]), Value(u[2]), Value(u[3]), Value(u[4]), Value(u[5]), Value(u[6]))
    BY <1>3, SixDigits
  <2> HIDE DEF w
  <2>3. /\ Value(u[1]) = w(1) /\ Value(u[2]) = w(2) /\ Value(u[3]) = w(3)
        /\ Value(u[4]) = w(4) /\ Value(u[5]) = w(5) /\ Value(u[6]) = w(6)
    BY <2>1
  <2> QED
    BY <2>2, <2>3
<1> HIDE DEF v
<1>9. Placed(us, v(1), v(2), v(3), v(4), v(5), v(6))
  BY <1>6, <1>7, Remainders
<1>10. us = Number(u) <=> us % Unit[n + 1] = 0
  <2>1. CASE n = 0
    <3>1. Unit[n + 1] = 1000000 /\ Number(u) = Decimals(0, 0, 0, 0, 0, 0)
      BY SMT, <1>8, <2>1 DEF Unit
    <3> QED
      BY SMT, <1>9, <3>1 DEF Placed
  <2>2. CASE n = 1
    <3>1. Unit[n + 1] = 100000 /\ Number(u) = Decimals(v(1), 0, 0, 0, 0, 0)
      BY SMT, <1>8, <2>2 DEF Unit
    <3> QED
      BY SMT, <1>9, <3>1 DEF Placed
  <2>3. CASE n = 2
    <3>1. Unit[n + 1] = 10000 /\ Number(u) = Decimals(v(1), v(2), 0, 0, 0, 0)
      BY SMT, <1>8, <2>3 DEF Unit
    <3> QED
      BY SMT, <1>9, <3>1 DEF Placed
  <2>4. CASE n = 3
    <3>1. Unit[n + 1] = 1000 /\ Number(u) = Decimals(v(1), v(2), v(3), 0, 0, 0)
      BY SMT, <1>8, <2>4 DEF Unit
    <3> QED
      BY SMT, <1>9, <3>1 DEF Placed
  <2>5. CASE n = 4
    <3>1. Unit[n + 1] = 100 /\ Number(u) = Decimals(v(1), v(2), v(3), v(4), 0, 0)
      BY SMT, <1>8, <2>5 DEF Unit
    <3> QED
      BY SMT, <1>9, <3>1 DEF Placed
  <2>6. CASE n = 5
    <3>1. Unit[n + 1] = 10 /\ Number(u) = Decimals(v(1), v(2), v(3), v(4), v(5), 0)
      BY SMT, <1>8, <2>6 DEF Unit
    <3> QED
      BY SMT, <1>9, <3>1 DEF Placed
  <2>7. CASE n = 6
    <3>1. Unit[n + 1] = 1 /\ Number(u) = Decimals(v(1), v(2), v(3), v(4), v(5), v(6))
      BY SMT, <1>8, <2>7 DEF Unit
    <3> QED
      BY SMT, <1>9, <3>1 DEF Placed
  <2> QED
    BY SMT, <2>1, <2>2, <2>3, <2>4, <2>5, <2>6, <2>7
<1> QED
  BY <1>3, <1>4, <1>5, <1>10 DEF b, u

LEMMA Joined ==
  ASSUME NEW C, NEW u \in Seq(C), NEW v \in Seq(C), NEW w \in Seq(C), Len(w) = Len(u) + Len(v),
         \A i \in 1..Len(u) : w[i] = u[i], \A i \in 1..Len(v) : w[Len(u) + i] = v[i]
  PROVE  u \o v = w
<1> DEFINE x == u \o v
           m == Len(u)
           n == Len(v)
<1>1. m \in Nat /\ n \in Nat /\ Len(w) = m + n
  OBVIOUS
<1>2. x \in Seq(C) /\ Len(x) = m + n /\ \A i \in 1..(m + n) : x[i] = IF i <= m THEN u[i] ELSE v[i - m]
  BY ConcatProperties
<1>3. (\A i \in 1..m : w[i] = u[i]) /\ \A i \in 1..n : w[m + i] = v[i]
  OBVIOUS
<1> HIDE DEF x, m, n
<1>4. \A i \in 1..(m + n) : x[i] = w[i]
  <2> SUFFICES ASSUME NEW i \in 1..(m + n) PROVE x[i] = w[i]
    OBVIOUS
  <2>1. CASE i <= m
    <3>1. i \in 1..m
      BY <1>1, <2>1
    <3> QED
      BY <1>2, <1>3, <2>1, <3>1
  <2>2. CASE ~(i <= m)
    <3> DEFINE k == i - m
    <3>1. k \in 1..n /\ m + k = i
      BY <1>1, <2>2
    <3>2. x[i] = v[k]
      BY <1>2, <2>2
    <3> HIDE DEF k
    <3>3. w[m + k] = v[k]
      BY <1>3, <3>1
    <3> QED
      BY <3>1, <3>2, <3>3
  <2> QED
    BY <2>1, <2>2
<1>5. x = w
  BY <1>1, <1>2, <1>4, SeqEqual
<1> QED
  BY <1>5 DEF x

LEMMA FourInARow ==
  ASSUME NEW a, NEW b, NEW c, NEW d
  PROVE  <<a, b>> \o <<c, d>> = <<a, b, c, d>>
<1> DEFINE C == {a, b, c, d}
           u == <<a, b>>
           v == <<c, d>>
           w == <<a, b, c, d>>
<1>1. a \in C /\ b \in C /\ c \in C /\ d \in C
  OBVIOUS
<1> HIDE DEF C
<1>2. /\ u \in Seq(C) /\ Len(u) = 2 /\ u[1] = a /\ u[2] = b
      /\ v \in Seq(C) /\ Len(v) = 2 /\ v[1] = c /\ v[2] = d
      /\ w \in Seq(C) /\ Len(w) = 4 /\ w[1] = a /\ w[2] = b /\ w[3] = c /\ w[4] = d
  BY <1>1
<1> HIDE DEF u, v, w
<1>3. /\ Len(w) = Len(u) + Len(v)
      /\ \A i \in 1..Len(u) : w[i] = u[i]
      /\ \A i \in 1..Len(v) : w[Len(u) + i] = v[i]
  BY <1>2
<1>4. u \o v = w
  BY <1>2, <1>3, Joined, Zenon
<1> QED
  BY <1>4 DEF u, v, w

-----------------------------------------------------------------------------
(* What Clock reads                                                        *)

ClockText(h, m, x) == h \o <<":">> \o (m \o <<":">> \o x)

\* x says seconds and microseconds, the latter as they are or left out.
SaysSeconds(x, seconds, us) ==
  /\ x \in Seq(Glyphs) /\ ~Occurs(":", x) /\ ~Occurs(" ", x) /\ ~(Len(SplitAll(x, ".")) > 2)
  /\ \E w, f : Fraction(x) = <<w, f>> /\ Says(w, seconds) /\ Says(f, us)

LEMMA ClockIs ==
  ASSUME NEW h \in Seq(Glyphs), ~Occurs(":", h), IsInt(h), NEW m, NEW minutes, Says(m, minutes),
         NEW x, NEW seconds, NEW us, SaysSeconds(x, seconds, us)
  PROVE  Clock(ClockText(h, m, x)) = <<int(h), minutes, seconds, us>>
<1> DEFINE ch == ":"
           t == ClockText(h, m, x)
<1>1. ch \in Glyphs /\ ch \in Signs /\ ~Occurs(ch, h) /\ ~Occurs(ch, x) /\ x \in Seq(Glyphs)
  BY GlyphTexts DEF SaysSeconds
<1>2. m \in Seq(Glyphs) /\ ~Occurs(ch, m) /\ IsInt(m) /\ int(m) = minutes
  BY <1>1, Said
<1>3. t = h \o <<ch>> \o (m \o <<ch>> \o x)
  BY Zenon DEF ClockText
<1>4. SplitAll(t, ":") = SplitAll(t, ch)
  OBVIOUS
<1> HIDE DEF ch, t
<1>5. SplitAll(t, ch) = <<h, m, x>>
  BY <1>1, <1>2, <1>3, ThreeFields
<1>6. PICK w, f : Fraction(x) = <<w, f>> /\ Says(w, seconds) /\ Says(f, us)
  BY Zenon DEF SaysSeconds
<1>7. IsInt(w) /\ IsInt(f) /\ int(w) = seconds /\ int(f) = us
  BY <1>6, Said, Zenon
<1> DEFINE hms == SplitAll(t, ":")
           four == <<h, m, w, f>>
           parts == <<hms[1], hms[2]>> \o Fraction(hms[3])
<1>8. hms[1] = h /\ hms[2] = m /\ hms[3] = x /\ Len(hms) = 3 /\ hms[Len(hms)] = x
  <2>1. hms = <<h, m, x>>
    BY <1>4, <1>5
  <2> HIDE DEF hms
  <2> QED
    BY <2>1
<1>9. ~(Len(SplitAll(hms[Len(hms)], ".")) > 2)
  <2>1. ~(Len(SplitAll(x, ".")) > 2)
    BY DEF SaysSeconds
  <2> QED
    BY <1>8, <2>1, Zenon
<1>10. parts = four
  <2>1. <<hms[1], hms[2]>> \o Fraction(hms[3]) = <<h, m>> \o <<w, f>>
    BY <1>6, <1>8, Zenon
  <2> QED
    BY <2>1, FourInARow, Zenon
<1>11. AllInts(four) /\ Ints(four) = <<int(h), int(m), int(w), int(f)>>
  <2>1. DOMAIN four = 1..4 /\ four[1] = h /\ four[2] = m /\ four[3] = w /\ four[4] = f
    OBVIOUS
  <2> HIDE DEF four
  <2>2. \A i \in DOMAIN four : IsInt(four[i])
    <3>1. IsInt(four[1]) /\ IsInt(four[2]) /\ IsInt(four[3]) /\ IsInt(four[4])
      BY <1>2, <1>7, <2>1
    <3> QED
      BY <2>1, <3>1
  <2>3. Ints(four) = [i \in 1..4 |-> int(four[i])]
    BY <2>1 DEF Ints
  <2>4. [i \in 1..4 |-> int(four[i])] = <<int(h), int(m), int(w), int(f)>>
    BY <2>1
  <2> QED
    BY <2>2, <2>3, <2>4 DEF AllInts
<1>12. ~(Len(hms) # 3 \/ Len(SplitAll(hms[Len(hms)], ".")) > 2)
  BY <1>8, <1>9, Zenon
<1>13. Clock(t) = <<int(h), int(m), int(w), int(f)>>
  <2>1. Clock(t) = IF Len(hms) # 3 \/ Len(SplitAll(hms[Len(hms)], ".")) > 2 THEN <<>>
                   ELSE IF AllInts(parts) THEN Ints(parts) ELSE <<>>
    BY Zenon DEF Clock
  <2> HIDE DEF hms, parts, four
  <2> QED
    BY <1>10, <1>11, <1>12, <2>1, Zenon
<1> QED
  BY <1>2, <1>7, <1>13 DEF t

LEMMA NoSigns ==
  ASSUME NEW b \in Seq(Figures)
  PROVE  \A ch \in Signs : ~Occurs(ch, b)
<1> SUFFICES ASSUME NEW ch \in Signs, Occurs(ch, b) PROVE FALSE
  OBVIOUS
<1>1. \A i \in DOMAIN b : b[i] \in Figures
  OBVIOUS
<1>2. ch \in Figures
  BY <1>1, Zenon DEF Occurs
<1> QED
  BY <1>2, FigureIs

\* Two or three digits are seconds without a fraction; with the digits of a
\* column that the fraction fits, they are exact.
LEMMA SecondsSaid ==
  ASSUME NEW s, NEW seconds, Says(s, seconds)
  PROVE  /\ SaysSeconds(s, seconds, 0)
         /\ \A us \in 0..(Million - 1), n \in 0..6 :
              FitsColumn(us, n) => SaysSeconds(s \o <<".">> \o Digit6(us, n), seconds, us)
<1>1. s \in Seq(Glyphs) /\ \A ch \in Signs : ~Occurs(ch, s)
  BY Said
<1>2. ~Occurs(".", s) /\ ~Occurs(":", s) /\ ~Occurs(" ", s)
  BY <1>1, GlyphTexts
<1>3. SaysSeconds(s, seconds, 0)
  <2> DEFINE w == s
             f == <<"0">>
             rows == SplitAll(s, ".")
  <2>1. Fraction(s) = <<w, f>> /\ Says(w, seconds) /\ Says(f, 0) /\ rows = <<s>>
    BY <1>1, <1>2, FractionNone, ZeroSays
  <2>2. ~(Len(rows) > 2)
    <3> HIDE DEF rows
    <3> QED
      BY <2>1
  <2> HIDE DEF w, f
  <2> QED
    BY <1>1, <1>2, <2>1, <2>2, Zenon DEF SaysSeconds
<1>4. ASSUME NEW us \in 0..(Million - 1), NEW n \in 0..6, FitsColumn(us, n)
      PROVE  SaysSeconds(s \o <<".">> \o Digit6(us, n), seconds, us)
  <2> DEFINE b == Digit6(us, n)
             f == ljust(b, 6)
             dot == "."
             x == s \o <<dot>> \o b
             rows == SplitAll(x, ".")
  <2>1. b \in Seq(Figures) /\ Says(f, us)
    BY <1>4, FitsIs, Zenon
  <2> HIDE DEF b
  <2>2. Fraction(x) = <<s, f>> /\ rows = <<s, b>>
    BY <1>1, <1>2, <2>1, FractionSome, Zenon
  <2>3. dot \in Glyphs /\ b \in Seq(Glyphs) /\ dot = "."
    BY <2>1, GlyphTexts
  <2> HIDE DEF dot
  <2>4. <<dot>> \in Seq(Glyphs) /\ s \o <<dot>> \in Seq(Glyphs)
    BY <1>1, <2>3
  <2>5. x \in Seq(Glyphs)
    BY <1>1, <2>3, <2>4, Regroup
  <2>6. ASSUME NEW ch \in {":", " "} PROVE ~Occurs(ch, x)
    <3>1. ch \in Signs /\ ch # "."
      BY GlyphTexts
    <3>2. ~Occurs(ch, s)
      BY <1>1, <3>1
    <3>3. ~Occurs(ch, <<dot>>)
      BY <2>3, <3>1, OccursAlone, Zenon
    <3>4. ~Occurs(ch, b)
      BY <2>1, <3>1, NoSigns, Zenon
    <3>5. ~Occurs(ch, s \o <<dot>>)
      BY <1>1, <2>4, <3>2, <3>3, OccursIn
    <3> QED
      BY <2>3, <2>4, <3>4, <3>5, OccursIn
  <2>7. ~(Len(rows) > 2)
    <3> HIDE DEF rows, x
    <3> QED
      BY <2>2
  <2>8. SaysSeconds(x, seconds, us)
    <3> HIDE DEF x, f
    <3>1. ~Occurs(":", x) /\ ~Occurs(" ", x)
      BY <2>6
    <3>2. ~(Len(SplitAll(x, ".")) > 2)
      BY <2>7
    <3>3. \E w, g : Fraction(x) = <<w, g>> /\ Says(w, seconds) /\ Says(g, us)
      BY <2>1, <2>2, Zenon
    <3> QED
      BY <2>5, <3>1, <3>2, <3>3, Zenon DEF SaysSeconds
  <2> QED
    BY <2>3, <2>8, Zenon DEF x, b
<1> QED
  BY <1>3, <1>4
-----------------------------------------------------------------------------
(* Durations                                                               *)

LEMMA MillionRests ==
  \A k \in Int : /\ (Million - k) % Million = (1000000 - k) % 1000000
                 /\ k \div Million = k \div 1000000 /\ k % Million = k % 1000000
BY SMT DEF Million

\* The microseconds of a duration with the other sign.
LEMMA Opposite ==
  ASSUME NEW us \in 0..(Million - 1), NEW o, o = (Million - us) % Million
  PROVE  /\ o \in 0..(Million - 1) /\ (o > 0 <=> us > 0) /\ us = (Million - o) % Million
         /\ us \div Million = 0 /\ us % Million = us
         /\ \A n \in 0..6 : us % Unit[n + 1] = 0 => o % Unit[n + 1] = 0
         /\ us % Unit[0 + 1] = 0 => us = 0
<1>1. us \in Nat /\ us < 1000000
  BY SMT, Micros, BelowMillion
<1>2. o = (1000000 - us) % 1000000
  BY SMT, <1>1, MillionRests
<1>3. us > 0 => o = 1000000 - us
  BY SMT, <1>1, <1>2
<1>4. us = 0 => o = 0
  BY SMT, <1>1, <1>2
<1>5. o \in Nat /\ o < 1000000
  BY SMT, <1>1, <1>3, <1>4
<1>6. o > 0 <=> us > 0
  BY SMT, <1>1, <1>3, <1>4
<1>7. us = (1000000 - o) % 1000000 /\ us \div 1000000 = 0 /\ us % 1000000 = us
  BY SMT, <1>1, <1>3, <1>4
<1>8. o \in 0..(Million - 1)
  BY SMT, <1>5, Micros, BelowMillion
<1>9. us = (Million - o) % Million /\ us \div Million = 0 /\ us % Million = us
  BY SMT, <1>1, <1>5, <1>7, MillionRests
<1>10. ASSUME NEW n \in 0..6, us % Unit[n + 1] = 0 PROVE o % Unit[n + 1] = 0
  <2>1. CASE us = 0
    BY SMT, <1>4, <1>10, <2>1
  <2>2. CASE us > 0
    <3>1. o = 1000000 - us
      BY SMT, <1>3, <2>2
    <3>2. CASE n = 0
      <4>1. Unit[n + 1] = 1000000
        BY SMT, <3>2 DEF Unit
      <4> QED
        BY SMT, <1>1, <1>10, <3>1, <4>1
    <3>3. CASE n = 1
      <4>1. Unit[n + 1] = 100000
        BY SMT, <3>3 DEF Unit
      <4> QED
        BY SMT, <1>1, <1>10, <3>1, <4>1
    <3>4. CASE n = 2
      <4>1. Unit[n + 1] = 10000
        BY SMT, <3>4 DEF Unit
      <4> QED
        BY SMT, <1>1, <1>10, <3>1, <4>1
    <3>5. CASE n = 3
      <4>1. Unit[n + 1] = 1000
        BY SMT, <3>5 DEF Unit
      <4> QED
        BY SMT, <1>1, <1>10, <3>1, <4>1
    <3>6. CASE n = 4
      <4>1. Unit[n + 1] = 100
        BY SMT, <3>6 DEF Unit
      <4> QED
        BY SMT, <1>1, <1>10, <3>1, <4>1
    <3>7. CASE n = 5
      <4>1. Unit[n + 1] = 10
        BY SMT, <3>7 DEF Unit
      <4> QED
        BY SMT, <1>1, <1>10, <3>1, <4>1
    <3>8. CASE n = 6
      <4>1. Unit[n + 1] = 1
        BY SMT, <3>8 DEF Unit
      <4> QED
        BY SMT, <1>1, <1>10, <3>1, <4>1
    <3> QED
      BY SMT, <3>2, <3>3, <3>4, <3>5, <3>6, <3>7, <3>8
  <2> QED
    BY SMT, <1>1, <2>1, <2>2
<1>11. us % Unit[0 + 1] = 0 => us = 0
  <2>1. Unit[0 + 1] = 1000000
    BY SMT DEF Unit
  <2> QED
    BY SMT, <1>1, <2>1
<1> QED
  BY <1>8, <1>9, <1>10, <1>11, <1>6, Zenon

\* A clock is a text of fields with a colon between them.
SameClock(h, c, m, s, f) == h \o c \o m \o c \o s \o f = h \o c \o (m \o c \o (s \o f))

LEMMA ClockPut ==
  ASSUME NEW C, NEW h \in Seq(C), NEW c \in Seq(C), NEW m \in Seq(C), NEW s \in Seq(C), NEW f \in Seq(C)
  PROVE  SameClock(h, c, m, s, f)
<1> DEFINE p == h \o c
           q == m \o c
           x == s \o f
           r == p \o q
<1>1. p \in Seq(C) /\ q \in Seq(C) /\ x \in Seq(C)
  OBVIOUS
<1> HIDE DEF p
<1>2. (p \o m) \o c = p \o (m \o c)
  BY <1>1, SMTT(30)
<1> HIDE DEF q
<1>3. r \in Seq(C)
  BY <1>1, Regroup
<1> HIDE DEF r
<1>4. (r \o s) \o f = r \o (s \o f)
  BY <1>3, SMTT(30)
<1> HIDE DEF x
<1>5. (p \o q) \o x = p \o (q \o x)
  BY <1>1, SMTT(30)
<1> QED
  BY <1>2, <1>4, <1>5, Zenon DEF SameClock, p, q, r, x

LEMMA HoursShown ==
  ASSUME NEW q \in Nat, NEW k \in Nat, NEW neg \in BOOLEAN, NEW h,
         h = (IF neg THEN <<"-">> ELSE <<>>) \o Padded(q, k)
  PROVE  h \in Seq(Glyphs) /\ ~Occurs(":", h) /\ IsInt(h) /\ int(h) = IF neg THEN -q ELSE q
<1> DEFINE t == Padded(q, k)
           ch == "-"
<1>1. Says(t, q)
  BY PaddedSays
<1> HIDE DEF t
<1>2. t \in Seq(Figures) /\ t \in Seq(Glyphs) /\ Len(t) >= 1 /\ Number(t) = q /\ IsInt(t) /\ int(t) = q
  BY <1>1, Said, Zenon DEF Says
<1>3. ":" \in Signs /\ ~Occurs(":", t)
  BY <1>2, NoSigns, GlyphTexts
<1>4. CASE ~neg
  <2>1. h = <<>> \o t
    BY <1>4, Zenon DEF t
  <2>2. h = t
    BY <1>2, <2>1
  <2> QED
    BY <1>2, <1>3, <1>4, <2>2, Zenon
<1>5. CASE neg
  <2>1. h = <<"-">> \o t
    BY <1>5, Zenon DEF t
  <2>2. IsInt(h) /\ int(h) = -q
    BY <1>2, <2>1, IntOfDash, Zenon
  <2>3. ch \in Glyphs /\ ch # ":" /\ ch = "-"
    BY GlyphTexts
  <2> HIDE DEF ch
  <2>4. <<ch>> \in Seq(Glyphs) /\ ~Occurs(":", <<ch>>)
    <3>1. <<ch>> \in Seq(Glyphs)
      BY <2>3
    <3>2. ~Occurs(":", <<ch>>)
      BY <2>3, OccursAlone
    <3> QED
      BY <3>1, <3>2
  <2>5. <<ch>> \o t \in Seq(Glyphs) /\ ~Occurs(":", <<ch>> \o t)
    BY <1>2, <1>3, <2>4, OccursIn, Regroup
  <2> QED
    BY <1>5, <2>1, <2>2, <2>3, <2>5, Zenon
<1> QED
  BY <1>4, <1>5

SecondsOf(c) == Abs(c[1]) * 3600 + c[2] * 60 + c[3]

LEMMA FromClock ==
  ASSUME NEW t, NEW c, Clock(t) = c, c # <<>>
  PROVE  TimeDelta_or_None(t) = IF c[1] < 0 THEN Negated(timedelta(SecondsOf(c), c[4])) ELSE timedelta(SecondsOf(c), c[4])
BY SMT DEF TimeDelta_or_None, SecondsOf

LEMMA DurationRead ==
  ASSUME NEW t, NEW h \in Int, NEW m \in Nat, NEW s \in Nat, NEW us \in 0..(Million - 1),
         Clock(t) = <<h, m, s, us>>, NEW sum, sum = SecondsOf(<<h, m, s>>)
  PROVE  TimeDelta_or_None(t) = IF h < 0 THEN Negated(<<"timedelta", sum, us>>) ELSE <<"timedelta", sum, us>>
<1> DEFINE c == <<h, m, s, us>>
           z == SecondsOf(c)
           td == timedelta(z, c[4])
<1>1. c # <<>> /\ c[1] = h /\ c[2] = m /\ c[3] = s /\ c[4] = us
  OBVIOUS
<1>2. Clock(t) = c
  OBVIOUS
<1> HIDE DEF c
<1>3. TimeDelta_or_None(t) = IF c[1] < 0 THEN Negated(td) ELSE td
  BY <1>1, <1>2, FromClock
<1>4. us \div Million = 0 /\ us % Million = us
  BY Opposite
<1>5. z = sum /\ sum + 0 = sum
  <2>1. Abs(h) \in Nat
    BY DEF Abs
  <2>2. SecondsOf(c) = Abs(h) * 3600 + m * 60 + s
    BY SMT, <1>1 DEF SecondsOf
  <2>3. sum = Abs(h) * 3600 + m * 60 + s
    <3> DEFINE d == <<h, m, s>>
    <3>1. d[1] = h /\ d[2] = m /\ d[3] = s
      OBVIOUS
    <3> HIDE DEF d
    <3> QED
      BY SMT, <3>1 DEF SecondsOf, d
  <2> QED
    BY SMT, <2>1, <2>2, <2>3
<1> HIDE DEF z
<1>6. td = <<"timedelta", z + us \div Million, us % Million>>
  BY SMT, <1>1 DEF timedelta
<1>7. td = <<"timedelta", sum, us>>
  BY SMT, <1>4, <1>5, <1>6
<1> HIDE DEF td
<1> QED
  BY SMT, <1>1, <1>3, <1>7

Width(S)     == IF S < 360000 THEN 2 ELSE 3
HoursIn(S)   == S \div 3600
MinutesIn(S) == (S \div 60) % 60
SecondsIn(S) == S % 60
\* An hour at least.
Hourly(S)    == S >= 3600
\* A duration between minus one hour and zero.
Unsigned(td) == td[2] \in -3600..-1 /\ td # <<"timedelta", -3600, 0>>

LEMMA PartsOf ==
  ASSUME NEW S \in Nat
  PROVE  /\ HoursIn(S) \in Nat /\ MinutesIn(S) \in Nat /\ SecondsIn(S) \in Nat
         /\ S = SecondsOf(<<HoursIn(S), MinutesIn(S), SecondsIn(S)>>)
         /\ S = SecondsOf(<<-HoursIn(S), MinutesIn(S), SecondsIn(S)>>)
         /\ HoursIn(S) > 0 <=> Hourly(S)
<1> DEFINE q == HoursIn(S)
           m == MinutesIn(S)
           s == SecondsIn(S)
<1>1. q \in Nat /\ m \in Nat /\ s \in Nat /\ S = q * 3600 + m * 60 + s /\ (q > 0 <=> Hourly(S))
  BY SMT DEF HoursIn, MinutesIn, SecondsIn, Hourly
<1> HIDE DEF q, m, s
<1>2. Abs(q) = q /\ Abs(-q) = q
  BY <1>1 DEF Abs
<1>3. SecondsOf(<<q, m, s>>) = q * 3600 + m * 60 + s
  <2> DEFINE c == <<q, m, s>>
  <2>1. c[1] = q /\ c[2] = m /\ c[3] = s
    OBVIOUS
  <2> HIDE DEF c
  <2> QED
    BY SMT, <1>2, <2>1 DEF SecondsOf, c
<1>4. SecondsOf(<<-q, m, s>>) = q * 3600 + m * 60 + s
  <2> DEFINE c == <<-q, m, s>>
  <2>1. c[1] = -q /\ c[2] = m /\ c[3] = s
    OBVIOUS
  <2> HIDE DEF c
  <2> QED
    BY SMT, <1>2, <2>1 DEF SecondsOf, c
<1> QED
  BY SMT, <1>1, <1>3, <1>4 DEF q, m, s

LEMMA ShowTimeIs ==
  ASSUME NEW td, NEW n, NEW abs, abs = IF td[2] < 0 THEN Negated(td) ELSE td
  PROVE  ShowTime(td, n) = (IF td[2] < 0 THEN <<"-">> ELSE <<>>) \o Padded(HoursIn(abs[2]), Width(abs[2])) \o <<":">> \o
           Padded(MinutesIn(abs[2]), 2) \o <<":">> \o Padded(SecondsIn(abs[2]), 2) \o
           (IF n = 0 THEN <<>> ELSE <<".">> \o Digit6(abs[3], n))
BY SMT DEF ShowTime, Width, HoursIn, MinutesIn, SecondsIn

\* The clock of a text that the server prints.
LEMMA TimeClock ==
  ASSUME NEW td, NEW n \in 0..6, NEW neg \in BOOLEAN, neg <=> td[2] < 0,
         NEW abs, abs = IF td[2] < 0 THEN Negated(td) ELSE td,
         NEW S \in Nat, NEW U \in 0..(Million - 1), abs[2] = S, abs[3] = U, FitsColumn(U, n), n = 0 => U = 0
  PROVE  Clock(ShowTime(td, n)) =
           <<IF neg THEN -HoursIn(S) ELSE HoursIn(S), MinutesIn(S), SecondsIn(S), U>>
<1> DEFINE q == HoursIn(S)
           k == Width(S)
           mm == MinutesIn(S)
           ss == SecondsIn(S)
           sign == IF neg THEN <<"-">> ELSE <<>>
           H == sign \o Padded(q, k)
           M == Padded(mm, 2)
           W == Padded(ss, 2)
           c == <<":">>
           F == IF n = 0 THEN <<>> ELSE <<".">> \o Digit6(U, n)
           x == W \o F
           t == ShowTime(td, n)
           I == IF neg THEN -q ELSE q
<1>1. t = H \o c \o M \o c \o W \o F
  <2>1. t = (IF td[2] < 0 THEN <<"-">> ELSE <<>>) \o Padded(HoursIn(abs[2]), Width(abs[2])) \o <<":">> \o
            Padded(MinutesIn(abs[2]), 2) \o <<":">> \o Padded(SecondsIn(abs[2]), 2) \o
            (IF n = 0 THEN <<>> ELSE <<".">> \o Digit6(abs[3], n))
    BY ShowTimeIs, Zenon
  <2> QED
    BY <2>1, Zenon
<1>2. q \in Nat /\ mm \in Nat /\ ss \in Nat
  BY PartsOf
<1>3. H \in Seq(Glyphs) /\ ~Occurs(":", H) /\ IsInt(H) /\ int(H) = I
  <2>1. k \in Nat
    BY SMT DEF Width
  <2> HIDE DEF q, k
  <2> QED
    BY <1>2, <2>1, HoursShown, Zenon
<1>4. Says(M, mm) /\ Says(W, ss)
  <2>1. 2 \in Nat
    OBVIOUS
  <2> HIDE DEF mm, ss
  <2> QED
    BY <1>2, <2>1, PaddedSays
<1>5. SaysSeconds(x, ss, U) /\ F \in Seq(Glyphs)
  <2>1. W \in Seq(Glyphs)
    BY <1>4, Said, Zenon
  <2>2. CASE n = 0
    <3>1. F = <<>> /\ U = 0
      BY <2>2, Zenon
    <3>2. F \in Seq(Glyphs) /\ x = W
      <4> HIDE DEF F, W
      <4> QED
        BY <2>1, <3>1
    <3>3. SaysSeconds(W, ss, 0)
      BY <1>4, SecondsSaid, Zenon
    <3> QED
      BY <3>1, <3>2, <3>3, Zenon
  <2>3. CASE n # 0
    <3> DEFINE b == Digit6(U, n)
               dot == "."
    <3>1. F = <<dot>> \o b
      BY <2>3, Zenon
    <3>2. b \in Seq(Glyphs)
      <4>1. b \in Seq(Figures)
        BY FitsIs, Zenon
      <4> QED
        BY <4>1, GlyphTexts
    <3>3. dot \in Glyphs /\ dot = "."
      BY GlyphTexts
    <3> HIDE DEF dot, b, W
    <3>4. <<dot>> \in Seq(Glyphs)
      BY <3>3
    <3> DEFINE d == <<dot>>
    <3> HIDE DEF d
    <3>5. d \o b \in Seq(Glyphs) /\ W \o (d \o b) = (W \o d) \o b
      BY <2>1, <3>2, <3>4 DEF d
    <3>6. SaysSeconds(W \o <<".">> \o Digit6(U, n), ss, U)
      BY <1>4, SecondsSaid, Zenon
    <3>7. x = W \o <<".">> \o Digit6(U, n)
      BY <3>1, <3>3, <3>5, Zenon DEF d, b
    <3>8. F \in Seq(Glyphs)
      BY <3>1, <3>5, Zenon DEF d
    <3> QED
      BY <3>6, <3>7, <3>8, Zenon
  <2> QED
    BY <2>2, <2>3, Zenon
<1>6. t = ClockText(H, M, x)
  <2>1. M \in Seq(Glyphs) /\ W \in Seq(Glyphs)
    BY <1>4, Said, Zenon
  <2>2. c \in Seq(Glyphs)
    <3> DEFINE ch == ":"
    <3>1. ch \in Glyphs
      BY GlyphTexts
    <3> HIDE DEF ch
    <3>2. <<ch>> \in Seq(Glyphs)
      BY <3>1
    <3> QED
      BY <3>2 DEF ch
  <2> HIDE DEF H, M, W, F, c
  <2>3. H \o c \o M \o c \o W \o F = H \o c \o (M \o c \o (W \o F))
    <3>1. SameClock(H, c, M, W, F)
      BY <1>3, <1>5, <2>1, <2>2, ClockPut
    <3> QED
      BY <3>1, Zenon DEF SameClock
  <2> HIDE DEF t
  <2>4. t = H \o c \o (M \o c \o x)
    BY <1>1, <2>3, Zenon
  <2> QED
    BY <2>4, Zenon DEF ClockText, c
<1>7. Clock(t) = <<I, mm, ss, U>>
  <2> HIDE DEF H, M, x, t, I, mm, ss
  <2>1. Clock(ClockText(H, M, x)) = <<int(H), mm, ss, U>>
    BY <1>3, <1>4, <1>5, ClockIs
  <2> QED
    BY <1>3, <1>6, <2>1, Zenon
<1> QED
  BY <1>7

\* The text of a column is read as it is, without the sign where no hours carry it.
LEMMA TimeShown ==
  ASSUME NEW s \in Int, NEW us \in 0..(Million - 1), NEW n \in 0..6, FitsColumn(us, n),
         NEW td, td = <<"timedelta", s, us>>
  PROVE  TimeDelta_or_None(ShowTime(td, n)) =
           IF Unsigned(td) THEN Negated(td) ELSE td
<1> DEFINE neg == s < 0
           some == IF us > 0 THEN 1 ELSE 0
           o == (Million - us) % Million
           S == IF neg THEN -s - some ELSE s
           U == IF neg THEN o ELSE us
           one == <<"timedelta", S, U>>
           abs == IF td[2] < 0 THEN Negated(td) ELSE td
<1>1. td[2] = s /\ td[3] = us /\ us \in Nat
  <2>1. us \in Nat
    BY Micros
  <2> QED
    BY <2>1
<1>2. /\ o \in 0..(Million - 1) /\ (o > 0 <=> us > 0) /\ us = (Million - o) % Million
      /\ \A k \in 0..6 : us % Unit[k + 1] = 0 => o % Unit[k + 1] = 0
      /\ us % Unit[0 + 1] = 0 => us = 0
  BY Opposite
<1>3. S \in Nat /\ U \in 0..(Million - 1)
  <2> HIDE DEF o
  <2> QED
    BY <1>1, <1>2
<1>4. Negated(td) = <<"timedelta", -s - some, o>>
  BY <1>1, Zenon DEF Negated
<1>5. abs = one
  BY <1>1, <1>4, Zenon
<1>6. abs[2] = S /\ abs[3] = U
  <2> HIDE DEF abs, S, U
  <2> QED
    BY <1>5
<1>7. FitsColumn(U, n)
  <2>1. us % Unit[n + 1] = 0
    BY FitsIs
  <2>2. o % Unit[n + 1] = 0
    BY <1>2, <2>1
  <2> HIDE DEF o
  <2>3. U % Unit[n + 1] = 0
    BY <2>1, <2>2
  <2> HIDE DEF U
  <2> QED
    BY <1>3, <2>3, FitsIs
<1>8. n = 0 => U = 0
  <2>1. n = 0 => us = 0
    <3>1. us % Unit[n + 1] = 0
      BY FitsIs
    <3> QED
      BY <1>2, <3>1
  <2> HIDE DEF o
  <2> QED
    BY <1>1, <1>2, <2>1
<1>9. Negated(one) = <<"timedelta", -S - (IF U > 0 THEN 1 ELSE 0), (Million - U) % Million>>
  <2> HIDE DEF S, U
  <2>1. one[2] = S /\ one[3] = U
    OBVIOUS
  <2> HIDE DEF one
  <2> QED
    BY <2>1, Zenon DEF Negated
<1>10. neg => Negated(one) = td
  <2> SUFFICES ASSUME neg PROVE Negated(one) = td
    OBVIOUS
  <2>1. S = -s - some /\ U = o
    OBVIOUS
  <2>2. -S - (IF U > 0 THEN 1 ELSE 0) = s
    <3> HIDE DEF o, S, U
    <3> QED
      BY <1>1, <1>2, <2>1
  <2>3. (Million - U) % Million = us
    BY <1>2, <2>1, Zenon
  <2> HIDE DEF S, U, one
  <2> QED
    BY <1>9, <2>2, <2>3, Zenon
<1>11. neg => Negated(td) = one
  BY <1>4, Zenon
<1>12. ~neg => td = one
  BY Zenon
<1> DEFINE q == HoursIn(S)
           mm == MinutesIn(S)
           ss == SecondsIn(S)
           t == ShowTime(td, n)
           I == IF neg THEN -q ELSE q
<1>13. /\ q \in Nat /\ mm \in Nat /\ ss \in Nat /\ (q > 0 <=> Hourly(S))
       /\ S = SecondsOf(<<q, mm, ss>>) /\ S = SecondsOf(<<-q, mm, ss>>)
  <2> HIDE DEF S
  <2> QED
    BY <1>3, PartsOf
<1>14. Clock(t) = <<I, mm, ss, U>>
  <2>1. neg \in BOOLEAN /\ (neg <=> td[2] < 0)
    BY <1>1
  <2> HIDE DEF neg, S, U
  <2> QED
    BY <1>3, <1>6, <1>7, <1>8, <2>1, TimeClock
<1>15. TimeDelta_or_None(t) = IF I < 0 THEN Negated(one) ELSE one
  <2>1. I \in Int
    <3> HIDE DEF q
    <3> QED
      BY <1>13
  <2>2. S = SecondsOf(<<I, mm, ss>>)
    <3> HIDE DEF q, mm, ss, S
    <3> QED
      BY <1>13, Zenon
  <2> HIDE DEF t, I, mm, ss, U, S
  <2> QED
    BY <1>3, <1>13, <1>14, <2>1, <2>2, DurationRead
<1>16. I < 0 <=> neg /\ Hourly(S)
  <2> HIDE DEF S, q
  <2> QED
    BY <1>3, <1>13
<1>17. Unsigned(td) <=> neg /\ ~Hourly(S)
  <2>1. td = <<"timedelta", -3600, 0>> <=> s = -3600 /\ us = 0
    BY <1>1
  <2>2. s \in -3600..-1 <=> -3600 <= s /\ s < 0
    BY SMT
  <2>3. Unsigned(td) <=> -3600 <= s /\ s < 0 /\ ~(s = -3600 /\ us = 0)
    BY <1>1, <2>1, <2>2, SMT DEF Unsigned
  <2>4. CASE s < 0
    <3>1. neg /\ S = -s - some /\ some = IF us > 0 THEN 1 ELSE 0
      BY <2>4, Zenon
    <3>2. us \in Nat
      BY <1>1
    <3> HIDE DEF o, neg, S, some
    <3>3. ~(S >= 3600) <=> -3600 <= s /\ s < 0 /\ ~(s = -3600 /\ us = 0)
      BY <2>4, <3>1, <3>2, SMT
    <3> QED
      BY <2>3, <3>1, <3>3, SMT DEF Hourly
  <2>5. CASE ~(s < 0)
    <3>1. ~neg
      BY <2>5, Zenon
    <3> HIDE DEF neg, S
    <3> QED
      BY <2>3, <2>5, <3>1, SMT
  <2> QED
    BY <2>4, <2>5, SMT
<1> HIDE DEF t, one, S, I, neg
<1>18. CASE neg /\ ~Hourly(S)
  <2>1. ~(I < 0)
    BY <1>16, <1>18, Zenon
  <2> QED
    BY <1>11, <1>15, <1>17, <1>18, <2>1, Zenon DEF t
<1>19. CASE neg /\ Hourly(S)
  <2>1. I < 0
    BY <1>16, <1>19, Zenon
  <2> QED
    BY <1>10, <1>15, <1>17, <1>19, <2>1, Zenon DEF t
<1>20. CASE ~neg
  <2>1. ~(I < 0)
    BY <1>16, <1>20
  <2> QED
    BY <1>12, <1>15, <1>17, <1>20, <2>1, Zenon DEF t
<1> QED
  BY <1>18, <1>19, <1>20, Zenon

\* The server reads days and a clock.
DaySum(days, c) == Abs(days) * 86400 + c[1] * 3600 + c[2] * 60 + c[3]

LEMMA ReadTimeIs ==
  ASSUME NEW t
  PROVE  ReadTime(t) = LET parts == Split(t, " ", 1)
                           td    == timedelta(DaySum(int(parts[1]), Clock(parts[2])), 0) IN
                       IF parts[1][1] = "-" THEN Negated(td) ELSE td
BY SMT DEF ReadTime, DaySum

Assoc(a, b, c) == (a \o b) \o c = a \o (b \o c)

LEMMA AssocIs ==
  ASSUME NEW C, NEW a \in Seq(C), NEW b \in Seq(C), NEW c \in Seq(C)
  PROVE  Assoc(a, b, c) /\ a \o b \in Seq(C)
BY SMTT(30) DEF Assoc

SameStamp(a, b, h, c, m, w) == a \o b \o h \o c \o m \o c \o w = a \o b \o (h \o c \o (m \o c \o w))

LEMMA StampPut ==
  ASSUME NEW C, NEW a \in Seq(C), NEW b \in Seq(C), NEW h \in Seq(C), NEW c \in Seq(C), NEW m \in Seq(C), NEW w \in Seq(C)
  PROVE  SameStamp(a, b, h, c, m, w)
<1> DEFINE p == a \o b
           q == h \o c
           r == m \o c
           s == q \o r
           u == p \o q
<1>1. p \in Seq(C) /\ q \in Seq(C) /\ r \in Seq(C)
  OBVIOUS
<1> HIDE DEF p, q, r
<1>2. Assoc(p, h, c) /\ u \in Seq(C) /\ s \in Seq(C)
  BY <1>1, AssocIs
<1> HIDE DEF s, u
<1>3. Assoc(u, m, c) /\ Assoc(p, q, r) /\ Assoc(p, s, w) /\ Assoc(q, r, w) /\ Assoc(h, c, r \o w)
  <2>1. r \o w \in Seq(C)
    BY <1>1, AssocIs
  <2> QED
    BY <1>1, <1>2, <2>1, AssocIs
<1>4. Assoc(m, c, w)
  BY AssocIs
<1> QED
  BY <1>2, <1>3, <1>4, Zenon DEF Assoc, SameStamp, p, q, r, s, u

LEMMA NotAlone ==
  ASSUME NEW x, NEW ch, ch # x
  PROVE  ~Occurs(ch, <<x>>)
BY OccursAlone

LEMMA FirstOf ==
  ASSUME NEW C, NEW x \in C, NEW b \in Seq(C)
  PROVE  <<x>> \in Seq(C) /\ <<x>> \o b \in Seq(C) /\ (<<x>> \o b)[1] = x
<1> DEFINE d == <<x>>
<1>1. d \in Seq(C) /\ Len(d) = 1 /\ d[1] = x
  OBVIOUS
<1> HIDE DEF d
<1>2. d \o b \in Seq(C) /\ \A i \in 1..(Len(d) + Len(b)) : (d \o b)[i] = IF i <= Len(d) THEN d[i] ELSE b[i - Len(d)]
  BY <1>1, ConcatProperties
<1>3. 1 \in 1..(Len(d) + Len(b)) /\ 1 <= Len(d)
  BY <1>1
<1>4. (d \o b)[1] = x
  BY <1>1, <1>2, <1>3
<1> QED
  BY <1>1, <1>2, <1>4 DEF d

LEMMA SignedText ==
  ASSUME NEW n \in Int
  PROVE  Signed(n) \in Seq(Glyphs) /\ ~Occurs(" ", Signed(n)) /\ (Signed(n)[1] = "-" <=> n < 0)
<1> DEFINE ch == "-"
           t == Signed(n)
<1>1. CASE n < 0
  <2> DEFINE b == Decimal(-n)
  <2>1. -n \in Nat
    BY <1>1
  <2>2. b \in Seq(Figures)
    BY <2>1, DecimalFigures, Zenon
  <2> HIDE DEF b
  <2>3. b \in Seq(Glyphs) /\ ~Occurs(" ", b)
    BY <2>2, NoSigns, GlyphTexts
  <2>4. t = <<ch>> \o b
    BY <1>1, Zenon DEF Signed, b
  <2>5. ch \in Glyphs /\ ch # " " /\ " " # ch /\ ch = "-"
    BY GlyphTexts
  <2> HIDE DEF ch, t
  <2>6. <<ch>> \in Seq(Glyphs)
    BY <2>3, <2>5, FirstOf
  <2>7. ~Occurs(" ", <<ch>>)
    BY <2>5, NotAlone
  <2>8. ~Occurs(" ", <<ch>> \o b)
    BY <2>3, <2>6, <2>7, OccursIn
  <2>9. t \in Seq(Glyphs) /\ t[1] = ch
    BY <2>3, <2>4, <2>5, FirstOf, Zenon
  <2> QED
    BY <1>1, <2>4, <2>5, <2>8, <2>9, Zenon DEF t
<1>2. CASE ~(n < 0)
  <2>1. n \in Nat
    BY <1>2
  <2>2. t = Decimal(n)
    BY <1>2, Zenon DEF Signed
  <2>3. t \in Seq(Figures) /\ Len(t) >= 1
    BY <2>1, <2>2, DecimalFigures
  <2> HIDE DEF t
  <2>4. t \in Seq(Glyphs) /\ ~Occurs(" ", t)
    BY <2>3, NoSigns, GlyphTexts
  <2>5. t[1] \in Figures
    BY <2>3
  <2>6. t[1] # "-"
    BY <2>5, FigureIs, GlyphTexts
  <2> QED
    BY <1>2, <2>4, <2>6, Zenon DEF t
<1> QED
  BY <1>1, <1>2, Zenon

\* Days and seconds of a day, and how they are written.
DaysOf(s)    == s \div 86400
RestOf(s)    == s % 86400
DayHours(s)   == (RestOf(s) \div 3600) % 24
DayMinutes(s) == (RestOf(s) \div 60) % 60
DaySeconds(s) == RestOf(s) % 60
\* No rest of a day is left to count upwards from a negative number of days.
Written(s)   == s >= 0 \/ s % 86400 = 0

LEMMA FormatIs ==
  ASSUME NEW td
  PROVE  format_TIMEDELTA(td) = Signed(DaysOf(td[2])) \o <<" ">> \o Decimal(DayHours(td[2])) \o <<":">> \o
                                Decimal(DayMinutes(td[2])) \o <<":">> \o Decimal(DaySeconds(td[2]))
BY SMT DEF format_TIMEDELTA, DaysOf, RestOf, DayHours, DayMinutes, DaySeconds

LEMMA DayParts ==
  ASSUME NEW s \in Int, NEW c, c = <<DayHours(s), DayMinutes(s), DaySeconds(s), 0>>
  PROVE  /\ DaysOf(s) \in Int /\ DayHours(s) \in Nat /\ DayMinutes(s) \in Nat /\ DaySeconds(s) \in Nat
         /\ DaySum(DaysOf(s), c) \in Nat
         /\ Written(s) => DaySum(DaysOf(s), c) = IF DaysOf(s) < 0 THEN -s ELSE s
<1> DEFINE D == DaysOf(s)
           r == RestOf(s)
           h == DayHours(s)
           m == DayMinutes(s)
           w == DaySeconds(s)
<1>1. D \in Int /\ r \in Nat /\ r < 86400 /\ s = 86400 * D + r
  BY SMT DEF DaysOf, RestOf
<1>2. c[1] = h /\ c[2] = m /\ c[3] = w
  OBVIOUS
<1> HIDE DEF D, r
<1>3. h = (r \div 3600) % 24 /\ m = (r \div 60) % 60 /\ w = r % 60
  BY SMT DEF DayHours, DayMinutes, DaySeconds, r
<1>4. h \in Nat /\ m \in Nat /\ w \in Nat /\ r = h * 3600 + m * 60 + w
  <2> HIDE DEF h, m, w
  <2> QED
    BY SMT, <1>1, <1>3
<1> HIDE DEF h, m, w
<1>5. Written(s) => D >= 0 \/ r = 0
  <2>1. s % 86400 = r
    BY SMT DEF r, RestOf
  <2>2. Written(s) <=> s >= 0 \/ s % 86400 = 0
    BY SMT DEF Written
  <2> QED
    BY SMT, <1>1, <2>1, <2>2
<1>6. DaySum(D, c) = Abs(D) * 86400 + h * 3600 + m * 60 + w
  BY SMT, <1>2 DEF DaySum
<1>7. Abs(D) = IF D < 0 THEN -D ELSE D
  BY DEF Abs
<1>8. Abs(D) \in Nat
  BY <1>1, <1>7
<1>9. DaySum(D, c) \in Nat
  BY SMT, <1>4, <1>6, <1>8
<1>10. DaySum(D, c) = Abs(D) * 86400 + r
  BY SMT, <1>4, <1>6, <1>8
<1>11. ASSUME Written(s) PROVE DaySum(D, c) = IF D < 0 THEN -s ELSE s
  <2>1. CASE D < 0
    <3>1. r = 0 /\ Abs(D) = -D
      BY SMT, <1>1, <1>5, <1>7, <1>11, <2>1
    <3> QED
      BY SMT, <1>1, <1>10, <2>1, <3>1
  <2>2. CASE ~(D < 0)
    BY SMT, <1>1, <1>7, <1>10, <2>2
  <2> QED
    BY SMT, <2>1, <2>2
<1> QED
  BY SMT, <1>1, <1>4, <1>9, <1>11 DEF D, h, m, w

\* What is written is days, a blank and a clock.
LEMMA FormatRead ==
  ASSUME NEW s \in Int, NEW td, td[2] = s, NEW t, t = format_TIMEDELTA(td),
         NEW c, c = <<DayHours(s), DayMinutes(s), DaySeconds(s), 0>>,
         NEW sum, sum = timedelta(DaySum(DaysOf(s), c), 0)
  PROVE  ReadTime(t) = IF DaysOf(s) < 0 THEN Negated(sum) ELSE sum
<1> DEFINE D == DaysOf(s)
           h == DayHours(s)
           m == DayMinutes(s)
           w == DaySeconds(s)
           A == Signed(D)
           H == Decimal(h)
           M == Decimal(m)
           W == Decimal(w)
           sp == " "
           ch == ":"
           b == <<sp>>
           cc == <<ch>>
           x == ClockText(H, M, W)
<1>1. D \in Int /\ h \in Nat /\ m \in Nat /\ w \in Nat
  BY DayParts
<1> HIDE DEF D, h, m, w
<1>2. A \in Seq(Glyphs) /\ ~Occurs(" ", A) /\ (A[1] = "-" <=> D < 0) /\ int(A) = D
  BY <1>1, SignedText, IntOfSigned
<1>3. Says(H, h) /\ Says(M, m) /\ Says(W, w)
  BY <1>1, PaddedSays, Zenon
<1> HIDE DEF A, H, M, W
<1>4. /\ H \in Seq(Glyphs) /\ M \in Seq(Glyphs) /\ W \in Seq(Glyphs)
      /\ ~Occurs(":", H) /\ IsInt(H) /\ int(H) = h
  BY <1>3, Said, GlyphTexts
<1>5. SaysSeconds(W, w, 0)
  BY <1>3, SecondsSaid, Zenon
<1>6. Clock(x) = <<h, m, w, 0>>
  <2>1. Clock(x) = <<int(H), m, w, 0>>
    BY <1>3, <1>4, <1>5, ClockIs
  <2> QED
    BY <1>4, <2>1, Zenon
<1>7. Clock(x) = c
  BY <1>6, Zenon DEF h, m, w
<1>8. sp \in Glyphs /\ ch \in Glyphs /\ sp = " " /\ ch = ":"
  BY GlyphTexts
<1>9. t = A \o b \o H \o cc \o M \o cc \o W
  BY FormatIs, Zenon DEF A, H, M, W, D, h, m, w
<1> HIDE DEF sp, ch
<1>10. b \in Seq(Glyphs) /\ cc \in Seq(Glyphs)
  BY <1>4, <1>8, FirstOf
<1>11. x = H \o cc \o (M \o cc \o W)
  BY <1>8, Zenon DEF ClockText
<1>12. x \in Seq(Glyphs)
  <2> HIDE DEF x, cc
  <2>1. M \o cc \in Seq(Glyphs) /\ H \o cc \in Seq(Glyphs)
    BY <1>4, <1>10, AssocIs
  <2>2. M \o cc \o W \in Seq(Glyphs)
    BY <1>4, <2>1, AssocIs
  <2> QED
    BY <1>11, <2>1, <2>2, AssocIs
<1>13. t = A \o b \o x
  <2> HIDE DEF b, cc, x
  <2>1. SameStamp(A, b, H, cc, M, W)
    BY <1>2, <1>4, <1>10, StampPut
  <2> QED
    BY <1>9, <1>11, <2>1, Zenon DEF SameStamp
<1> HIDE DEF x
<1>14. Split(t, sp, 1) = <<A, x>>
  BY <1>2, <1>8, <1>12, <1>13, TwoFields, ZenonT(30)
<1> DEFINE parts == Split(t, " ", 1)
<1>15. parts[1] = A /\ parts[2] = x
  <2>1. parts = <<A, x>>
    BY <1>8, <1>14, Zenon
  <2> HIDE DEF parts
  <2> QED
    BY <2>1
<1>16. ReadTime(t) = IF parts[1][1] = "-" THEN Negated(timedelta(DaySum(int(parts[1]), Clock(parts[2])), 0))
                     ELSE timedelta(DaySum(int(parts[1]), Clock(parts[2])), 0)
  BY ReadTimeIs, Zenon
<1> HIDE DEF parts
<1> QED
  BY <1>2, <1>7, <1>15, <1>16, Zenon DEF D

\* What a duration is read as is always the same one, and so is what is written.
LEMMA WrittenBack ==
  ASSUME NEW s \in Int, Written(s), NEW td, td = <<"timedelta", s, 0>>
  PROVE  ReadTime(format_TIMEDELTA(td)) = td
<1> DEFINE D == DaysOf(s)
           c == <<DayHours(s), DayMinutes(s), DaySeconds(s), 0>>
           z == DaySum(D, c)
           sum == timedelta(z, 0)
           t == format_TIMEDELTA(td)
           whole == <<"timedelta", z, 0>>
<1>1. td[2] = s
  OBVIOUS
<1>2. D \in Int /\ z \in Nat /\ z = IF D < 0 THEN -s ELSE s
  BY DayParts, Zenon
<1>3. 0 \in 0..(Million - 1) /\ 0 \div Million = 0 /\ 0 % Million = 0 /\ (Million - 0) % Million = 0
  <2>1. 0 \in 0..(Million - 1)
    BY Micros
  <2> DEFINE o == (Million - 0) % Million
  <2>2. (o > 0 <=> 0 > 0) /\ o \in 0..(Million - 1) /\ 0 \div Million = 0 /\ 0 % Million = 0
    BY <2>1, Opposite
  <2> HIDE DEF o
  <2>3. o = 0
    BY <2>2
  <2> QED
    BY <2>1, <2>2, <2>3 DEF o
<1>4. sum = whole
  <2> HIDE DEF z
  <2>1. z + 0 = z
    BY <1>2
  <2> QED
    BY <1>3, <2>1, Zenon DEF timedelta
<1>5. ReadTime(t) = IF D < 0 THEN Negated(sum) ELSE sum
  <2>1. t = format_TIMEDELTA(td) /\ c = <<DayHours(s), DayMinutes(s), DaySeconds(s), 0>>
    BY Zenon
  <2>2. sum = timedelta(DaySum(DaysOf(s), c), 0)
    BY Zenon
  <2> HIDE DEF t, c, sum
  <2>3. ReadTime(t) = IF DaysOf(s) < 0 THEN Negated(sum) ELSE sum
    BY <1>1, <2>1, <2>2, FormatRead, Zenon
  <2> QED
    BY <2>3, Zenon DEF D
<1>6. CASE D < 0
  <2>1. z = -s
    BY <1>2, <1>6
  <2>2. Negated(whole) = <<"timedelta", s, 0>>
    <3> HIDE DEF z
    <3>1. whole[2] = z /\ whole[3] = 0
      OBVIOUS
    <3>2. -z - (IF 0 > 0 THEN 1 ELSE 0) = s
      BY <2>1
    <3> HIDE DEF whole
    <3> QED
      BY <1>3, <3>1, <3>2, Zenon DEF Negated
  <2> QED
    BY <1>4, <1>5, <1>6, <2>2, Zenon
<1>7. CASE ~(D < 0)
  <2>1. z = s
    BY <1>2, <1>7, Zenon
  <2> QED
    BY <1>4, <1>5, <1>7, <2>1, Zenon
<1> QED
  BY <1>6, <1>7, Zenon

(* Whatever duration there is, of either sign and of any length: what      *)
(* MySQL prints of it in a column is read as this duration, but for those  *)
(* of less than an hour below zero, which are read without their sign; and *)
(* what format_TIMEDELTA makes of whole seconds, if they are not negative  *)
(* or are whole days, is taken for the same duration by the server.        *)
THEOREM EveryDurationSurvives ==
  ASSUME NEW s \in Int, NEW us \in 0..(Million - 1)
  PROVE  DurationSurvives(<<"timedelta", s, us>>)
<1> DEFINE td == <<"timedelta", s, us>>
<1>1. td[2] = s /\ td[3] = us
  OBVIOUS
<1>2. ASSUME NEW n \in 0..6, FitsColumn(us, n)
      PROVE  TimeDelta_or_None(ShowTime(td, n)) = IF Unsigned(td) THEN Negated(td) ELSE td
  BY <1>2, TimeShown, ZenonT(30)
<1>3. ASSUME us = 0, Written(s)
      PROVE  ReadTime(format_TIMEDELTA(td)) = td
  BY <1>3, WrittenBack, Zenon
<1> HIDE DEF td
<1>4. DurationSurvives(td) <=>
        /\ \A n \in 0..6 : FitsColumn(td[3], n) =>
             TimeDelta_or_None(ShowTime(td, n)) = (IF Unsigned(td) THEN Negated(td) ELSE td)
        /\ td[3] = 0 /\ Written(td[2]) => ReadTime(format_TIMEDELTA(td)) = td
  BY SMT DEF DurationSurvives, Unsigned, Written
<1>5. DurationSurvives(td)
  BY <1>1, <1>2, <1>3, <1>4, Zenon
<1> QED
  BY <1>5 DEF td

-----------------------------------------------------------------------------
(* Dates and times                                                         *)

LEMMA SeparateTwo ==
  ASSUME NEW C, NEW p \in Seq(C), NEW b \in Seq(C), NEW j, j = Len(p)
  PROVE  SubSeq(p \o b, 1, j) = p /\ SubSeq(b, 1, Len(b)) = b
OBVIOUS

\* The date and the time of day that seven numbers are.
Moment(y, mo, dd, h, mi, s, us) ==
  IF IsDate(y, mo, dd) THEN <<"datetime", y, mo, dd, h, mi, s, us>> ELSE Nothing

LEMMA SevenInARow ==
  ASSUME NEW a, NEW b, NEW c, NEW d, NEW e, NEW f, NEW g
  PROVE  <<a, b, c>> \o <<d, e, f>> \o <<g>> = <<a, b, c, d, e, f, g>>
<1> DEFINE C == {a, b, c, d, e, f, g}
           u == <<a, b, c>>
           v == <<d, e, f>>
           w == <<a, b, c, d, e, f>>
           x == <<g>>
           y == <<a, b, c, d, e, f, g>>
<1>1. a \in C /\ b \in C /\ c \in C /\ d \in C /\ e \in C /\ f \in C /\ g \in C
  OBVIOUS
<1> HIDE DEF C
<1>2. /\ u \in Seq(C) /\ Len(u) = 3 /\ u[1] = a /\ u[2] = b /\ u[3] = c
      /\ v \in Seq(C) /\ Len(v) = 3 /\ v[1] = d /\ v[2] = e /\ v[3] = f
  BY <1>1
<1>3. w \in Seq(C) /\ Len(w) = 6 /\ w[1] = a /\ w[2] = b /\ w[3] = c /\ w[4] = d /\ w[5] = e /\ w[6] = f
  BY <1>1
<1>4. /\ y \in Seq(C) /\ Len(y) = 7 /\ y[1] = a /\ y[2] = b /\ y[3] = c /\ y[4] = d /\ y[5] = e /\ y[6] = f
      /\ y[7] = g
  BY <1>1
<1>5. x \in Seq(C) /\ Len(x) = 1 /\ x[1] = g
  BY <1>1
<1> HIDE DEF u, v, w, x, y
<1>6. u \o v = w
  <2>1. /\ Len(w) = Len(u) + Len(v)
        /\ \A i \in 1..Len(u) : w[i] = u[i]
        /\ \A i \in 1..Len(v) : w[Len(u) + i] = v[i]
    BY <1>2, <1>3
  <2> QED
    BY <1>2, <1>3, <2>1, Joined, Zenon
<1>7. w \o x = y
  <2>1. /\ Len(y) = Len(w) + Len(x)
        /\ \A i \in 1..Len(w) : y[i] = w[i]
        /\ \A i \in 1..Len(x) : y[Len(w) + i] = x[i]
    BY <1>3, <1>4, <1>5
  <2> QED
    BY <1>3, <1>4, <1>5, <2>1, Joined, Zenon
<1> QED
  BY <1>6, <1>7, Zenon DEF u, v, w, x, y

LEMMA EightInARow ==
  ASSUME NEW z, NEW a, NEW b, NEW c, NEW d, NEW e, NEW f, NEW g
  PROVE  <<z>> \o <<a, b, c, d, e, f, g>> = <<z, a, b, c, d, e, f, g>>
<1> DEFINE C == {z, a, b, c, d, e, f, g}
           u == <<z>>
           v == <<a, b, c, d, e, f, g>>
           w == <<z, a, b, c, d, e, f, g>>
<1>1. z \in C /\ a \in C /\ b \in C /\ c \in C /\ d \in C /\ e \in C /\ f \in C /\ g \in C
  OBVIOUS
<1> HIDE DEF C
<1>2. u \in Seq(C) /\ Len(u) = 1 /\ u[1] = z
  BY <1>1
<1>3. /\ v \in Seq(C) /\ Len(v) = 7 /\ v[1] = a /\ v[2] = b /\ v[3] = c /\ v[4] = d /\ v[5] = e /\ v[6] = f
      /\ v[7] = g
  BY <1>1
<1>4. /\ w \in Seq(C) /\ Len(w) = 8 /\ w[1] = z /\ w[2] = a /\ w[3] = b /\ w[4] = c /\ w[5] = d /\ w[6] = e
      /\ w[7] = f /\ w[8] = g
  BY <1>1
<1> HIDE DEF u, v, w
<1>5. /\ Len(w) = Len(u) + Len(v)
      /\ \A i \in 1..Len(u) : w[i] = u[i]
      /\ \A i \in 1..Len(v) : w[Len(u) + i] = v[i]
  BY <1>2, <1>3, <1>4
<1>6. u \o v = w
  BY <1>2, <1>3, <1>4, <1>5, Joined, Zenon
<1> QED
  BY <1>6, Zenon DEF u, v, w

\* datetime() fills up with zeros.
FilledUpTo(args, all) == Len(args) \in 3..7 /\ args \o [i \in 1..(7 - Len(args)) |-> 0] = all

LEMMA MomentIs ==
  ASSUME NEW args, NEW y, NEW mo, NEW dd, NEW h, NEW mi, NEW s, NEW us, NEW all,
         all = <<y, mo, dd, h, mi, s, us>>, FilledUpTo(args, all), IsTime(h, mi, s, us)
  PROVE  datetime(args) = Moment(y, mo, dd, h, mi, s, us)
<1> DEFINE a == args \o [i \in 1..(7 - Len(args)) |-> 0]
<1>1. datetime(args) = IF Len(args) \in 3..7 /\ IsDate(a[1], a[2], a[3]) /\ IsTime(a[4], a[5], a[6], a[7])
                       THEN <<"datetime">> \o a ELSE Nothing
  BY Zenon DEF datetime
<1>2. Len(args) \in 3..7 /\ a = all
  BY Zenon DEF FilledUpTo
<1> HIDE DEF a
<1>3. a[1] = y /\ a[2] = mo /\ a[3] = dd /\ a[4] = h /\ a[5] = mi /\ a[6] = s /\ a[7] = us
  BY <1>2
<1>4. <<"datetime">> \o a = <<"datetime", y, mo, dd, h, mi, s, us>>
  <2> DEFINE z == "datetime"
  <2> HIDE DEF z
  <2>1. <<z>> \o <<y, mo, dd, h, mi, s, us>> = <<z, y, mo, dd, h, mi, s, us>>
    BY EightInARow
  <2> QED
    BY <1>2, <2>1, Zenon DEF z
<1> QED
  BY <1>1, <1>2, <1>3, <1>4, Zenon DEF Moment

LEMMA SevenFilledUp ==
  ASSUME NEW y \in Int, NEW mo \in Int, NEW dd \in Int, NEW h \in Int, NEW mi \in Int, NEW s \in Int, NEW us \in Int
  PROVE  FilledUpTo(<<y, mo, dd, h, mi, s, us>>, <<y, mo, dd, h, mi, s, us>>)
<1> DEFINE u == <<y, mo, dd, h, mi, s, us>>
           w == <<y, mo, dd, h, mi, s, us>>
           m == 7 - Len(u)
           z == [i \in 1..m |-> 0]
<1>1. u \in Seq(Int) /\ Len(u) = 7
      /\ u[1] = y /\ u[2] = mo /\ u[3] = dd /\ u[4] = h /\ u[5] = mi /\ u[6] = s /\ u[7] = us
  OBVIOUS
<1>2. w \in Seq(Int) /\ Len(w) = 7
      /\ w[1] = y /\ w[2] = mo /\ w[3] = dd /\ w[4] = h /\ w[5] = mi /\ w[6] = s /\ w[7] = us
  OBVIOUS
<1> HIDE DEF u, w
<1>3. m = 0
  BY <1>1
<1> HIDE DEF m
<1>4. z \in Seq(Int) /\ Len(z) = 0 /\ \A i \in 1..0 : z[i] = 0
  BY <1>3
<1> HIDE DEF z
<1>5. /\ Len(w) = Len(u) + Len(z)
      /\ \A i \in 1..Len(u) : w[i] = u[i]
      /\ \A i \in 1..Len(z) : w[Len(u) + i] = z[i]
  BY <1>1, <1>2, <1>4
<1>6. u \o z = w
  BY <1>1, <1>2, <1>4, <1>5, Joined, Zenon
<1>7. Len(u) \in 3..7
  BY <1>1
<1> QED
  BY <1>6, <1>7, Zenon DEF FilledUpTo, u, w, z, m

LEMMA SixFilledUp ==
  ASSUME NEW y \in Int, NEW mo \in Int, NEW dd \in Int, NEW h \in Int, NEW mi \in Int, NEW s \in Int
  PROVE  FilledUpTo(<<y, mo, dd, h, mi, s>>, <<y, mo, dd, h, mi, s, 0>>)
<1> DEFINE u == <<y, mo, dd, h, mi, s>>
           w == <<y, mo, dd, h, mi, s, 0>>
           m == 7 - Len(u)
           z == [i \in 1..m |-> 0]
<1>1. u \in Seq(Int) /\ Len(u) = 6
      /\ u[1] = y /\ u[2] = mo /\ u[3] = dd /\ u[4] = h /\ u[5] = mi /\ u[6] = s
  OBVIOUS
<1>2. w \in Seq(Int) /\ Len(w) = 7
      /\ w[1] = y /\ w[2] = mo /\ w[3] = dd /\ w[4] = h /\ w[5] = mi /\ w[6] = s /\ w[7] = 0
  OBVIOUS
<1> HIDE DEF u, w
<1>3. m = 1
  BY <1>1
<1> HIDE DEF m
<1>4. z \in Seq(Int) /\ Len(z) = 1 /\ \A i \in 1..1 : z[i] = 0
  BY <1>3
<1> HIDE DEF z
<1>5. /\ Len(w) = Len(u) + Len(z)
      /\ \A i \in 1..Len(u) : w[i] = u[i]
      /\ \A i \in 1..Len(z) : w[Len(u) + i] = z[i]
  BY <1>1, <1>2, <1>4
<1>6. u \o z = w
  BY <1>1, <1>2, <1>4, <1>5, Joined, Zenon
<1>7. Len(u) \in 3..7
  BY <1>1
<1> QED
  BY <1>6, <1>7, Zenon DEF FilledUpTo, u, w, z, m

LEMMA ThreeFilledUp ==
  ASSUME NEW y \in Int, NEW mo \in Int, NEW dd \in Int
  PROVE  FilledUpTo(<<y, mo, dd>>, <<y, mo, dd, 0, 0, 0, 0>>)
<1> DEFINE u == <<y, mo, dd>>
           w == <<y, mo, dd, 0, 0, 0, 0>>
           m == 7 - Len(u)
           z == [i \in 1..m |-> 0]
<1>1. u \in Seq(Int) /\ Len(u) = 3
      /\ u[1] = y /\ u[2] = mo /\ u[3] = dd
  OBVIOUS
<1>2. w \in Seq(Int) /\ Len(w) = 7
      /\ w[1] = y /\ w[2] = mo /\ w[3] = dd /\ w[4] = 0 /\ w[5] = 0 /\ w[6] = 0 /\ w[7] = 0
  OBVIOUS
<1> HIDE DEF u, w
<1>3. m = 4
  BY <1>1
<1> HIDE DEF m
<1>4. z \in Seq(Int) /\ Len(z) = 4 /\ \A i \in 1..4 : z[i] = 0
  BY <1>3
<1> HIDE DEF z
<1>5. /\ Len(w) = Len(u) + Len(z)
      /\ \A i \in 1..Len(u) : w[i] = u[i]
      /\ \A i \in 1..Len(z) : w[Len(u) + i] = z[i]
  BY <1>1, <1>2, <1>4
<1>6. u \o z = w
  BY <1>1, <1>2, <1>4, <1>5, Joined, Zenon
<1>7. Len(u) \in 3..7
  BY <1>1
<1> QED
  BY <1>6, <1>7, Zenon DEF FilledUpTo, u, w, z, m

DayText(y, m, d) == y \o <<"-">> \o (m \o <<"-">> \o d)

EndsInFigure(x) == Len(x) >= 1 /\ x[Len(x)] \in Figures

\* x says a time of day.
SaysTime(x, h, mi, s, us) ==
  /\ x \in Seq(Glyphs) /\ EndsInFigure(x) /\ ~Occurs(" ", x) /\ ~Occurs("T", x)
  /\ \E H, M, W, f : /\ Fraction(x) = <<ClockText(H, M, W), f>>
                     /\ Says(H, h) /\ Says(M, mi) /\ Says(W, s) /\ Says(f, us)

LEMMA DayFields ==
  ASSUME NEW Y, NEW y, Says(Y, y), NEW O, NEW mo, Says(O, mo), NEW D, NEW dd, Says(D, dd)
  PROVE  /\ DayText(Y, O, D) \in Seq(Glyphs) /\ ~Occurs(" ", DayText(Y, O, D)) /\ ~Occurs("T", DayText(Y, O, D))
         /\ SplitAll(DayText(Y, O, D), "-") = <<Y, O, D>> /\ Split(DayText(Y, O, D), "-", 2) = <<Y, O, D>>
<1> DEFINE ch == "-"
           b == <<ch>>
           t == DayText(Y, O, D)
<1>1. /\ Y \in Seq(Glyphs) /\ O \in Seq(Glyphs) /\ D \in Seq(Glyphs)
      /\ \A c \in Signs : ~Occurs(c, Y) /\ ~Occurs(c, O) /\ ~Occurs(c, D)
  BY Said
<1>2. ch \in Glyphs /\ ch \in Signs /\ ch = "-" /\ " " # ch /\ "T" # ch /\ " " \in Signs /\ "T" \in Signs
  BY GlyphTexts
<1>3. t = Y \o <<ch>> \o (O \o <<ch>> \o D)
  BY Zenon DEF DayText
<1> HIDE DEF t, ch
<1>4. Y \in Seq(Glyphs) /\ O \in Seq(Glyphs) /\ D \in Seq(Glyphs) /\ ~Occurs(ch, Y) /\ ~Occurs(ch, O) /\ ~Occurs(ch, D)
  BY <1>1, <1>2
<1>5. SplitAll(t, ch) = <<Y, O, D>> /\ Split(t, ch, 2) = <<Y, O, D>>
  <2> DEFINE u == Y \o <<ch>> \o (O \o <<ch>> \o D)
  <2>1. ch \in Glyphs
    BY <1>2
  <2>2. Split(u, ch, 2) = <<Y, O, D>> /\ (~Occurs(ch, D) => SplitAll(u, ch) = <<Y, O, D>>)
    BY <1>4, <2>1, ThreeFields
  <2> QED
    BY <1>4, <1>3, <2>2, Zenon
<1>6. b \in Seq(Glyphs) /\ ~Occurs(" ", b) /\ ~Occurs("T", b)
  BY <1>1, <1>2, FirstOf, NotAlone
<1> HIDE DEF b
<1>7. O \o b \in Seq(Glyphs) /\ Y \o b \in Seq(Glyphs)
  BY <1>1, <1>6, AssocIs
<1>8. O \o b \o D \in Seq(Glyphs)
  BY <1>1, <1>7, AssocIs
<1>9. Y \o b \o (O \o b \o D) \in Seq(Glyphs)
  BY <1>7, <1>8, AssocIs
<1>10. ASSUME NEW c \in {" ", "T"} PROVE ~Occurs(c, Y \o b \o (O \o b \o D))
  <2>1. ~Occurs(c, Y) /\ ~Occurs(c, O) /\ ~Occurs(c, D) /\ ~Occurs(c, b)
    BY <1>1, <1>2, <1>6
  <2>2. ~Occurs(c, O \o b) /\ ~Occurs(c, Y \o b)
    BY <1>1, <1>6, <2>1, OccursIn
  <2>3. ~Occurs(c, O \o b \o D)
    BY <1>1, <1>7, <2>1, <2>2, OccursIn
  <2> DEFINE p == Y \o b
             q == O \o b \o D
  <2>4. p \in Seq(Glyphs) /\ q \in Seq(Glyphs) /\ ~Occurs(c, p) /\ ~Occurs(c, q)
    BY <1>7, <1>8, <2>2, <2>3
  <2> HIDE DEF p, q
  <2>5. ~Occurs(c, p \o q)
    BY <2>4, OccursIn
  <2> QED
    BY <2>5 DEF p, q
<1>11. ~Occurs(" ", Y \o b \o (O \o b \o D)) /\ ~Occurs("T", Y \o b \o (O \o b \o D))
  BY <1>10
<1> QED
  BY <1>2, <1>3, <1>5, <1>9, <1>11, Zenon DEF t, b

\* w says the day of a value; what it is, if the calendar has it.
SaysDay(w, d) == \E Y, O, D : w = DayText(Y, O, D) /\ Says(Y, d[2]) /\ Says(O, d[3]) /\ Says(D, d[4])
DayOf(d)      == IF IsDate(d[2], d[3], d[4]) THEN <<"date", d[2], d[3], d[4]>> ELSE Nothing

\* Three numbers are read as a day if the calendar has it.
LEMMA DayRead ==
  ASSUME NEW d, NEW w, SaysDay(w, d)
  PROVE  Date_or_None(w) = DayOf(d)
<1> DEFINE y  == d[2]
           mo == d[3]
           dd == d[4]
<1>1. PICK Y, O, D : w = DayText(Y, O, D) /\ Says(Y, y) /\ Says(O, mo) /\ Says(D, dd)
  BY Zenon DEF SaysDay
<1>2. DayOf(d) = IF IsDate(y, mo, dd) THEN <<"date", y, mo, dd>> ELSE Nothing
  BY Zenon DEF DayOf
<1> HIDE DEF y, mo, dd
<1> USE <1>1
<1> DEFINE t == DayText(Y, O, D)
           parts == Split(t, "-", 2)
           row == <<Y, O, D>>
           a == Ints(parts)
           days == <<y, mo, dd>>
<1>3. parts = row
  BY DayFields
<1>4. IsInt(Y) /\ IsInt(O) /\ IsInt(D) /\ int(Y) = y /\ int(O) = mo /\ int(D) = dd
  BY Said, Zenon
<1>5. AllInts(row) /\ Len(row) = 3 /\ Ints(row) = days
  <2>1. DOMAIN row = 1..3 /\ row[1] = Y /\ row[2] = O /\ row[3] = D /\ Len(row) = 3
    OBVIOUS
  <2> HIDE DEF row
  <2>2. \A i \in DOMAIN row : IsInt(row[i])
    <3>1. IsInt(row[1]) /\ IsInt(row[2]) /\ IsInt(row[3])
      BY <1>4, <2>1
    <3> QED
      BY <2>1, <3>1
  <2>3. Ints(row) = [i \in 1..3 |-> int(row[i])]
    BY <2>1 DEF Ints
  <2>4. [i \in 1..3 |-> int(row[i])] = <<int(row[1]), int(row[2]), int(row[3])>>
    OBVIOUS
  <2>5. <<int(row[1]), int(row[2]), int(row[3])>> = <<y, mo, dd>>
    BY <1>4, <2>1, Zenon
  <2> QED
    BY <2>1, <2>2, <2>3, <2>4, <2>5, Zenon DEF AllInts
<1>6. Date_or_None(t) = IF ~AllInts(parts) \/ Len(parts) # 3 THEN Nothing
                        ELSE IF IsDate(a[1], a[2], a[3]) THEN <<"date">> \o a ELSE Nothing
  BY Zenon DEF Date_or_None
<1> HIDE DEF parts, row
<1>7. a = days
  BY <1>3, <1>5, Zenon
<1> HIDE DEF a, t
<1>8. a[1] = y /\ a[2] = mo /\ a[3] = dd
  BY <1>7
<1>9. <<"date">> \o a = <<"date", y, mo, dd>>
  <2> DEFINE z == "date"
             C == {z, y, mo, dd}
             u == <<z>>
             v == <<y, mo, dd>>
             x == <<z, y, mo, dd>>
  <2>1. z \in C /\ y \in C /\ mo \in C /\ dd \in C
    OBVIOUS
  <2> HIDE DEF C, z
  <2>2. u \in Seq(C) /\ Len(u) = 1 /\ u[1] = z
    BY <2>1
  <2>3. v \in Seq(C) /\ Len(v) = 3 /\ v[1] = y /\ v[2] = mo /\ v[3] = dd
    BY <2>1
  <2>4. x \in Seq(C) /\ Len(x) = 4 /\ x[1] = z /\ x[2] = y /\ x[3] = mo /\ x[4] = dd
    BY <2>1
  <2> HIDE DEF u, v, x
  <2>5. /\ Len(x) = Len(u) + Len(v)
        /\ \A i \in 1..Len(u) : x[i] = u[i]
        /\ \A i \in 1..Len(v) : x[Len(u) + i] = v[i]
    BY <2>2, <2>3, <2>4
  <2>6. u \o v = x
    BY <2>2, <2>3, <2>4, <2>5, Joined, Zenon
  <2> QED
    BY <1>7, <2>6, Zenon DEF u, v, x, z
<1>10. Date_or_None(t) = IF IsDate(y, mo, dd) THEN <<"date", y, mo, dd>> ELSE Nothing
  BY <1>3, <1>5, <1>6, <1>8, <1>9, Zenon
<1> QED
  BY <1>10, <1>2, Zenon DEF t

SameDate(y, b, o, d, e, x) == y \o b \o (o \o b \o d) \o e \o x = y \o b \o (o \o b \o (d \o e \o x))

LEMMA DatePut ==
  ASSUME NEW C, NEW y \in Seq(C), NEW b \in Seq(C), NEW o \in Seq(C), NEW d \in Seq(C), NEW e \in Seq(C), NEW x \in Seq(C)
  PROVE  SameDate(y, b, o, d, e, x)
<1> DEFINE p == y \o b
           q == o \o b
           r == q \o d
           s == r \o e
           u == d \o e
<1>1. p \in Seq(C) /\ q \in Seq(C) /\ u \in Seq(C)
  BY AssocIs
<1> HIDE DEF p, q, u
<1>2. r \in Seq(C)
  BY <1>1, AssocIs
<1>3. Assoc(q, d, e) /\ Assoc(q, u, x)
  BY <1>1, AssocIs
<1> HIDE DEF r
<1>4. s \in Seq(C) /\ Assoc(p, r, e)
  BY <1>1, <1>2, AssocIs
<1> HIDE DEF s
<1>5. Assoc(p, s, x)
  BY <1>1, <1>4, AssocIs
<1>6. (p \o r) \o e = p \o s
  BY <1>4, Zenon DEF Assoc, s
<1>7. (p \o s) \o x = p \o (s \o x)
  BY <1>5, Zenon DEF Assoc
<1>8. s = q \o u
  BY <1>3, Zenon DEF Assoc, s, r, u
<1>9. s \o x = q \o (u \o x)
  BY <1>3, <1>8, Zenon DEF Assoc
<1>10. p \o r \o e \o x = p \o (q \o (u \o x))
  BY <1>6, <1>7, <1>9, Zenon
<1> QED
  BY <1>10, Zenon DEF SameDate, p, q, r, u

LEMMA BothEnds ==
  ASSUME NEW C, NEW F, NEW a \in Seq(C), NEW ch \in C, NEW b \in Seq(C), Len(a) >= 1, a[1] \in F,
         Len(b) >= 1, b[Len(b)] \in F, NEW t, t = a \o <<ch>> \o b
  PROVE  /\ t \in Seq(C) /\ Len(t) >= 1 /\ t[1] \in F /\ t[Len(t)] \in F
         /\ Len(a) + 1 \in 1..Len(t) /\ t[Len(a) + 1] = ch
<1> DEFINE m == Len(a)
           n == Len(b)
<1>1. t \in Seq(C) /\ Behind(t, a, ch, b)
  BY PutTogether
<1>2. m \in Nat /\ m >= 1 /\ n \in Nat /\ n >= 1 /\ b[n] \in F /\ a[1] \in F
  OBVIOUS
<1>3. /\ Len(t) = m + 1 + n /\ (\A k \in 1..m : t[k] = a[k]) /\ t[m + 1] = ch
      /\ \A k \in 1..n : t[m + 1 + k] = b[k]
  BY <1>1 DEF Behind
<1> HIDE DEF m, n
<1>4. t[1] = a[1] /\ t[m + 1 + n] = b[n] /\ m + 1 \in 1..Len(t) /\ Len(t) >= 1
  BY <1>2, <1>3
<1>5. t[Len(t)] = b[n]
  BY <1>3, <1>4, Zenon
<1> QED
  BY <1>1, <1>2, <1>3, <1>4, <1>5 DEF m

\* With a time of day behind it, a text is no day.
LEMMA NoDay ==
  ASSUME NEW Y, NEW y, Says(Y, y), NEW O, NEW mo, Says(O, mo), NEW D, NEW dd, Says(D, dd),
         NEW sep \in Signs, NEW x \in Seq(Glyphs), EndsInFigure(x)
  PROVE  Date_or_None(DayText(Y, O, D) \o <<sep>> \o x) = Nothing
<1> DEFINE ch == "-"
           b == <<ch>>
           e == <<sep>>
           t == DayText(Y, O, D) \o <<sep>> \o x
           w == D \o e \o x
           row == <<Y, O, w>>
           parts == Split(t, "-", 2)
           a == Ints(parts)
<1>1. /\ Y \in Seq(Glyphs) /\ O \in Seq(Glyphs) /\ D \in Seq(Glyphs) /\ D[1] \in Figures /\ Len(D) \in Nat /\ Len(D) >= 1
      /\ \A c \in Signs : ~Occurs(c, Y) /\ ~Occurs(c, O)
  BY Said
<1>2. ch \in Glyphs /\ ch \in Signs /\ ch = "-" /\ sep \in Signs /\ sep \in Glyphs
  BY GlyphTexts DEF Glyphs
<1>3. t = Y \o b \o (O \o b \o D) \o e \o x
  BY Zenon DEF DayText
<1> HIDE DEF t, ch
<1>4. b \in Seq(Glyphs) /\ e \in Seq(Glyphs)
  BY <1>1, <1>2, FirstOf
<1>5. t = Y \o b \o (O \o b \o w)
  <2> HIDE DEF b, e
  <2>1. SameDate(Y, b, O, D, e, x)
    BY <1>1, <1>4, DatePut
  <2> QED
    BY <1>3, <2>1, Zenon DEF SameDate
<1>6. w = D \o <<sep>> \o x
  OBVIOUS
<1> HIDE DEF w
<1>7. /\ w \in Seq(Glyphs) /\ Len(w) >= 1 /\ w[1] \in Figures /\ w[Len(w)] \in Figures
      /\ Len(D) + 1 \in 1..Len(w) /\ w[Len(D) + 1] = sep
  <2>1. Len(x) >= 1 /\ x[Len(x)] \in Figures
    BY Zenon DEF EndsInFigure
  <2> QED
    BY <1>1, <1>2, <1>6, <2>1, BothEnds
<1>8. ~IsInt(w)
  <2> DEFINE i == Len(D) + 1
  <2>1. i \in 1..Len(w) /\ w[i] \in Signs
    BY <1>2, <1>7, Zenon
  <2> HIDE DEF i
  <2> QED
    BY <1>7, <2>1, NoInt
<1>9. Split(t, ch, 2) = row
  <2> DEFINE u == Y \o <<ch>> \o (O \o <<ch>> \o w)
  <2>1. ch \in Glyphs /\ ~Occurs(ch, Y) /\ ~Occurs(ch, O)
    BY <1>1, <1>2
  <2>2. Split(u, ch, 2) = row
    BY <1>1, <1>7, <2>1, ThreeFields
  <2> QED
    BY <1>5, <2>2, Zenon
<1>10. ~AllInts(row)
  <2>1. 3 \in DOMAIN row /\ row[3] = w
    OBVIOUS
  <2> HIDE DEF row
  <2> QED
    BY <1>8, <2>1, Zenon DEF AllInts
<1>11. parts = row
  BY <1>2, <1>9, Zenon
<1>12. Date_or_None(t) = IF ~AllInts(parts) \/ Len(parts) # 3 THEN Nothing
                         ELSE IF IsDate(a[1], a[2], a[3]) THEN <<"date">> \o a ELSE Nothing
  BY Zenon DEF Date_or_None
<1>13. Date_or_None(t) = Nothing
  <2> HIDE DEF parts, row
  <2> QED
    BY <1>10, <1>11, <1>12, Zenon
<1> QED
  BY <1>13 DEF t

\* A text in which nothing occurs but ch and what occurs in its parts.
NoNews(ch, a, b, t) == \A c : c # ch /\ ~Occurs(c, a) /\ ~Occurs(c, b) => ~Occurs(c, t)
TwoNoNews(ch, a, b, d, t) ==
  \A c : c # ch /\ ~Occurs(c, a) /\ ~Occurs(c, b) /\ ~Occurs(c, d) => ~Occurs(c, t)

LEMMA OccursBetween ==
  ASSUME NEW C, NEW a \in Seq(C), NEW ch \in C, NEW b \in Seq(C), NEW t, t = a \o <<ch>> \o b
  PROVE  t \in Seq(C) /\ Occurs(ch, t) /\ NoNews(ch, a, b, t)
<1> DEFINE d == <<ch>>
           p == a \o d
<1>1. d \in Seq(C) /\ Occurs(ch, d) /\ \A c : c # ch => ~Occurs(c, d)
  BY FirstOf, OccursAlone, NotAlone
<1> HIDE DEF d
<1>2. p \in Seq(C) /\ \A c : Occurs(c, p) <=> Occurs(c, a) \/ Occurs(c, d)
  BY <1>1, AssocIs, OccursIn
<1> HIDE DEF p
<1>3. p \o b \in Seq(C) /\ \A c : Occurs(c, p \o b) <=> Occurs(c, p) \/ Occurs(c, b)
  BY <1>2, AssocIs, OccursIn
<1>4. t = p \o b
  BY DEF p, d
<1> QED
  BY <1>1, <1>2, <1>3, <1>4, Zenon DEF NoNews

LEMMA SevenInts ==
  ASSUME NEW a, NEW b, NEW c, NEW d, NEW e, NEW f, NEW g,
         IsInt(a), IsInt(b), IsInt(c), IsInt(d), IsInt(e), IsInt(f), IsInt(g)
  PROVE  /\ AllInts(<<a, b, c, d, e, f, g>>)
         /\ Ints(<<a, b, c, d, e, f, g>>) = <<int(a), int(b), int(c), int(d), int(e), int(f), int(g)>>
<1> DEFINE row == <<a, b, c, d, e, f, g>>
<1>1. /\ DOMAIN row = 1..7 /\ row[1] = a /\ row[2] = b /\ row[3] = c /\ row[4] = d /\ row[5] = e /\ row[6] = f
      /\ row[7] = g
  OBVIOUS
<1> HIDE DEF row
<1>2. \A i \in DOMAIN row : IsInt(row[i])
  <2>1. IsInt(row[1]) /\ IsInt(row[2]) /\ IsInt(row[3]) /\ IsInt(row[4]) /\ IsInt(row[5]) /\ IsInt(row[6]) /\ IsInt(row[7])
    BY <1>1
  <2> QED
    BY <1>1, <2>1
<1>3. Ints(row) = [i \in 1..7 |-> int(row[i])]
  BY <1>1 DEF Ints
<1>4. [i \in 1..7 |-> int(row[i])] = <<int(row[1]), int(row[2]), int(row[3]), int(row[4]), int(row[5]), int(row[6]), int(row[7])>>
  OBVIOUS
<1>5. Ints(row) = <<int(a), int(b), int(c), int(d), int(e), int(f), int(g)>>
  BY <1>1, <1>3, <1>4, Zenon
<1> QED
  BY <1>2, <1>5, Zenon DEF AllInts, row

Reads(parts, all) == AllInts(parts) /\ Ints(parts) = all

LEMMA SevenSay ==
  ASSUME NEW Y, NEW y, Says(Y, y), NEW O, NEW mo, Says(O, mo), NEW D, NEW dd, Says(D, dd), NEW H, NEW h, Says(H, h),
         NEW M, NEW mi, Says(M, mi), NEW W, NEW s, Says(W, s), NEW f, NEW us, Says(f, us)
  PROVE  Reads(<<Y, O, D>> \o <<H, M, W>> \o <<f>>, <<y, mo, dd, h, mi, s, us>>)
<1> DEFINE seven == <<Y, O, D, H, M, W, f>>
<1>1. /\ IsInt(Y) /\ IsInt(O) /\ IsInt(D) /\ IsInt(H) /\ IsInt(M) /\ IsInt(W) /\ IsInt(f)
      /\ int(Y) = y /\ int(O) = mo /\ int(D) = dd /\ int(H) = h /\ int(M) = mi /\ int(W) = s /\ int(f) = us
  BY Said, Zenon
<1>2. /\ AllInts(seven)
      /\ Ints(seven) = <<int(Y), int(O), int(D), int(H), int(M), int(W), int(f)>>
  BY <1>1, SevenInts
<1>3. <<Y, O, D>> \o <<H, M, W>> \o <<f>> = seven
  BY SevenInARow
<1> HIDE DEF seven
<1> QED
  BY <1>1, <1>2, <1>3, Zenon DEF Reads

LEMMA TwiceBetween ==
  ASSUME NEW C, NEW a \in Seq(C), NEW ch \in C, NEW b \in Seq(C), NEW d \in Seq(C), NEW t,
         t = a \o <<ch>> \o (b \o <<ch>> \o d)
  PROVE  t \in Seq(C) /\ TwoNoNews(ch, a, b, d, t)
<1> DEFINE q == b \o <<ch>> \o d
<1>1. q = b \o <<ch>> \o d
  OBVIOUS
<1> HIDE DEF q
<1>2. q \in Seq(C) /\ NoNews(ch, b, d, q)
  BY <1>1, OccursBetween
<1>3. t = a \o <<ch>> \o q
  BY <1>1
<1>4. t \in Seq(C) /\ NoNews(ch, a, q, t)
  BY <1>2, <1>3, OccursBetween
<1> QED
  BY <1>2, <1>4, Zenon DEF NoNews, TwoNoNews

LEMMA ClockFields ==
  ASSUME NEW H, NEW h, Says(H, h), NEW M, NEW mi, Says(M, mi), NEW W, NEW s, Says(W, s)
  PROVE  /\ SplitAll(ClockText(H, M, W), ":") = <<H, M, W>>
         /\ ClockText(H, M, W) \in Seq(Glyphs)
         /\ \A c \in Signs : c # ":" => ~Occurs(c, ClockText(H, M, W))
<1> DEFINE ch == ":"
           b == <<ch>>
           t == ClockText(H, M, W)
<1>1. /\ H \in Seq(Glyphs) /\ M \in Seq(Glyphs) /\ W \in Seq(Glyphs)
      /\ \A c \in Signs : ~Occurs(c, H) /\ ~Occurs(c, M) /\ ~Occurs(c, W)
  BY Said
<1>2. ch \in Glyphs /\ ch \in Signs /\ ch = ":"
  BY GlyphTexts
<1>3. t = H \o <<ch>> \o (M \o <<ch>> \o W)
  BY Zenon DEF ClockText
<1> HIDE DEF t, ch
<1>4. SplitAll(t, ch) = <<H, M, W>>
  <2> DEFINE u == H \o <<ch>> \o (M \o <<ch>> \o W)
  <2>1. ch \in Glyphs /\ ~Occurs(ch, H) /\ ~Occurs(ch, M) /\ ~Occurs(ch, W)
    BY <1>1, <1>2
  <2>2. Split(u, ch, 2) = <<H, M, W>> /\ (~Occurs(ch, W) => SplitAll(u, ch) = <<H, M, W>>)
    BY <1>1, <2>1, ThreeFields
  <2> QED
    BY <1>3, <2>1, <2>2, Zenon
<1>5. t \in Seq(Glyphs)
  <2>1. ch \in Glyphs
    BY <1>2
  <2> QED
    BY <1>1, <1>3, <2>1, TwiceBetween, Zenon
<1>6. \A c \in Signs : c # ch => ~Occurs(c, t)
  <2>1. ch \in Glyphs
    BY <1>2
  <2>2. H \in Seq(Glyphs) /\ M \in Seq(Glyphs) /\ W \in Seq(Glyphs)
    BY <1>1
  <2>3. TwoNoNews(ch, H, M, W, t)
    BY <1>3, <2>1, <2>2, TwiceBetween, Zenon
  <2> QED
    BY <1>1, <2>3, Zenon DEF TwoNoNews
<1> QED
  BY <1>2, <1>4, <1>5, <1>6, Zenon DEF t

LEMMA TimeInts ==
  ASSUME NEW h, NEW mi, NEW s, NEW us, IsTime(h, mi, s, us)
  PROVE  /\ h \in Nat /\ mi \in Nat /\ s \in Nat /\ us \in 0..(Million - 1) /\ us \in Nat
         /\ h \in Int /\ mi \in Int /\ s \in Int /\ us \in Int
<1>1. h \in 0..23 /\ mi \in 0..59 /\ s \in 0..59 /\ us \in 0..(Million - 1)
  BY Zenon DEF IsTime
<1>2. us \in Nat
  BY <1>1, Micros, Zenon
<1> QED
  BY <1>1, <1>2

LEMMA SaysInt ==
  ASSUME NEW t, NEW n, Says(t, n)
  PROVE  n \in Int /\ n \in Nat
<1>1. t \in Seq(Figures) /\ Number(t) = n /\ "0" \in Figures
  BY ZeroSays, Zenon DEF Says
<1>2. n \in Nat
  BY <1>1, NumberMore, Zenon
<1> QED
  BY <1>2

\* What stands between a day and a time of day.
Between == {" ", "T"}

\* The time of day of a value.
SaysClock(x, d) == SaysTime(x, d[5], d[6], d[7], d[8])
HasTime(d)      == IsTime(d[5], d[6], d[7], d[8])
MomentOf(d)     == Moment(d[2], d[3], d[4], d[5], d[6], d[7], d[8])

\* A day and a time of day are read as they are.
LEMMA StampRead ==
  ASSUME NEW d, HasTime(d), NEW w, SaysDay(w, d), NEW sep \in Between, NEW x, SaysClock(x, d),
         NEW t, t = w \o <<sep>> \o x
  PROVE  DateTime_or_None(t) = MomentOf(d)
<1> DEFINE y  == d[2]
           mo == d[3]
           dd == d[4]
           h  == d[5]
           mi == d[6]
           s  == d[7]
           us == d[8]
<1>1. PICK Y, O, D : w = DayText(Y, O, D) /\ Says(Y, y) /\ Says(O, mo) /\ Says(D, dd)
  BY Zenon DEF SaysDay
<1>2. SaysTime(x, h, mi, s, us) /\ IsTime(h, mi, s, us)
  BY Zenon DEF SaysClock, HasTime
<1>3. MomentOf(d) = Moment(y, mo, dd, h, mi, s, us)
  BY Zenon DEF MomentOf
<1> HIDE DEF y, mo, dd, h, mi, s, us
<1> USE <1>1, <1>2
<1> DEFINE day   == DayText(Y, O, D)
           cut   == IF Occurs(" ", t) THEN " " ELSE "T"
           dt    == Split(t, cut, 1)
           tt    == Fraction(dt[2])
           parts == SplitAll(dt[1], "-") \o SplitAll(tt[1], ":") \o <<tt[2]>>
           v     == IF AllInts(parts) THEN datetime(Ints(parts)) ELSE Nothing
<1>4. PICK H, M, W, f : /\ Fraction(x) = <<ClockText(H, M, W), f>>
                        /\ Says(H, h) /\ Says(M, mi) /\ Says(W, s) /\ Says(f, us)
  BY Zenon DEF SaysTime
<1>5. x \in Seq(Glyphs) /\ EndsInFigure(x) /\ ~Occurs(" ", x) /\ ~Occurs("T", x)
  BY Zenon DEF SaysTime
<1>6. /\ day \in Seq(Glyphs) /\ ~Occurs(" ", day) /\ ~Occurs("T", day) /\ SplitAll(day, "-") = <<Y, O, D>>
  BY DayFields, Zenon
<1>7. sep \in Signs /\ sep \in Glyphs
  BY GlyphTexts DEF Glyphs, Between
<1>8. sep = " " \/ sep = "T"
  BY DEF Between
<1>9. ~Occurs(sep, day)
  BY <1>6, <1>8
<1>10. t = day \o <<sep>> \o x
  OBVIOUS
<1>11. Date_or_None(t) = Nothing
  BY <1>5, <1>7, NoDay, Zenon
<1> DEFINE clock == ClockText(H, M, W)
           seven == <<Y, O, D>> \o <<H, M, W>> \o <<f>>
           all == <<y, mo, dd, h, mi, s, us>>
<1> HIDE DEF day
<1>12. Split(t, sep, 1) = <<day, x>>
  BY <1>5, <1>6, <1>7, <1>9, <1>10, TwoFields, ZenonT(30)
<1>13. Occurs(sep, t) /\ (Occurs(" ", t) => sep = " ")
  <2>1. Occurs(sep, t) /\ \A c : c # sep /\ ~Occurs(c, day) /\ ~Occurs(c, x) => ~Occurs(c, t)
    BY <1>5, <1>6, <1>7, <1>10, OccursBetween, ZenonT(30) DEF NoNews
  <2> QED
    BY <1>5, <1>6, <1>8, <2>1, Zenon
<1>14. cut = sep
  BY <1>13, <1>8
<1>15. ~(~Occurs(" ", t) /\ ~Occurs("T", t))
  BY <1>13, <1>8
<1>16. dt[1] = day /\ dt[2] = x
  <2>1. dt = <<day, x>>
    BY <1>12, <1>14, Zenon
  <2> HIDE DEF dt
  <2> QED
    BY <2>1
<1> HIDE DEF cut, dt
<1>17. tt[1] = clock /\ tt[2] = f
  <2> HIDE DEF clock
  <2>1. tt = <<clock, f>>
    BY <1>4, <1>16, Zenon DEF clock
  <2> HIDE DEF tt
  <2> QED
    BY <2>1
<1>18. SplitAll(clock, ":") = <<H, M, W>>
  BY <1>4, ClockFields, Zenon
<1>19. parts = seven
  <2> HIDE DEF tt, clock
  <2> QED
    BY <1>6, <1>16, <1>17, <1>18, Zenon
<1>20. Reads(seven, all)
  BY <1>4, SevenSay
<1>21. datetime(all) = Moment(y, mo, dd, h, mi, s, us)
  <2>1. /\ y \in Int /\ mo \in Int /\ dd \in Int
        /\ h \in Int /\ mi \in Int /\ s \in Int /\ us \in Int
    BY SaysInt, TimeInts, Zenon
  <2>2. FilledUpTo(all, all)
    BY <2>1, SevenFilledUp
  <2> QED
    BY <2>2, MomentIs, Zenon
<1>22. v = Moment(y, mo, dd, h, mi, s, us)
  <2> HIDE DEF parts, seven, all
  <2> QED
    BY <1>19, <1>20, <1>21, Zenon DEF Reads
<1>23. DateTime_or_None(t) = IF ~Occurs(" ", t) /\ ~Occurs("T", t) THEN Date_or_None(t)
                             ELSE IF v = Nothing THEN Date_or_None(t) ELSE v
  BY Zenon DEF DateTime_or_None, cut, dt
<1> HIDE DEF v
<1> QED
  BY <1>11, <1>15, <1>22, <1>23, <1>3, Zenon

LEMMA LastAfter ==
  ASSUME NEW C, NEW F, NEW a \in Seq(C), NEW ch \in C, NEW b \in Seq(C), Len(b) >= 1, b[Len(b)] \in F,
         NEW t, t = a \o <<ch>> \o b
  PROVE  t \in Seq(C) /\ Len(t) >= 1 /\ t[Len(t)] \in F
<1> DEFINE n == Len(b)
           m == Len(a)
<1>1. m \in Nat /\ n \in Nat /\ n >= 1
  OBVIOUS
<1>2. t \in Seq(C) /\ Behind(t, a, ch, b)
  BY PutTogether
<1>3. /\ t \in Seq(C) /\ Len(t) = m + 1 + n
      /\ \A k \in 1..n : t[m + 1 + k] = b[k]
  BY <1>2, Zenon DEF Behind
<1> HIDE DEF n, m
<1>4. Len(t) >= 1 /\ t[Len(t)] = b[n]
  BY <1>1, <1>3, SMTT(30)
<1> QED
  BY <1>3, <1>4, Zenon DEF n

LEMMA EndsAfter ==
  ASSUME NEW a \in Seq(Glyphs), NEW ch \in Glyphs, NEW b \in Seq(Glyphs), EndsInFigure(b), NEW t, t = a \o <<ch>> \o b
  PROVE  t \in Seq(Glyphs) /\ EndsInFigure(t)
<1> DEFINE F == Figures
<1>1. Len(b) >= 1 /\ b[Len(b)] \in F
  BY Zenon DEF EndsInFigure
<1> HIDE DEF F
<1>2. t \in Seq(Glyphs) /\ Len(t) >= 1 /\ t[Len(t)] \in F
  BY <1>1, LastAfter
<1> QED
  BY <1>2, Zenon DEF EndsInFigure, F

LEMMA ClockEnds ==
  ASSUME NEW H, NEW h, Says(H, h), NEW M, NEW mi, Says(M, mi), NEW W, NEW s, Says(W, s)
  PROVE  EndsInFigure(ClockText(H, M, W))
<1> DEFINE ch == ":"
           x == ClockText(H, M, W)
           q == M \o <<ch>> \o W
<1>1. /\ H \in Seq(Glyphs) /\ M \in Seq(Glyphs) /\ W \in Seq(Glyphs) /\ EndsInFigure(W)
  BY Said DEF EndsInFigure
<1>2. ch \in Glyphs
  BY GlyphTexts
<1>3. x = H \o <<ch>> \o q
  BY Zenon DEF ClockText
<1> HIDE DEF ch
<1>4. q \in Seq(Glyphs) /\ EndsInFigure(q)
  BY <1>1, <1>2, EndsAfter, Zenon
<1> HIDE DEF q, x
<1>5. EndsInFigure(x)
  BY <1>1, <1>2, <1>3, <1>4, EndsAfter, Zenon
<1> QED
  BY <1>5, Zenon DEF x

\* A clock without a fraction.
LEMMA ClockSays ==
  ASSUME NEW H, NEW h, Says(H, h), NEW M, NEW mi, Says(M, mi), NEW W, NEW s, Says(W, s)
  PROVE  SaysTime(ClockText(H, M, W), h, mi, s, 0) /\ ~Occurs(".", ClockText(H, M, W))
<1> DEFINE x == ClockText(H, M, W)
           z == "0"
<1>1. x \in Seq(Glyphs) /\ \A c \in Signs : c # ":" => ~Occurs(c, x)
  BY ClockFields, Zenon
<1>2. ~Occurs(" ", x) /\ ~Occurs("T", x) /\ ~Occurs(".", x)
  BY <1>1, GlyphTexts
<1>3. Fraction(x) = <<x, <<z>>>> /\ Says(<<z>>, 0)
  BY <1>1, <1>2, FractionNone, ZeroSays, Zenon
<1>4. EndsInFigure(x)
  BY ClockEnds, Zenon
<1> QED
  BY <1>1, <1>2, <1>3, <1>4, Zenon DEF SaysTime, x

LEMMA LastOne ==
  ASSUME NEW F, NEW b \in Seq(F), NEW n \in 1..6, Len(b) = n
  PROVE  Len(b) >= 1 /\ b[Len(b)] \in F
OBVIOUS

\* A clock with a fraction that fits its column.
LEMMA FractionSays ==
  ASSUME NEW H, NEW h, Says(H, h), NEW M, NEW mi, Says(M, mi), NEW W, NEW s, Says(W, s),
         NEW us \in 0..(Million - 1), NEW n \in 1..6, FitsColumn(us, n)
  PROVE  SaysTime(ClockText(H, M, W) \o <<".">> \o Digit6(us, n), h, mi, s, us)
<1> DEFINE x == ClockText(H, M, W)
           ch == "."
           b == Digit6(us, n)
           t == x \o <<ch>> \o b
           f == ljust(b, 6)
<1>1. x \in Seq(Glyphs) /\ \A c \in Signs : c # ":" => ~Occurs(c, x)
  BY ClockFields, Zenon
<1>2. ~Occurs(" ", x) /\ ~Occurs("T", x) /\ ~Occurs(ch, x) /\ ch \in Glyphs
  BY <1>1, GlyphTexts
<1>3. b \in Seq(Figures) /\ Len(b) = n /\ Says(f, us)
  <2>1. n \in 0..6
    OBVIOUS
  <2> QED
    BY <2>1, FitsIs, Zenon
<1>4. Len(b) >= 1 /\ b[Len(b)] \in Figures /\ b \in Seq(Glyphs)
  <2> HIDE DEF b
  <2>1. Seq(Figures) \subseteq Seq(Glyphs)
    BY GlyphTexts
  <2>2. Len(b) >= 1 /\ b[Len(b)] \in Figures
    BY <1>3, LastOne, Zenon
  <2> QED
    BY <1>3, <2>1, <2>2, Zenon
<1>5. \A c \in Signs : ~Occurs(c, b)
  BY <1>3, NoSigns, Zenon
<1>6. Fraction(t) = <<x, f>>
  BY <1>1, <1>2, <1>3, FractionSome, Zenon
<1> HIDE DEF b, x, f
<1>7. EndsInFigure(b)
  BY <1>4, Zenon DEF EndsInFigure
<1>8. " " \in Signs /\ "T" \in Signs /\ " " # ch /\ "T" # ch
  BY GlyphTexts
<1>9. t = x \o <<ch>> \o b
  OBVIOUS
<1> HIDE DEF ch, t
<1>10. t \in Seq(Glyphs) /\ EndsInFigure(t)
  BY <1>1, <1>2, <1>4, <1>7, <1>9, EndsAfter, Zenon
<1>11. NoNews(ch, x, b, t)
  BY <1>1, <1>2, <1>4, <1>9, OccursBetween, Zenon
<1>12. ~Occurs(" ", t) /\ ~Occurs("T", t)
  BY <1>2, <1>5, <1>8, <1>11, Zenon DEF NoNews
<1>13. \E H1, M1, W1, f1 : /\ Fraction(t) = <<ClockText(H1, M1, W1), f1>>
                           /\ Says(H1, h) /\ Says(M1, mi) /\ Says(W1, s) /\ Says(f1, us)
  BY <1>3, <1>6, Zenon DEF x, f
<1> QED
  BY <1>10, <1>12, <1>13, Zenon DEF SaysTime, t, x, b, ch

\* Where ISO puts the parts of a date and of a time of day.
SameIso(y, b, o, d, e, h, c, m, s, f) ==
  y \o b \o o \o b \o d \o (e \o h \o c \o m \o c \o s \o f) =
  y \o b \o (o \o b \o d) \o e \o (h \o c \o (m \o c \o s) \o f)

LEMMA IsoPut ==
  ASSUME NEW C, NEW y \in Seq(C), NEW b \in Seq(C), NEW o \in Seq(C), NEW d \in Seq(C), NEW e \in Seq(C),
         NEW h \in Seq(C), NEW c \in Seq(C), NEW m \in Seq(C), NEW s \in Seq(C), NEW f \in Seq(C)
  PROVE  SameIso(y, b, o, d, e, h, c, m, s, f)
<1> DEFINE yb   == y \o b
           ob   == o \o b
           day  == yb \o (ob \o d)
           hc   == h \o c
           mc   == m \o c
           mcs  == mc \o s
           hms  == hc \o mcs
           eh   == e \o h
           ehc  == eh \o c
           ehcm == ehc \o m
           ehcmc == ehcm \o c
           ehms == ehcmc \o s
<1>1. yb \in Seq(C) /\ ob \in Seq(C) /\ hc \in Seq(C) /\ mc \in Seq(C) /\ eh \in Seq(C)
  OBVIOUS
<1>2. yb \o o \o b = yb \o ob
  <2> HIDE DEF yb
  <2>1. Assoc(yb, o, b)
    BY <1>1, AssocIs
  <2> QED
    BY <2>1, Zenon DEF Assoc, ob
<1>3. ob \o d \in Seq(C) /\ yb \o ob \in Seq(C) /\ yb \o ob \o d = day
  <2> HIDE DEF yb, ob
  <2>1. Assoc(yb, ob, d) /\ ob \o d \in Seq(C) /\ yb \o ob \in Seq(C)
    BY <1>1, AssocIs
  <2> QED
    BY <2>1, Zenon DEF Assoc
<1>4. day \in Seq(C)
  <2> HIDE DEF yb, ob
  <2> QED
    BY <1>1, <1>3, AssocIs
<1>5. mcs \in Seq(C) /\ hms \in Seq(C)
  <2> HIDE DEF mc, hc
  <2>1. mcs \in Seq(C)
    BY <1>1, AssocIs
  <2> HIDE DEF mcs
  <2> QED
    BY <1>1, <2>1, AssocIs
<1>6. ehc = e \o hc /\ ehc \in Seq(C)
  <2>1. Assoc(e, h, c) /\ e \o hc \in Seq(C)
    BY <1>1, AssocIs
  <2> QED
    BY <2>1, Zenon DEF Assoc
<1>7. ehcmc = ehc \o mc /\ ehcmc \in Seq(C)
  <2> HIDE DEF ehc
  <2>1. Assoc(ehc, m, c) /\ ehc \o (m \o c) \in Seq(C)
    BY <1>1, <1>6, AssocIs
  <2> QED
    BY <2>1, Zenon DEF Assoc
<1>8. ehms = ehc \o mcs
  <2> HIDE DEF ehc, mc, ehcmc
  <2>1. Assoc(ehc, mc, s)
    BY <1>1, <1>6, AssocIs
  <2> QED
    BY <1>7, <2>1, Zenon DEF Assoc
<1>9. ehms = e \o hms
  <2> HIDE DEF hc, mcs, ehc, ehms
  <2>1. Assoc(e, hc, mcs)
    BY <1>1, <1>5, AssocIs
  <2> QED
    BY <1>6, <1>8, <2>1, Zenon DEF Assoc
<1> HIDE DEF day, hms, ehms
<1>10. Assoc(e, hms, f) /\ hms \o f \in Seq(C)
  BY <1>5, AssocIs
<1>11. Assoc(day, e, hms \o f)
  BY <1>4, <1>10, AssocIs
<1>12. day \o (ehms \o f) = day \o e \o (hms \o f)
  BY <1>9, <1>10, <1>11, Zenon DEF Assoc
<1>13. day = yb \o o \o b \o d
  BY <1>2, <1>3, Zenon
<1> QED
  BY <1>12, <1>13, Zenon DEF SameIso, day, ehms, hms, ehcmc, ehcm, ehc, eh, mcs, mc, hc, ob, yb

\* The numbers that ISO can write, whether a calendar has the day or not.
Years == 0..9999
Pairs == 0..99
Stamped(d) == d[1] = "datetime" /\ d[2] \in Years /\ d[3] \in Pairs /\ d[4] \in Pairs /\ HasTime(d)

IsoDay(d)   == DayText(Padded(d[2], 4), Padded(d[3], 2), Padded(d[4], 2))
IsoClock(d) == ClockText(Padded(d[5], 2), Padded(d[6], 2), Padded(d[7], 2))
IsoBack(d)  == IF d[8] = 0 THEN IsoClock(d) ELSE IsoClock(d) \o <<".">> \o Padded(d[8], 6)

\* t says n in so many digits.
SaysIn(t, n, width) == Says(t, n) /\ Len(t) = width

LEMMA ShortSays ==
  ASSUME NEW n \in Nat, NEW width \in Nat, Len(Decimal(n)) <= width
  PROVE  SaysIn(Padded(n, width), n, width)
<1>1. Len(Padded(n, width)) = width
  BY PaddedIs, Zenon
<1>2. Says(Padded(n, width), n)
  BY PaddedSays, Zenon
<1> QED
  BY <1>1, <1>2, Zenon DEF SaysIn

LEMMA TwoFigures ==
  ASSUME NEW n \in Pairs
  PROVE  SaysIn(Padded(n, 2), n, 2)
<1>1. n \in Nat /\ 2 \in Nat
  BY DEF Pairs
<1>2. Len(Decimal(n)) <= 2
  <2>1. n < 100
    BY DEF Pairs
  <2> QED
    BY <1>1, <2>1, DecimalLength
<1> QED
  BY <1>1, <1>2, ShortSays, Zenon

LEMMA FourFigures ==
  ASSUME NEW n \in Years
  PROVE  SaysIn(Padded(n, 4), n, 4)
<1>1. n \in Nat /\ 4 \in Nat
  BY DEF Years
<1>2. Len(Decimal(n)) <= 4
  <2>1. n < 10000
    BY DEF Years
  <2> QED
    BY <1>1, <2>1, DecimalLength
<1> QED
  BY <1>1, <1>2, ShortSays, Zenon

LEMMA ClockPairs ==
  ASSUME NEW h, NEW mi, NEW s, NEW us, IsTime(h, mi, s, us)
  PROVE  h \in Pairs /\ mi \in Pairs /\ s \in Pairs
<1>1. h \in 0..23 /\ mi \in 0..59 /\ s \in 0..59
  BY Zenon DEF IsTime
<1> QED
  BY <1>1 DEF Pairs

\* Every part is as long as ISO has it.
LEMMA StampParts ==
  ASSUME NEW d, Stamped(d)
  PROVE  /\ SaysIn(Padded(d[2], 4), d[2], 4) /\ SaysIn(Padded(d[3], 2), d[3], 2) /\ SaysIn(Padded(d[4], 2), d[4], 2)
         /\ SaysIn(Padded(d[5], 2), d[5], 2) /\ SaysIn(Padded(d[6], 2), d[6], 2) /\ SaysIn(Padded(d[7], 2), d[7], 2)
         /\ d[8] \in 0..(Million - 1) /\ d[8] \in Nat /\ HasTime(d)
<1>1. d[2] \in Years /\ d[3] \in Pairs /\ d[4] \in Pairs /\ HasTime(d)
  BY Zenon DEF Stamped
<1>2. IsTime(d[5], d[6], d[7], d[8])
  BY <1>1, Zenon DEF HasTime
<1>3. d[5] \in Pairs /\ d[6] \in Pairs /\ d[7] \in Pairs
  BY <1>2, ClockPairs, Zenon
<1>4. d[8] \in 0..(Million - 1) /\ d[8] \in Nat
  BY <1>2, TimeInts, Zenon
<1>5. SaysIn(Padded(d[2], 4), d[2], 4)
  BY <1>1, FourFigures, Zenon
<1>6. \A n \in Pairs : SaysIn(Padded(n, 2), n, 2)
  BY TwoFigures, Zenon
<1> QED
  BY <1>1, <1>3, <1>4, <1>5, <1>6, Zenon

LEMMA Nought ==
  ASSUME NEW C
  PROVE  <<>> \in Seq(C) /\ \A a \in Seq(C) : a \o <<>> = a
OBVIOUS

\* The text of a date and a time of day, in its parts.
LEMMA IsoIs ==
  ASSUME NEW d, Stamped(d), NEW sep \in Between
  PROVE  Iso(sep, d) = IsoDay(d) \o <<sep>> \o IsoBack(d)
<1> DEFINE Y == Padded(d[2], 4)
           O == Padded(d[3], 2)
           D == Padded(d[4], 2)
           H == Padded(d[5], 2)
           M == Padded(d[6], 2)
           W == Padded(d[7], 2)
           P == Padded(d[8], 6)
           b == <<"-">>
           c == <<":">>
           e == <<sep>>
           p == <<".">>
           clock == H \o c \o (M \o c \o W)
           f == IF d[8] = 0 THEN <<>> ELSE p \o P
<1>1. Iso(sep, d) = Y \o b \o O \o b \o D \o (e \o H \o c \o M \o c \o W \o f)
  <2>1. d[1] = "datetime" /\ "datetime" # "date"
    BY DEF Stamped
  <2> QED
    BY <2>1, Zenon DEF Iso
<1>2. /\ Y \in Seq(Glyphs) /\ O \in Seq(Glyphs) /\ D \in Seq(Glyphs)
      /\ H \in Seq(Glyphs) /\ M \in Seq(Glyphs) /\ W \in Seq(Glyphs)
  <2>1. \A t, n, width : SaysIn(t, n, width) => t \in Seq(Glyphs)
    BY Said, Zenon DEF SaysIn
  <2> QED
    BY <2>1, StampParts, Zenon
<1>3. P \in Seq(Glyphs)
  <2>1. d[8] \in Nat /\ 6 \in Nat
    <3>1. d[8] \in Nat
      BY StampParts, Zenon
    <3> QED
      BY <3>1
  <2>2. Padded(d[8], 6) \in Seq(Figures)
    BY <2>1, PaddedIs, Zenon
  <2> QED
    BY <2>2, GlyphTexts, Zenon
<1>4. b \in Seq(Glyphs) /\ c \in Seq(Glyphs) /\ e \in Seq(Glyphs) /\ p \in Seq(Glyphs)
  <2>1. "-" \in Glyphs /\ ":" \in Glyphs /\ "." \in Glyphs /\ sep \in Glyphs
    BY GlyphTexts DEF Between
  <2>2. <<>> \in Seq(Glyphs)
    BY Nought, Zenon
  <2> QED
    BY <2>1, <2>2, FirstOf, Zenon
<1> HIDE DEF Y, O, D, H, M, W, P, b, c, e, p
<1>5. f \in Seq(Glyphs)
  <2>1. p \o P \in Seq(Glyphs)
    BY <1>3, <1>4, AssocIs, Zenon
  <2>2. <<>> \in Seq(Glyphs)
    BY Nought, Zenon
  <2> QED
    BY <2>1, <2>2, Zenon
<1>6. clock \in Seq(Glyphs)
  <2>1. H \o c \in Seq(Glyphs) /\ M \o c \in Seq(Glyphs)
    BY <1>2, <1>4, AssocIs, Zenon
  <2>2. M \o c \o W \in Seq(Glyphs)
    BY <1>2, <2>1, AssocIs, Zenon
  <2> QED
    BY <2>1, <2>2, AssocIs, Zenon
<1>7. Iso(sep, d) = Y \o b \o (O \o b \o D) \o e \o (clock \o f)
  <2> HIDE DEF f
  <2>1. SameIso(Y, b, O, D, e, H, c, M, W, f)
    BY <1>2, <1>4, <1>5, IsoPut, Zenon
  <2> QED
    BY <1>1, <2>1, Zenon DEF SameIso
<1>8. clock \o f = IF d[8] = 0 THEN clock ELSE clock \o p \o P
  <2> HIDE DEF clock
  <2>1. clock \o <<>> = clock
    BY <1>6, Nought, Zenon
  <2>2. Assoc(clock, p, P)
    BY <1>3, <1>4, <1>6, AssocIs, Zenon
  <2> QED
    BY <2>1, <2>2, Zenon DEF Assoc
<1> QED
  BY <1>7, <1>8, Zenon DEF IsoDay, IsoClock, IsoBack, DayText, ClockText, Y, O, D, H, M, W, P, b, c, e, p, clock

LEMMA WholeFraction ==
  ASSUME NEW us \in 0..(Million - 1)
  PROVE  FitsColumn(us, 6) /\ Digit6(us, 6) = Padded(us, 6)
<1>1. us \in Nat /\ 6 \in Nat /\ 6 \in 0..6
  BY Micros
<1>2. us % Unit[6 + 1] = 0
  BY <1>1, SMT DEF Unit
<1>3. FitsColumn(us, 6) /\ Len(Digit6(us, 6)) = 6
  BY <1>1, <1>2, FitsIs
<1>4. Len(Padded(us, 6)) = 6 /\ Padded(us, 6) \in Seq(Figures)
  <2>1. us < 1000000
    BY Micros, BelowMillion
  <2>2. Len(Decimal(us)) <= 6
    BY <1>1, <2>1, DecimalLength
  <2> QED
    BY <1>1, <2>2, PaddedIs
<1>5. SubSeq(Padded(us, 6), 1, 6) = Padded(us, 6)
  BY <1>4
<1> QED
  BY <1>3, <1>5, Zenon DEF Digit6

IsoColumn(d, n) == IsoClock(d) \o <<".">> \o Digit6(d[8], n)

\* What stands behind the day says the time of day.
LEMMA IsoSays ==
  ASSUME NEW d, Stamped(d)
  PROVE  /\ SaysTime(IsoClock(d), d[5], d[6], d[7], 0) /\ SaysClock(IsoBack(d), d)
         /\ \A n \in 1..6 : FitsColumn(d[8], n) => SaysClock(IsoColumn(d, n), d)
<1> DEFINE us == d[8]
<1>1. Says(Padded(d[5], 2), d[5]) /\ Says(Padded(d[6], 2), d[6]) /\ Says(Padded(d[7], 2), d[7]) /\ us \in 0..(Million - 1)
  BY StampParts, Zenon DEF SaysIn
<1>2. SaysTime(IsoClock(d), d[5], d[6], d[7], 0)
  BY <1>1, ClockSays, Zenon DEF IsoClock
<1>3. ASSUME NEW n \in 1..6, FitsColumn(us, n)
      PROVE  SaysClock(IsoColumn(d, n), d)
  BY <1>1, <1>3, FractionSays, Zenon DEF IsoClock, IsoColumn, SaysClock
<1>4. 6 \in 1..6
  OBVIOUS
<1>5. FitsColumn(us, 6) /\ Digit6(us, 6) = Padded(us, 6)
  BY <1>1, WholeFraction, Zenon
<1>6. SaysClock(IsoColumn(d, 6), d)
  BY <1>3, <1>4, <1>5, Zenon
<1>7. SaysClock(IsoBack(d), d)
  <2>1. CASE us = 0
    BY <1>2, <2>1, Zenon DEF IsoBack, SaysClock
  <2>2. CASE us # 0
    BY <1>5, <1>6, <2>2, Zenon DEF IsoBack, IsoColumn
  <2> QED
    BY <2>1, <2>2, Zenon
<1> QED
  BY <1>2, <1>3, <1>7, Zenon

\* A day and what says a time of day are read as they are written.
LEMMA PartsRead ==
  ASSUME NEW d, Stamped(d), NEW sep \in Between, NEW x, SaysClock(x, d), NEW t, t = IsoDay(d) \o <<sep>> \o x
  PROVE  DateTime_or_None(t) = MomentOf(d)
<1>1. Says(Padded(d[2], 4), d[2]) /\ Says(Padded(d[3], 2), d[3]) /\ Says(Padded(d[4], 2), d[4]) /\ HasTime(d)
  BY StampParts, Zenon DEF SaysIn
<1>2. SaysDay(IsoDay(d), d)
  BY <1>1, Zenon DEF SaysDay, IsoDay
<1> QED
  BY <1>1, <1>2, StampRead, ZenonT(30)

\* format_TIMESTAMP's text is read back.
LEMMA IsoRead ==
  ASSUME NEW d, Stamped(d), NEW sep \in Between
  PROVE  DateTime_or_None(Iso(sep, d)) = MomentOf(d)
BY IsoIs, IsoSays, PartsRead, Zenon

LEMMA LenBetween ==
  ASSUME NEW C, NEW a \in Seq(C), NEW ch \in C, NEW b \in Seq(C)
  PROVE  a \o <<ch>> \o b \in Seq(C) /\ Len(a \o <<ch>> \o b) = Len(a) + 1 + Len(b)
BY PutTogether DEF Behind

LEMMA ThreeLong ==
  ASSUME NEW C, NEW a \in Seq(C), NEW ch \in C, NEW b \in Seq(C), NEW d \in Seq(C), NEW t,
         t = a \o <<ch>> \o (b \o <<ch>> \o d)
  PROVE  t \in Seq(C) /\ Len(t) = Len(a) + 1 + (Len(b) + 1 + Len(d))
<1> DEFINE u == b \o <<ch>> \o d
<1>1. u \in Seq(C) /\ Len(u) = Len(b) + 1 + Len(d)
  BY LenBetween
<1> HIDE DEF u
<1>2. a \o <<ch>> \o u \in Seq(C) /\ Len(a \o <<ch>> \o u) = Len(a) + 1 + Len(u)
  BY <1>1, LenBetween
<1> QED
  BY <1>1, <1>2, Zenon DEF u

\* Ten characters of a day, eight of a time of day.
LEMMA IsoLengths ==
  ASSUME NEW d, Stamped(d)
  PROVE  /\ IsoDay(d) \in Seq(Glyphs) /\ Len(IsoDay(d)) = 10
         /\ IsoClock(d) \in Seq(Glyphs) /\ Len(IsoClock(d)) = 8
<1> DEFINE Y == Padded(d[2], 4)
           O == Padded(d[3], 2)
           D == Padded(d[4], 2)
           H == Padded(d[5], 2)
           M == Padded(d[6], 2)
           W == Padded(d[7], 2)
           dash == "-"
           colon == ":"
           day == IsoDay(d)
           clock == IsoClock(d)
<1>1. /\ SaysIn(Y, d[2], 4) /\ SaysIn(O, d[3], 2) /\ SaysIn(D, d[4], 2)
      /\ SaysIn(H, d[5], 2) /\ SaysIn(M, d[6], 2) /\ SaysIn(W, d[7], 2)
  BY StampParts, Zenon
<1>2. \A t, n, width : SaysIn(t, n, width) => t \in Seq(Glyphs) /\ Len(t) = width
  BY Said, Zenon DEF SaysIn
<1>3. day = Y \o <<dash>> \o (O \o <<dash>> \o D) /\ clock = H \o <<colon>> \o (M \o <<colon>> \o W)
  BY Zenon DEF IsoDay, IsoClock, DayText, ClockText
<1>4. dash \in Glyphs /\ colon \in Glyphs
  BY GlyphTexts
<1> HIDE DEF Y, O, D, H, M, W, dash, colon, day, clock
<1>5. /\ Y \in Seq(Glyphs) /\ O \in Seq(Glyphs) /\ D \in Seq(Glyphs)
      /\ H \in Seq(Glyphs) /\ M \in Seq(Glyphs) /\ W \in Seq(Glyphs)
  BY <1>1, <1>2, Zenon
<1>6. Len(Y) = 4 /\ Len(O) = 2 /\ Len(D) = 2 /\ Len(H) = 2 /\ Len(M) = 2 /\ Len(W) = 2
  BY <1>1, Zenon DEF SaysIn
<1>7. day \in Seq(Glyphs) /\ Len(day) = Len(Y) + 1 + (Len(O) + 1 + Len(D))
  <2>1. Y \in Seq(Glyphs) /\ O \in Seq(Glyphs) /\ D \in Seq(Glyphs) /\ dash \in Glyphs
    BY <1>5, <1>4, Zenon
  <2>2. day = Y \o <<dash>> \o (O \o <<dash>> \o D)
    BY <1>3, Zenon
  <2> QED
    BY <2>1, <2>2, ThreeLong
<1>8. clock \in Seq(Glyphs) /\ Len(clock) = Len(H) + 1 + (Len(M) + 1 + Len(W))
  <2>1. H \in Seq(Glyphs) /\ M \in Seq(Glyphs) /\ W \in Seq(Glyphs) /\ colon \in Glyphs
    BY <1>5, <1>4, Zenon
  <2>2. clock = H \o <<colon>> \o (M \o <<colon>> \o W)
    BY <1>3, Zenon
  <2> QED
    BY <2>1, <2>2, ThreeLong
<1>9. Len(day) = 10 /\ Len(clock) = 8
  BY <1>6, <1>7, <1>8
<1> QED
  BY <1>7, <1>8, <1>9, Zenon DEF day, clock

\* The same date and time of day without microseconds.
Whole(w, d) ==
  /\ w[1] = d[1] /\ w[2] = d[2] /\ w[3] = d[3] /\ w[4] = d[4]
  /\ w[5] = d[5] /\ w[6] = d[6] /\ w[7] = d[7] /\ w[8] = 0

LEMMA WholeStamped ==
  ASSUME NEW d, Stamped(d), NEW w, Whole(w, d)
  PROVE  Stamped(w) /\ IsoDay(w) = IsoDay(d) /\ IsoBack(w) = IsoClock(d)
<1>1. 0 \in 0..(Million - 1)
  BY Micros
<1>2. HasTime(w)
  BY <1>1, Zenon DEF Stamped, HasTime, IsTime, Whole
<1>3. Stamped(w)
  BY <1>2, Zenon DEF Stamped, Whole
<1> QED
  BY <1>3, Zenon DEF IsoDay, IsoClock, IsoBack, Whole

SameBehind(a, e, c, p, g) == a \o e \o c \o p \o g = a \o e \o (c \o p \o g)

LEMMA BehindPut ==
  ASSUME NEW C, NEW a \in Seq(C), NEW e \in Seq(C), NEW c \in Seq(C), NEW p \in Seq(C), NEW g \in Seq(C)
  PROVE  SameBehind(a, e, c, p, g)
<1> DEFINE u == a \o e
           q == c \o p
<1>1. u \in Seq(C) /\ q \in Seq(C)
  OBVIOUS
<1>2. u \o c \o p = u \o q
  <2> HIDE DEF u
  <2>1. Assoc(u, c, p)
    BY <1>1, AssocIs
  <2> QED
    BY <2>1, Zenon DEF Assoc, q
<1>3. u \o q \o g = u \o (q \o g)
  <2> HIDE DEF u, q
  <2>1. Assoc(u, q, g)
    BY <1>1, AssocIs
  <2> QED
    BY <2>1, Zenon DEF Assoc
<1> QED
  BY <1>2, <1>3, Zenon DEF SameBehind, u, q

LEMMA WholeText ==
  ASSUME NEW C, NEW a \in Seq(C), NEW ch \in C, NEW b \in Seq(C), NEW n, n = Len(a) + 1 + Len(b)
  PROVE  SubSeq(a \o <<ch>> \o b, 1, n) = a \o <<ch>> \o b
<1> DEFINE t == a \o <<ch>> \o b
<1>1. t \in Seq(C) /\ Len(t) = n
  BY LenBetween
<1> HIDE DEF t
<1>2. SubSeq(t, 1, n) = t
  BY <1>1
<1> QED
  BY <1>2, Zenon DEF t

\* What a column with n digits shows is read.
LEMMA ColumnRead ==
  ASSUME NEW d, Stamped(d), NEW w, Whole(w, d), NEW sep \in Between, NEW n \in 1..6, FitsColumn(d[8], n)
  PROVE  DateTime_or_None(SubSeq(Iso(sep, w), 1, 19) \o <<".">> \o Digit6(d[8], n)) = MomentOf(d)
<1> DEFINE day == IsoDay(d)
           clock == IsoClock(d)
           e == <<sep>>
           p == <<".">>
           g == Digit6(d[8], n)
<1>1. Iso(sep, w) = day \o e \o clock
  BY WholeStamped, IsoIs, Zenon
<1>2. day \in Seq(Glyphs) /\ Len(day) = 10 /\ clock \in Seq(Glyphs) /\ Len(clock) = 8
  BY IsoLengths, Zenon
<1>3. sep \in Glyphs /\ "." \in Glyphs
  BY GlyphTexts DEF Between
<1>4. SubSeq(day \o e \o clock, 1, 19) = day \o e \o clock
  <2> HIDE DEF day, clock
  <2>1. 19 = Len(day) + 1 + Len(clock)
    BY <1>2
  <2> QED
    BY <1>2, <1>3, <2>1, WholeText, ZenonT(30)
<1>5. e \in Seq(Glyphs) /\ p \in Seq(Glyphs)
  BY <1>3, FirstOf, Nought, Zenon
<1>6. g \in Seq(Glyphs)
  <2>1. n \in 0..6
    OBVIOUS
  <2>2. d[8] \in 0..(Million - 1)
    BY StampParts, Zenon
  <2>3. Digit6(d[8], n) \in Seq(Figures)
    BY <2>1, <2>2, FitsIs, Zenon
  <2> QED
    BY <2>3, GlyphTexts, Zenon
<1>7. SaysClock(clock \o p \o g, d)
  BY IsoSays, Zenon DEF IsoColumn
<1> HIDE DEF day, clock, e, p, g
<1>8. SameBehind(day, e, clock, p, g)
  BY <1>2, <1>5, <1>6, BehindPut, Zenon
<1>9. SubSeq(Iso(sep, w), 1, 19) \o p \o g = day \o e \o (clock \o p \o g)
  BY <1>1, <1>4, <1>8, Zenon DEF SameBehind
<1>10. DateTime_or_None(SubSeq(Iso(sep, w), 1, 19) \o p \o g) = MomentOf(d)
  <2> DEFINE x == clock \o p \o g
             t == SubSeq(Iso(sep, w), 1, 19) \o p \o g
  <2>1. t = IsoDay(d) \o <<sep>> \o x
    BY <1>9, Zenon DEF day, e
  <2> HIDE DEF x, t
  <2>2. SaysClock(x, d)
    BY <1>7, Zenon DEF x
  <2>3. DateTime_or_None(t) = MomentOf(d)
    BY <2>1, <2>2, PartsRead, Zenon
  <2> QED
    BY <2>3, Zenon DEF t
<1> QED
  BY <1>10, Zenon DEF p, g

Begins(t, p, n) == SubSeq(t, 1, n) = p

LEMMA Begun ==
  ASSUME NEW C, NEW p \in Seq(C), NEW b \in Seq(C), NEW n, n = Len(p)
  PROVE  Begins(p \o b, p, n)
BY SeparateTwo DEF Begins

\* A text that ISO makes begins with its day.
LEMMA DayFront ==
  ASSUME NEW d, Stamped(d), NEW sep \in Between
  PROVE  SubSeq(Iso(sep, d), 1, 10) = IsoDay(d)
<1> DEFINE day == IsoDay(d)
           e == <<sep>>
           x == IsoBack(d)
<1>1. Iso(sep, d) = day \o e \o x
  BY IsoIs, Zenon
<1>2. day \in Seq(Glyphs) /\ Len(day) = 10
  BY IsoLengths, Zenon
<1>3. x \in Seq(Glyphs)
  BY IsoSays, Zenon DEF SaysClock, SaysTime
<1>4. e \in Seq(Glyphs)
  <2>1. sep \in Glyphs
    BY GlyphTexts DEF Between
  <2> QED
    BY <2>1, FirstOf, Nought, Zenon
<1> HIDE DEF day, e, x
<1>5. Assoc(day, e, x) /\ e \o x \in Seq(Glyphs)
  BY <1>2, <1>3, <1>4, AssocIs, Zenon
<1>6. SubSeq(day \o (e \o x), 1, 10) = day
  <2> DEFINE r == e \o x
  <2>1. 10 = Len(day)
    BY <1>2
  <2>2. day \in Seq(Glyphs) /\ r \in Seq(Glyphs)
    BY <1>2, <1>5, Zenon
  <2> HIDE DEF r
  <2>3. Begins(day \o r, day, 10)
    BY <2>1, <2>2, Begun, Zenon
  <2> QED
    BY <2>3, Zenon DEF r, Begins
<1> QED
  BY <1>1, <1>5, <1>6, Zenon DEF Assoc, day

LEMMA DayAlone ==
  ASSUME NEW d, Stamped(d)
  PROVE  Date_or_None(IsoDay(d)) = DayOf(d)
<1>1. Says(Padded(d[2], 4), d[2]) /\ Says(Padded(d[3], 2), d[3]) /\ Says(Padded(d[4], 2), d[4])
  BY StampParts, Zenon DEF SaysIn
<1>2. SaysDay(IsoDay(d), d)
  BY <1>1, Zenon DEF SaysDay, IsoDay
<1> QED
  BY <1>2, DayRead, Zenon

\* How the conversion knows ISO's form.
Dashed(t, ch) == ~(Len(t) < 5) /\ t[5] = ch

LEMMA AfterYear ==
  ASSUME NEW C, NEW y \in Seq(C), Len(y) = 4, NEW ch \in C, NEW x \in Seq(C)
  PROVE  Dashed(y \o <<ch>> \o x, ch)
<1> DEFINE t == y \o <<ch>> \o x
<1>1. Behind(t, y, ch, x)
  BY PutTogether
<1>2. Len(t) = Len(y) + 1 + Len(x) /\ t[Len(y) + 1] = ch
  BY <1>1, Zenon DEF Behind
<1> HIDE DEF t
<1>3. ~(Len(t) < 5) /\ t[5] = ch
  BY <1>2
<1> QED
  BY <1>3, Zenon DEF Dashed, t

\* In ISO's form a timestamp is known by the dash behind its year.
LEMMA IsoStampRead ==
  ASSUME NEW d, Stamped(d), NEW sep \in Between
  PROVE  mysql_timestamp_converter(Iso(sep, d)) = MomentOf(d)
<1> DEFINE Y == Padded(d[2], 4)
           O == Padded(d[3], 2)
           D == Padded(d[4], 2)
           ch == "-"
           b == <<ch>>
           e == <<sep>>
           x == IsoBack(d)
           rest == O \o b \o (D \o e \o x)
           t == Iso(sep, d)
<1>1. /\ Y \in Seq(Glyphs) /\ O \in Seq(Glyphs) /\ D \in Seq(Glyphs) /\ Len(Y) = 4
  <2>1. SaysIn(Y, d[2], 4) /\ SaysIn(O, d[3], 2) /\ SaysIn(D, d[4], 2)
    BY StampParts, Zenon
  <2>2. \A u, n, width : SaysIn(u, n, width) => u \in Seq(Glyphs)
    BY Said, Zenon DEF SaysIn
  <2>3. Len(Y) = 4
    BY <2>1, Zenon DEF SaysIn
  <2> QED
    BY <2>1, <2>2, <2>3, Zenon
<1>2. x \in Seq(Glyphs)
  BY IsoSays, Zenon DEF SaysClock, SaysTime
<1>3. b \in Seq(Glyphs) /\ e \in Seq(Glyphs) /\ ch \in Glyphs
  <2>1. sep \in Glyphs /\ ch \in Glyphs
    BY GlyphTexts DEF Between
  <2> QED
    BY <2>1, FirstOf, Nought, Zenon
<1>4. t = Y \o b \o (O \o b \o D) \o e \o x
  BY IsoIs, Zenon DEF IsoDay, DayText
<1> HIDE DEF Y, O, D, b, e, x, t, ch
<1>5. t = Y \o b \o rest
  <2>1. SameDate(Y, b, O, D, e, x)
    BY <1>1, <1>2, <1>3, DatePut, Zenon
  <2> QED
    BY <1>4, <2>1, Zenon DEF SameDate
<1>6. rest \in Seq(Glyphs)
  <2>1. O \o b \in Seq(Glyphs) /\ D \o e \in Seq(Glyphs)
    BY <1>1, <1>3, AssocIs, Zenon
  <2>2. D \o e \o x \in Seq(Glyphs)
    BY <1>2, <2>1, AssocIs, Zenon
  <2> QED
    BY <2>1, <2>2, AssocIs, Zenon
<1> HIDE DEF rest
<1>7. Dashed(t, ch)
  <2>1. t = Y \o <<ch>> \o rest
    BY <1>5, Zenon DEF b
  <2> QED
    <3>1. Y \in Seq(Glyphs) /\ Len(Y) = 4 /\ ch \in Glyphs
      BY <1>1, <1>3, Zenon
    <3> QED
      BY <1>6, <2>1, <3>1, AfterYear, Zenon
<1>8. DateTime_or_None(t) = MomentOf(d)
  BY IsoRead, Zenon DEF t
<1> QED
  BY <1>7, <1>8, Zenon DEF mysql_timestamp_converter, Dashed, t, ch

-----------------------------------------------------------------------------
(* Fourteen digits                                                         *)

\* t is a, of n characters, with the two of p behind it.
Longer(t, C, a, n, p) ==
  /\ t \in Seq(C) /\ Len(t) = n + 2
  /\ \A k \in 1..n : t[k] = a[k]
  /\ t[n + 1] = p[1] /\ t[n + 2] = p[2]

Together(t, C, a, p) ==
  /\ t \in Seq(C) /\ Len(t) = Len(a) + Len(p)
  /\ \A k \in 1..Len(a) : t[k] = a[k]
  /\ \A k \in 1..Len(p) : t[Len(a) + k] = p[k]

LEMMA PutBehind ==
  ASSUME NEW C, NEW a \in Seq(C), NEW p \in Seq(C)
  PROVE  Together(a \o p, C, a, p)
BY DEF Together

LEMMA PutPair ==
  ASSUME NEW C, NEW a \in Seq(C), NEW n \in Nat, Len(a) = n, NEW p \in Seq(C), Len(p) = 2
  PROVE  Longer(a \o p, C, a, n, p)
<1> DEFINE t == a \o p
<1>1. Together(t, C, a, p)
  BY PutBehind, Zenon
<1> HIDE DEF t
<1>2. /\ t \in Seq(C) /\ Len(t) = n + 2
      /\ \A k \in 1..n : t[k] = a[k]
      /\ t[n + 1] = p[1] /\ t[n + 2] = p[2]
  BY <1>1 DEF Together
<1> QED
  BY <1>2, Zenon DEF Longer, t

At(t, i, j, p) == SubSeq(t, i, j) = p

PairOf(t, i, p) == t[i] = p[1] /\ t[i + 1] = p[2]
PairAt(t, i, p) == At(t, i, i + 1, p)

LEMMA PairFound ==
  ASSUME NEW C, NEW t \in Seq(C), NEW p \in Seq(C), Len(p) = 2, NEW i \in Nat, i > 0, PairOf(t, i, p)
  PROVE  PairAt(t, i, p)
<1> DEFINE u == SubSeq(t, i, i + 1)
<1>1. u = [k \in 1..2 |-> t[i + k - 1]]
  OBVIOUS
<1>2. p = [k \in 1..2 |-> p[k]]
  OBVIOUS
<1>3. \A k \in 1..2 : t[i + k - 1] = p[k]
  <2>1. t[i + 1 - 1] = p[1] /\ t[i + 2 - 1] = p[2]
    BY DEF PairOf
  <2> QED
    BY <2>1
<1>4. u = p
  BY <1>1, <1>2, <1>3
<1> QED
  BY <1>4, Zenon DEF PairAt, At

LEMMA FrontAt ==
  ASSUME NEW C, NEW t \in Seq(C), NEW p \in Seq(C), NEW n \in Nat, Len(p) = n, \A k \in 1..n : t[k] = p[k]
  PROVE  At(t, 1, n, p)
<1> DEFINE u == SubSeq(t, 1, n)
<1>1. u = [k \in 1..n |-> t[k]]
  OBVIOUS
<1>2. p = [k \in 1..n |-> p[k]]
  OBVIOUS
<1>3. u = p
  BY <1>1, <1>2
<1> QED
  BY <1>3, Zenon DEF At

\* The parts of a text of fourteen characters.
Pieces(t, Y, O, D, H, M, W) ==
  At(t, 1, 4, Y) /\ At(t, 5, 6, O) /\ At(t, 7, 8, D) /\ At(t, 9, 10, H) /\ At(t, 11, 12, M) /\ At(t, 13, 14, W)

\* Four characters and five pairs.
FourAndPairs(C, Y, O, D, H, M, W) ==
  /\ Y \in Seq(C) /\ O \in Seq(C) /\ D \in Seq(C) /\ H \in Seq(C) /\ M \in Seq(C) /\ W \in Seq(C)
  /\ Len(Y) = 4 /\ Len(O) = 2 /\ Len(D) = 2 /\ Len(H) = 2 /\ Len(M) = 2 /\ Len(W) = 2

InSix(C, Y, O, D, H, M, W) ==
  \A t : t = Y \o O \o D \o H \o M \o W =>
    t \in Seq(C) /\ Len(t) = 14 /\ Pieces(t, Y, O, D, H, M, W) /\ At(t, 1, 8, Y \o O \o D) /\ Len(Y \o O \o D) = 8

LEMMA SixPieces ==
  ASSUME NEW C, NEW Y, NEW O, NEW D, NEW H, NEW M, NEW W, FourAndPairs(C, Y, O, D, H, M, W)
  PROVE  InSix(C, Y, O, D, H, M, W)
<1> SUFFICES ASSUME NEW t, t = Y \o O \o D \o H \o M \o W
             PROVE  /\ t \in Seq(C) /\ Len(t) = 14 /\ Pieces(t, Y, O, D, H, M, W)
                    /\ At(t, 1, 8, Y \o O \o D) /\ Len(Y \o O \o D) = 8
  BY Zenon DEF InSix
<1> USE DEF FourAndPairs
<1> DEFINE a2 == Y \o O
           a3 == a2 \o D
           a4 == a3 \o H
           a5 == a4 \o M
           a6 == a5 \o W
<1>1. t = a6
  BY Zenon DEF a2, a3, a4, a5
<1>2. Longer(a2, C, Y, 4, O)
  BY PutPair
<1> HIDE DEF a2
<1>3. a2 \in Seq(C) /\ Len(a2) = 6 /\ a2[5] = O[1] /\ a2[6] = O[2] /\ \A k \in 1..4 : a2[k] = Y[k]
  BY <1>2 DEF Longer
<1>4. Longer(a3, C, a2, 6, D)
  BY <1>3, PutPair
<1> HIDE DEF a3
<1>5. a3 \in Seq(C) /\ Len(a3) = 8 /\ a3[7] = D[1] /\ a3[8] = D[2] /\ \A k \in 1..6 : a3[k] = a2[k]
  BY <1>4 DEF Longer
<1>6. Longer(a4, C, a3, 8, H)
  BY <1>5, PutPair
<1> HIDE DEF a4
<1>7. a4 \in Seq(C) /\ Len(a4) = 10 /\ a4[9] = H[1] /\ a4[10] = H[2] /\ \A k \in 1..8 : a4[k] = a3[k]
  BY <1>6 DEF Longer
<1>8. Longer(a5, C, a4, 10, M)
  BY <1>7, PutPair
<1> HIDE DEF a5
<1>9. a5 \in Seq(C) /\ Len(a5) = 12 /\ a5[11] = M[1] /\ a5[12] = M[2] /\ \A k \in 1..10 : a5[k] = a4[k]
  BY <1>8 DEF Longer
<1>10. Longer(a6, C, a5, 12, W)
  BY <1>9, PutPair
<1> HIDE DEF a6
<1>11. a6 \in Seq(C) /\ Len(a6) = 14 /\ a6[13] = W[1] /\ a6[14] = W[2] /\ \A k \in 1..12 : a6[k] = a5[k]
  BY <1>10 DEF Longer
<1>12. \A k \in 1..8 : a6[k] = a3[k]
  BY <1>7, <1>9, <1>11, SMTT(30)
<1>13. /\ \A k \in 1..4 : a6[k] = Y[k]
       /\ a6[5] = O[1] /\ a6[6] = O[2] /\ a6[7] = D[1] /\ a6[8] = D[2]
  BY <1>3, <1>5, <1>12
<1>14. a6[9] = H[1] /\ a6[10] = H[2] /\ a6[11] = M[1] /\ a6[12] = M[2]
  BY <1>7, <1>9, <1>11
<1>15. At(a6, 1, 4, Y) /\ At(a6, 1, 8, a3)
  BY <1>5, <1>11, <1>12, <1>13, FrontAt
<1>16. PairOf(a6, 5, O) /\ PairOf(a6, 7, D) /\ PairOf(a6, 9, H) /\ PairOf(a6, 11, M) /\ PairOf(a6, 13, W)
  BY <1>11, <1>13, <1>14 DEF PairOf
<1>17. PairAt(a6, 5, O) /\ PairAt(a6, 7, D) /\ PairAt(a6, 9, H) /\ PairAt(a6, 11, M) /\ PairAt(a6, 13, W)
  <2>1. /\ 5 \in Nat /\ 7 \in Nat /\ 9 \in Nat /\ 11 \in Nat /\ 13 \in Nat
        /\ 5 > 0 /\ 7 > 0 /\ 9 > 0 /\ 11 > 0 /\ 13 > 0
    OBVIOUS
  <2>2. PairAt(a6, 5, O) /\ PairAt(a6, 7, D)
    BY <1>11, <1>16, <2>1, PairFound, Zenon
  <2>3. PairAt(a6, 9, H) /\ PairAt(a6, 11, M) /\ PairAt(a6, 13, W)
    BY <1>11, <1>16, <2>1, PairFound, Zenon
  <2> QED
    BY <2>2, <2>3, Zenon
<1>18. At(a6, 5, 6, O) /\ At(a6, 7, 8, D) /\ At(a6, 9, 10, H) /\ At(a6, 11, 12, M) /\ At(a6, 13, 14, W)
  BY <1>17 DEF PairAt
<1>19. a3 = Y \o O \o D
  BY Zenon DEF a3, a2
<1> QED
  BY <1>5, <1>1, <1>11, <1>15, <1>18, <1>19, Zenon DEF Pieces

LEMMA SixInARow ==
  ASSUME NEW z, NEW a, NEW b, NEW c, NEW d, NEW e
  PROVE  <<z>> \o <<a, b, c, d, e>> = <<z, a, b, c, d, e>>
<1> DEFINE C == {z, a, b, c, d, e}
           u == <<z>>
           v == <<a, b, c, d, e>>
           w == <<z, a, b, c, d, e>>
<1>1. z \in C /\ a \in C /\ b \in C /\ c \in C /\ d \in C /\ e \in C
  OBVIOUS
<1> HIDE DEF C
<1>2. u \in Seq(C) /\ Len(u) = 1 /\ u[1] = z
  BY <1>1
<1>3. v \in Seq(C) /\ Len(v) = 5 /\ v[1] = a /\ v[2] = b /\ v[3] = c /\ v[4] = d /\ v[5] = e
  BY <1>1
<1>4. w \in Seq(C) /\ Len(w) = 6 /\ w[1] = z /\ w[2] = a /\ w[3] = b /\ w[4] = c /\ w[5] = d /\ w[6] = e
  BY <1>1
<1> HIDE DEF u, v, w
<1>5. /\ Len(w) = Len(u) + Len(v)
      /\ \A i \in 1..Len(u) : w[i] = u[i]
      /\ \A i \in 1..Len(v) : w[Len(u) + i] = v[i]
  BY <1>2, <1>3, <1>4
<1>6. u \o v = w
  BY <1>2, <1>3, <1>4, <1>5, Joined, Zenon
<1> QED
  BY <1>6, Zenon DEF u, v, w

LEMMA SixSay ==
  ASSUME NEW Y, NEW y, Says(Y, y), NEW O, NEW mo, Says(O, mo), NEW D, NEW dd, Says(D, dd), NEW H, NEW h, Says(H, h),
         NEW M, NEW mi, Says(M, mi), NEW W, NEW s, Says(W, s)
  PROVE  Reads(<<Y, O, D, H, M, W>>, <<y, mo, dd, h, mi, s>>)
<1> DEFINE row == <<Y, O, D, H, M, W>>
<1>1. /\ IsInt(Y) /\ IsInt(O) /\ IsInt(D) /\ IsInt(H) /\ IsInt(M) /\ IsInt(W)
      /\ int(Y) = y /\ int(O) = mo /\ int(D) = dd /\ int(H) = h /\ int(M) = mi /\ int(W) = s
  BY Said, Zenon
<1>2. /\ DOMAIN row = 1..6 /\ row[1] = Y /\ row[2] = O /\ row[3] = D /\ row[4] = H /\ row[5] = M /\ row[6] = W
  OBVIOUS
<1> HIDE DEF row
<1>3. \A i \in DOMAIN row : IsInt(row[i])
  <2>1. IsInt(row[1]) /\ IsInt(row[2]) /\ IsInt(row[3]) /\ IsInt(row[4]) /\ IsInt(row[5]) /\ IsInt(row[6])
    BY <1>1, <1>2
  <2> QED
    BY <1>2, <2>1
<1>4. Ints(row) = [i \in 1..6 |-> int(row[i])]
  BY <1>2 DEF Ints
<1>5. [i \in 1..6 |-> int(row[i])] = <<int(row[1]), int(row[2]), int(row[3]), int(row[4]), int(row[5]), int(row[6])>>
  OBVIOUS
<1>6. Ints(row) = <<y, mo, dd, h, mi, s>>
  BY <1>1, <1>2, <1>4, <1>5, Zenon
<1> QED
  BY <1>3, <1>6, Zenon DEF Reads, AllInts, row

\* What the conversion cuts fourteen characters into.
Fields14(t) == <<SubSeq(t, 1, 4)>> \o [i \in 1..5 |-> SubSeq(t, 2 * i + 3, 2 * i + 4)]

LEMMA FieldsAre ==
  ASSUME NEW t, NEW Y, NEW O, NEW D, NEW H, NEW M, NEW W, Pieces(t, Y, O, D, H, M, W)
  PROVE  Fields14(t) = <<Y, O, D, H, M, W>>
<1> DEFINE f == [i \in 1..5 |-> SubSeq(t, 2 * i + 3, 2 * i + 4)]
           g == <<O, D, H, M, W>>
<1>1. /\ SubSeq(t, 1, 4) = Y /\ SubSeq(t, 5, 6) = O /\ SubSeq(t, 7, 8) = D
      /\ SubSeq(t, 9, 10) = H /\ SubSeq(t, 11, 12) = M /\ SubSeq(t, 13, 14) = W
  BY Zenon DEF Pieces, At
<1>2. /\ f[1] = SubSeq(t, 5, 6) /\ f[2] = SubSeq(t, 7, 8) /\ f[3] = SubSeq(t, 9, 10)
      /\ f[4] = SubSeq(t, 11, 12) /\ f[5] = SubSeq(t, 13, 14)
  OBVIOUS
<1>3. f = [i \in 1..5 |-> f[i]]
  OBVIOUS
<1> HIDE DEF f
<1>4. [i \in 1..5 |-> f[i]] = <<f[1], f[2], f[3], f[4], f[5]>>
  OBVIOUS
<1>5. f = g
  BY <1>1, <1>2, <1>3, <1>4, Zenon
<1>6. <<Y>> \o g = <<Y, O, D, H, M, W>>
  BY SixInARow, ZenonT(30)
<1> QED
  BY <1>1, <1>5, <1>6, Zenon DEF Fields14, f

\* t says a date and a time of day in fourteen digits.
SaysFourteen(t, d) ==
  \E Y, O, D, H, M, W :
    /\ t = Y \o O \o D \o H \o M \o W
    /\ SaysIn(Y, d[2], 4) /\ SaysIn(O, d[3], 2) /\ SaysIn(D, d[4], 2)
    /\ SaysIn(H, d[5], 2) /\ SaysIn(M, d[6], 2) /\ SaysIn(W, d[7], 2)

LEMMA FourteenReads ==
  ASSUME NEW d, NEW t, SaysFourteen(t, d)
  PROVE  Reads(Fields14(t), <<d[2], d[3], d[4], d[5], d[6], d[7]>>) /\ t \in Seq(Figures) /\ Len(t) = 14
<1> DEFINE y  == d[2]
           mo == d[3]
           dd == d[4]
           h  == d[5]
           mi == d[6]
           s  == d[7]
<1>1. PICK Y, O, D, H, M, W :
        /\ t = Y \o O \o D \o H \o M \o W
        /\ SaysIn(Y, y, 4) /\ SaysIn(O, mo, 2) /\ SaysIn(D, dd, 2)
        /\ SaysIn(H, h, 2) /\ SaysIn(M, mi, 2) /\ SaysIn(W, s, 2)
  BY Zenon DEF SaysFourteen
<1> HIDE DEF y, mo, dd, h, mi, s
<1>2. /\ Says(Y, y) /\ Says(O, mo) /\ Says(D, dd) /\ Says(H, h) /\ Says(M, mi) /\ Says(W, s)
      /\ Len(Y) = 4 /\ Len(O) = 2 /\ Len(D) = 2 /\ Len(H) = 2 /\ Len(M) = 2 /\ Len(W) = 2
  BY <1>1, Zenon DEF SaysIn
<1>3. /\ Y \in Seq(Figures) /\ O \in Seq(Figures) /\ D \in Seq(Figures)
      /\ H \in Seq(Figures) /\ M \in Seq(Figures) /\ W \in Seq(Figures)
  BY <1>2, Said, Zenon
<1>4. t \in Seq(Figures) /\ Len(t) = 14 /\ Pieces(t, Y, O, D, H, M, W)
  <2>1. t = Y \o O \o D \o H \o M \o W
    BY <1>1, Zenon
  <2>2. FourAndPairs(Figures, Y, O, D, H, M, W)
    BY <1>2, <1>3, Zenon DEF FourAndPairs
  <2> QED
    <3>1. InSix(Figures, Y, O, D, H, M, W)
      BY <2>2, SixPieces, Zenon
    <3> QED
      BY <2>1, <3>1, Zenon DEF InSix
<1>5. Fields14(t) = <<Y, O, D, H, M, W>>
  BY <1>4, FieldsAre, Zenon
<1>6. Reads(<<Y, O, D, H, M, W>>, <<y, mo, dd, h, mi, s>>)
  BY <1>2, SixSay
<1> QED
  BY <1>4, <1>5, <1>6, Zenon DEF y, mo, dd, h, mi, s

\* Fourteen digits, or what ljust makes fourteen digits of.
LEMMA FourteenRead ==
  ASSUME NEW d, HasTime(d), d[8] = 0, NEW u, SaysFourteen(ljust(u, 14), d), ~(Len(u) < 5), u[5] \in Figures
  PROVE  mysql_timestamp_converter(u) = MomentOf(d)
<1> DEFINE y  == d[2]
           mo == d[3]
           dd == d[4]
           h  == d[5]
           mi == d[6]
           s  == d[7]
           six == <<y, mo, dd, h, mi, s>>
           all == <<y, mo, dd, h, mi, s, 0>>
           parts == Fields14(ljust(u, 14))
<1>1. Reads(parts, six)
  BY FourteenReads, Zenon
<1>2. u[5] # "-"
  BY FigureIs, GlyphTexts
<1>3. mysql_timestamp_converter(u) = IF AllInts(parts) THEN datetime(Ints(parts)) ELSE <<"raises">>
  BY <1>2, Zenon DEF mysql_timestamp_converter, Fields14
<1>4. y \in Int /\ mo \in Int /\ dd \in Int /\ h \in Int /\ mi \in Int /\ s \in Int
  BY SaysInt, Zenon DEF SaysFourteen, SaysIn
<1>5. IsTime(h, mi, s, 0) /\ MomentOf(d) = Moment(y, mo, dd, h, mi, s, 0)
  BY Zenon DEF HasTime, MomentOf
<1> HIDE DEF y, mo, dd, h, mi, s
<1>6. FilledUpTo(six, all)
  BY <1>4, SixFilledUp
<1>7. datetime(six) = Moment(y, mo, dd, h, mi, s, 0)
  BY <1>5, <1>6, MomentIs, Zenon
<1> HIDE DEF parts, six
<1> QED
  BY <1>1, <1>3, <1>5, <1>7, Zenon DEF Reads

LEMMA FifthOf ==
  ASSUME NEW F, NEW u \in Seq(F), NEW n, n = 14 \/ n = 8, Len(u) = n
  PROVE  ~(Len(u) < 5) /\ u[5] \in F
OBVIOUS

LEMMA NothingLeft ==
  ASSUME NEW F, NEW u \in Seq(F), Len(u) = 14
  PROVE  ljust(u, 14) = u
<1> DEFINE f == [i \in 1..(14 - Len(u)) |-> "0"]
<1>1. f = <<>>
  OBVIOUS
<1> HIDE DEF f
<1>2. u \o f = u
  BY <1>1
<1> QED
  BY <1>2, Zenon DEF ljust, f

LEMMA Digits14 ==
  ASSUME NEW d, Stamped(d), d[8] = 0
  PROVE  mysql_timestamp_converter(ShowTimestamp14(d)) = MomentOf(d)
<1> DEFINE u == ShowTimestamp14(d)
<1>1. HasTime(d)
  BY Zenon DEF Stamped
<1>2. SaysFourteen(u, d)
  BY StampParts, Zenon DEF SaysFourteen, ShowTimestamp14
<1> HIDE DEF u
<1>3. u \in Seq(Figures) /\ Len(u) = 14
  BY <1>2, FourteenReads, Zenon
<1>4. ~(Len(u) < 5) /\ u[5] \in Figures
  BY <1>3, FifthOf, Zenon
<1>5. ljust(u, 14) = u
  BY <1>3, NothingLeft, Zenon
<1> QED
  BY <1>1, <1>2, <1>4, <1>5, FourteenRead, Zenon DEF u

\* The eight digits of a day.
EightOf(d) == Padded(d[2], 4) \o Padded(d[3], 2) \o Padded(d[4], 2)

LEMMA EightDigits ==
  ASSUME NEW d, Stamped(d)
  PROVE  /\ SubSeq(ShowTimestamp14(d), 1, 8) = EightOf(d)
         /\ EightOf(d) \in Seq(Figures) /\ Len(EightOf(d)) = 8
<1> DEFINE Y == Padded(d[2], 4)
           O == Padded(d[3], 2)
           D == Padded(d[4], 2)
           H == Padded(d[5], 2)
           M == Padded(d[6], 2)
           W == Padded(d[7], 2)
           t == ShowTimestamp14(d)
           u == EightOf(d)
<1>1. /\ SaysIn(Y, d[2], 4) /\ SaysIn(O, d[3], 2) /\ SaysIn(D, d[4], 2)
      /\ SaysIn(H, d[5], 2) /\ SaysIn(M, d[6], 2) /\ SaysIn(W, d[7], 2)
  BY StampParts, Zenon
<1>2. t = Y \o O \o D \o H \o M \o W /\ u = Y \o O \o D
  BY Zenon DEF ShowTimestamp14, EightOf
<1> HIDE DEF Y, O, D, H, M, W, t, u
<1>3. FourAndPairs(Figures, Y, O, D, H, M, W)
  BY <1>1, Zenon DEF SaysIn, Says, FourAndPairs
<1>4. InSix(Figures, Y, O, D, H, M, W)
  BY <1>3, SixPieces, Zenon
<1>5. At(t, 1, 8, u) /\ Len(u) = 8
  BY <1>2, <1>4, Zenon DEF InSix
<1>6. u \in Seq(Figures)
  <2>1. Y \in Seq(Figures) /\ O \in Seq(Figures) /\ D \in Seq(Figures)
    BY <1>3, Zenon DEF FourAndPairs
  <2>2. Y \o O \in Seq(Figures)
    BY <2>1, AssocIs, Zenon
  <2> QED
    BY <1>2, <2>1, <2>2, AssocIs, Zenon
<1> QED
  BY <1>5, <1>6, Zenon DEF At, t, u

\* What ljust puts behind eight digits are three pairs of zeros.
LEMMA ThreePairs ==
  ASSUME NEW C, NEW u \in Seq(C), NEW z \in C
  PROVE  u \o [i \in 1..6 |-> z] = u \o <<z, z>> \o <<z, z>> \o <<z, z>>
<1> DEFINE p == <<z, z>>
           q == <<z, z, z, z>>
           f == [i \in 1..6 |-> z]
<1>1. p \in Seq(C) /\ q \in Seq(C) /\ f \in Seq(C)
  BY SMT
<1>2. p \o p = q
  BY FourInARow, Zenon
<1>3. q \o p = f
  <2>1. Len(p) = 2 /\ p[1] = z /\ p[2] = z
    OBVIOUS
  <2>2. Len(q) = 4 /\ q[1] = z /\ q[2] = z /\ q[3] = z /\ q[4] = z
    OBVIOUS
  <2>3. Len(f) = 6 /\ \A i \in 1..6 : f[i] = z
    OBVIOUS
  <2> HIDE DEF p, q, f
  <2>4. /\ Len(f) = Len(q) + Len(p)
        /\ \A i \in 1..Len(q) : f[i] = q[i]
        /\ \A i \in 1..Len(p) : f[Len(q) + i] = p[i]
    BY <2>1, <2>2, <2>3
  <2> QED
    BY <1>1, <2>4, Joined, Zenon
<1> HIDE DEF p, q, f
<1>4. u \o p \in Seq(C) /\ Assoc(u, p, p) /\ Assoc(u, q, p)
  BY <1>1, AssocIs, Zenon
<1>5. u \o p \o p = u \o q
  BY <1>2, <1>4, Zenon DEF Assoc
<1>6. u \o p \o p \o p = u \o f
  BY <1>3, <1>4, <1>5, Zenon DEF Assoc
<1> QED
  BY <1>6, Zenon DEF p, f

LEMMA ZerosSay == SaysIn(<<"0", "0">>, 0, 2)
<1> DEFINE z == "0"
           o == <<z>>
<1>1. z \in Figures /\ Says(o, 0)
  BY ZeroSays, Zenon
<1>2. o \in Seq(Figures) /\ Len(o) = 1 /\ o[1] = z
  BY <1>1
<1>3. o \o o = <<z, z>>
  BY SideBySide, Zenon
<1>4. Number(o \o o) = Number(o)
  <2>1. \A i \in 1..Len(o) : o[i] = "0"
    BY <1>2
  <2> QED
    BY <1>2, <2>1, LeadingZeros, Zenon
<1>5. <<z, z>> \in Seq(Figures) /\ Len(<<z, z>>) = 2 /\ Len(<<z, z>>) >= 1
  <2> HIDE DEF z
  <2> QED
    BY <1>1
<1>6. Number(<<z, z>>) = 0
  BY <1>1, <1>3, <1>4, Zenon DEF Says
<1> QED
  BY <1>5, <1>6, Zenon DEF SaysIn, Says, z

LEMMA EightFilled ==
  ASSUME NEW F, NEW z \in F, NEW u \in Seq(F), Len(u) = 8
  PROVE  u \o [i \in 1..(14 - Len(u)) |-> z] = u \o <<z, z>> \o <<z, z>> \o <<z, z>>
<1>1. 14 - Len(u) = 6
  OBVIOUS
<1> QED
  BY <1>1, ThreePairs, Zenon

\* A day and midnight.
AtMidnight(w, d) ==
  /\ w[2] = d[2] /\ w[3] = d[3] /\ w[4] = d[4]
  /\ w[5] = 0 /\ w[6] = 0 /\ w[7] = 0 /\ w[8] = 0

LEMMA MidnightRead ==
  ASSUME NEW d, Stamped(d), NEW w, AtMidnight(w, d)
  PROVE  mysql_timestamp_converter(EightOf(d)) = Moment(d[2], d[3], d[4], 0, 0, 0, 0)
<1> DEFINE u == EightOf(d)
           o == <<"0", "0">>
<1>1. u \in Seq(Figures) /\ Len(u) = 8
  BY EightDigits, Zenon
<1>2. HasTime(w)
  <2>1. 0 \in 0..(Million - 1)
    BY Micros
  <2>2. 0 \in 0..23 /\ 0 \in 0..59
    BY SMT
  <2> QED
    BY <2>1, <2>2, Zenon DEF HasTime, IsTime, AtMidnight
<1>3. ljust(u, 14) = u \o o \o o \o o
  <2>1. "0" \in Figures
    BY ZeroSays, Zenon
  <2> HIDE DEF u
  <2> QED
    BY <1>1, <2>1, EightFilled, Zenon DEF ljust
<1>4. SaysFourteen(ljust(u, 14), w)
  <2>1. /\ SaysIn(Padded(d[2], 4), d[2], 4) /\ SaysIn(Padded(d[3], 2), d[3], 2) /\ SaysIn(Padded(d[4], 2), d[4], 2)
    BY StampParts, Zenon
  <2>2. ljust(u, 14) = Padded(d[2], 4) \o Padded(d[3], 2) \o Padded(d[4], 2) \o o \o o \o o
    BY <1>3, Zenon DEF EightOf
  <2> HIDE DEF u
  <2>3. SaysIn(o, 0, 2)
    BY ZerosSay, Zenon
  <2> HIDE DEF o
  <2> QED
    BY <2>1, <2>2, <2>3, Zenon DEF SaysFourteen, AtMidnight
<1>5. ~(Len(u) < 5) /\ u[5] \in Figures
  <2> HIDE DEF u
  <2> QED
    BY <1>1, FifthOf, Zenon
<1>6. w[8] = 0
  BY Zenon DEF AtMidnight
<1> HIDE DEF u
<1>7. mysql_timestamp_converter(u) = MomentOf(w)
  BY <1>2, <1>4, <1>5, <1>6, FourteenRead, Zenon
<1> QED
  BY <1>7, Zenon DEF u, MomentOf, AtMidnight

\* Eight digits are midnight of their day.
LEMMA Digits8 ==
  ASSUME NEW d, Stamped(d)
  PROVE  mysql_timestamp_converter(SubSeq(ShowTimestamp14(d), 1, 8)) = datetime(<<d[2], d[3], d[4]>>)
<1> DEFINE y  == d[2]
           mo == d[3]
           dd == d[4]
           w  == <<"datetime", y, mo, dd, 0, 0, 0, 0>>
<1>1. y \in Int /\ mo \in Int /\ dd \in Int
  <2>1. \A t, n, width : SaysIn(t, n, width) => n \in Int
    BY SaysInt, Zenon DEF SaysIn
  <2> QED
    BY <2>1, StampParts, Zenon
<1>2. AtMidnight(w, d)
  <2> HIDE DEF y, mo, dd
  <2>1. w[2] = y /\ w[3] = mo /\ w[4] = dd /\ w[5] = 0 /\ w[6] = 0 /\ w[7] = 0 /\ w[8] = 0
    OBVIOUS
  <2> HIDE DEF w
  <2> QED
    BY <2>1, Zenon DEF AtMidnight, y, mo, dd
<1>3. IsTime(0, 0, 0, 0)
  <2>1. 0 \in 0..(Million - 1)
    BY Micros
  <2>2. 0 \in 0..23 /\ 0 \in 0..59
    BY SMT
  <2> QED
    BY <2>1, <2>2, Zenon DEF IsTime
<1> HIDE DEF w
<1>4. mysql_timestamp_converter(EightOf(d)) = Moment(y, mo, dd, 0, 0, 0, 0)
  BY <1>2, MidnightRead, Zenon
<1> HIDE DEF y, mo, dd
<1>5. FilledUpTo(<<y, mo, dd>>, <<y, mo, dd, 0, 0, 0, 0>>)
  BY <1>1, ThreeFilledUp
<1>6. datetime(<<y, mo, dd>>) = Moment(y, mo, dd, 0, 0, 0, 0)
  BY <1>3, <1>5, MomentIs, Zenon
<1> QED
  BY <1>4, <1>6, EightDigits, Zenon DEF y, mo, dd

\* What a value is read as, if a calendar has its day.
ReadAs(d) == IF IsDate(d[2], d[3], d[4]) THEN d ELSE Nothing

LEMMA MomentSame ==
  ASSUME NEW y, NEW mo, NEW dd, NEW h, NEW mi, NEW s, NEW us, NEW d, d = <<"datetime", y, mo, dd, h, mi, s, us>>
  PROVE  MomentOf(d) = ReadAs(d)
<1> DEFINE k == "datetime"
<1> HIDE DEF k
<1>1. d = <<k, y, mo, dd, h, mi, s, us>>
  BY Zenon DEF k
<1>2. /\ d[1] = k /\ d[2] = y /\ d[3] = mo /\ d[4] = dd
      /\ d[5] = h /\ d[6] = mi /\ d[7] = s /\ d[8] = us
  BY <1>1
<1>3. MomentOf(d) = Moment(y, mo, dd, h, mi, s, us) /\ ReadAs(d) = IF IsDate(y, mo, dd) THEN d ELSE Nothing
  BY <1>2, Zenon DEF MomentOf, ReadAs
<1>4. Moment(y, mo, dd, h, mi, s, us) = IF IsDate(y, mo, dd) THEN d ELSE Nothing
  BY Zenon DEF Moment
<1> QED
  BY <1>3, <1>4, Zenon

LEMMA DatesRead ==
  ASSUME NEW d, Stamped(d), MomentOf(d) = ReadAs(d), Whole([d EXCEPT ![8] = 0], d)
  PROVE  DateSurvives(d)
<1> DEFINE us    == d[8]
           known == IsDate(d[2], d[3], d[4])
           read  == IF known THEN d ELSE Nothing
           day   == SubSeq(Iso(" ", d), 1, 10)
           w     == [d EXCEPT ![8] = 0]
<1>1. " " \in Between /\ {" ", "T"} = Between
  BY Zenon DEF Between
<1>2. read = MomentOf(d)
  BY Zenon DEF ReadAs
<1>3. DateTime_or_None(format_TIMESTAMP(d)) = read
  BY <1>1, <1>2, IsoRead, Zenon DEF format_TIMESTAMP
<1>4. mysql_timestamp_converter(format_TIMESTAMP(d)) = read
  BY <1>1, <1>2, IsoStampRead, Zenon DEF format_TIMESTAMP
<1>5. ASSUME NEW n \in 1..6, FitsColumn(us, n), NEW sep \in {" ", "T"}
      PROVE  DateTime_or_None(SubSeq(Iso(sep, w), 1, 19) \o <<".">> \o Digit6(us, n)) = read
  <2>1. sep \in Between
    BY <1>1, Zenon
  <2> HIDE DEF w, read
  <2>2. Whole(w, d)
    BY Zenon DEF w
  <2>3. DateTime_or_None(SubSeq(Iso(sep, w), 1, 19) \o <<".">> \o Digit6(d[8], n)) = MomentOf(d)
    BY <1>5, <2>1, <2>2, ColumnRead, Zenon
  <2> QED
    BY <1>2, <2>3, Zenon
<1>6. us = 0 => mysql_timestamp_converter(ShowTimestamp14(d)) = read
  BY <1>2, Digits14, Zenon
<1>7. mysql_timestamp_converter(SubSeq(ShowTimestamp14(d), 1, 8)) = datetime(<<d[2], d[3], d[4]>>)
  BY Digits8, Zenon
<1>8. Date_or_None(day) = IF known THEN <<"date", d[2], d[3], d[4]>> ELSE Nothing
  <2>1. day = IsoDay(d)
    BY <1>1, DayFront, Zenon
  <2>2. Date_or_None(IsoDay(d)) = DayOf(d)
    BY DayAlone, Zenon
  <2> QED
    BY <2>1, <2>2, Zenon DEF DayOf
<1> QED
  BY <1>3, <1>4, <1>5, <1>6, <1>7, <1>8, Zenon DEF DateSurvives

(* Whatever date and time of day can be written with four digits of a year *)
(* and two of a month and a day, on a calendar or not: format_TIMESTAMP's  *)
(* text, a column's and the old one of fourteen digits are read as this    *)
(* value by DateTime_or_None and mysql_timestamp_converter, the one of     *)
(* eight digits as its midnight, and all of them as None if no calendar    *)
(* has the day.                                                            *)
THEOREM EveryDateSurvives ==
  ASSUME NEW y \in Years, NEW mo \in Pairs, NEW dd \in Pairs, NEW h, NEW mi, NEW s, NEW us, IsTime(h, mi, s, us)
  PROVE  DateSurvives(<<"datetime", y, mo, dd, h, mi, s, us>>)
<1> DEFINE k == "datetime"
           d == <<k, y, mo, dd, h, mi, s, us>>
<1>1. MomentOf(d) = ReadAs(d)
  BY MomentSame, Zenon
<1> HIDE DEF k
<1>2. /\ d[1] = k /\ d[2] = y /\ d[3] = mo /\ d[4] = dd
      /\ d[5] = h /\ d[6] = mi /\ d[7] = s /\ d[8] = us
  OBVIOUS
<1> DEFINE w == [d EXCEPT ![8] = 0]
<1>3. /\ w[1] = d[1] /\ w[2] = d[2] /\ w[3] = d[3] /\ w[4] = d[4]
      /\ w[5] = d[5] /\ w[6] = d[6] /\ w[7] = d[7] /\ w[8] = 0
  OBVIOUS
<1> HIDE DEF d, w
<1>4. Whole([d EXCEPT ![8] = 0], d)
  BY <1>3, Zenon DEF Whole, w
<1>5. Stamped(d)
  BY <1>2, Zenon DEF Stamped, HasTime, k
<1>6. DateSurvives(d)
  BY <1>1, <1>4, <1>5, DatesRead, Zenon
<1> QED
  BY <1>6, Zenon DEF d, k

-----------------------------------------------------------------------------
(* Every input of Values                                                   *)

Material(s) == UNION {NextPiece(s, i) : i \in Nat}

\* The pieces of an input are those that may come where they stand.
InputOK ==
  /\ subject \in Kinds \cup {"duration", "date"}
  /\ input \in Seq(Material(subject))
  /\ \A i \in 1..Len(input) : input[i] \in NextPiece(subject, i)

LEMMA OneMore ==
  ASSUME NEW M, NEW u \in Seq(M), NEW x \in M, NEW w, w = Append(u, x)
  PROVE  /\ w \in Seq(M) /\ Len(w) = Len(u) + 1 /\ w[Len(w)] = x /\ Len(w) \in Nat
         /\ \A i \in 1..Len(w) : i # Len(w) => i \in 1..Len(u) /\ w[i] = u[i]
OBVIOUS

LEMMA InputInv == ValuesSpec => []InputOK
<1>1. Begin => InputOK
  BY Nought DEF Begin, InputOK
<1>2. InputOK /\ [Extend]_<<subject, input>> => InputOK'
  <2> SUFFICES ASSUME InputOK, [Extend]_<<subject, input>> PROVE InputOK'
    OBVIOUS
  <2>1. CASE UNCHANGED <<subject, input>>
    BY <2>1 DEF InputOK, Material, NextPiece
  <2>2. CASE Extend
    <3>1. PICK x \in NextPiece(subject, Len(input) + 1) : input' = Append(input, x) /\ subject' = subject
      BY <2>2 DEF Extend
    <3> DEFINE M == Material(subject)
               n == Len(input')
    <3>2. input \in Seq(M) /\ \A i \in 1..Len(input) : input[i] \in NextPiece(subject, i)
      BY DEF InputOK
    <3>3. x \in M
      <4>1. Len(input) + 1 \in Nat
        BY <3>2
      <4> QED
        BY <3>1, <4>1 DEF Material
    <3> HIDE DEF M
    <3>4. /\ input' \in Seq(M) /\ n = Len(input) + 1 /\ input'[n] = x /\ n \in Nat
          /\ \A i \in 1..n : i # n => i \in 1..Len(input) /\ input'[i] = input[i]
      BY <3>1, <3>2, <3>3, OneMore
    <3>5. \A i \in 1..n : input'[i] \in NextPiece(subject, i)
      BY <3>1, <3>2, <3>4
    <3>6. M = Material(subject') /\ \A i : NextPiece(subject, i) = NextPiece(subject', i)
      BY <3>1 DEF M
    <3> QED
      BY <3>1, <3>4, <3>5, <3>6 DEF InputOK
  <2> QED
    BY <2>1, <2>2
<1> QED
  BY <1>1, <1>2, PTL DEF ValuesSpec

LEMMA TextInput ==
  ASSUME InputOK
  PROVE  input \in Seq(Material(subject))
BY DEF InputOK

(* Of every body, over any characters and of any length: the addresses     *)
(* that are fetched are the first of what stands between its separators,   *)
(* in their order, none twice and none left out, up to a rest of no more   *)
(* than one character.                                                     *)
THEOREM UrlsTakenInOrder == ValuesSpec => []UrlsInOrder
<1>1. InputOK => UrlsInOrder
  BY TextInput, EveryListTaken, Zenon DEF UrlsInOrder
<1> QED
  BY <1>1, InputInv, PTL

(* Every line of the list of plugins is split into what stands between its *)
(* bars, and taken only with a name, a library and two functions.          *)
THEOREM LineTakenApart == ValuesSpec => []FieldsOfLine
<1>1. InputOK => FieldsOfLine
  BY TextInput, EveryLineSplit, Zenon DEF FieldsOfLine
<1> QED
  BY <1>1, InputInv, PTL

(* Every ext parameter whose escapes are whole is decoded to a byte for    *)
(* each escape and each other character, in order.                         *)
THEOREM ExtIsDecoded == ValuesSpec => []ExtDecoded
<1>1. InputOK => ExtDecoded
  BY TextInput, EveryExtRead, Zenon DEF ExtDecoded
<1> QED
  BY <1>1, InputInv, PTL

LEMMA PartsOfDuration ==
  ASSUME InputOK, subject = "duration", Len(input) = 5
  PROVE  /\ input[2] \in Int /\ input[3] \in Int /\ input[4] \in Int
         /\ input[5] \in 0..(Million - 1)
<1>1. \A i \in 1..5 : input[i] \in Durations[i]
  <2>1. \A i \in 1..5 : input[i] \in NextPiece(subject, i)
    BY DEF InputOK
  <2>2. \A i \in 1..5 : i <= 5
    OBVIOUS
  <2>3. subject \notin Kinds
    BY DEF Kinds
  <2>4. \A i \in 1..5 : NextPiece(subject, i) = Durations[i]
    BY <2>2, <2>3 DEF NextPiece
  <2> QED
    BY <2>1, <2>4
<1>2. 2 \in 1..4 /\ 3 \in 1..4 /\ 4 \in 1..4 /\ 2 \in 1..5 /\ 3 \in 1..5 /\ 4 \in 1..5 /\ 5 \in 1..5
  OBVIOUS
<1> QED
  BY <1>1, <1>2, DurationsAssumption, Zenon

LEMMA AnyDuration ==
  ASSUME NEW S \in Int, NEW us \in 0..(Million - 1)
  PROVE  DurationSurvives(timedelta(S, us)) /\ DurationSurvives(Negated(timedelta(S, us)))
<1> DEFINE td == <<"timedelta", S, us>>
           o  == (Million - us) % Million
           z  == -S - (IF us > 0 THEN 1 ELSE 0)
<1>1. us \div Million = 0 /\ us % Million = us /\ us \in Nat /\ o \in 0..(Million - 1)
  BY Opposite, Micros
<1>2. timedelta(S, us) = td
  <2>1. S + 0 = S
    OBVIOUS
  <2> QED
    BY <1>1, <2>1, Zenon DEF timedelta
<1>3. Negated(td) = <<"timedelta", z, o>>
  <2>1. td[2] = S /\ td[3] = us
    OBVIOUS
  <2> HIDE DEF td
  <2> QED
    BY <2>1, Zenon DEF Negated
<1>4. z \in Int
  BY <1>1
<1> HIDE DEF z, o
<1> QED
  BY <1>1, <1>2, <1>3, <1>4, EveryDurationSurvives, Zenon

(* Every duration of a database, of any length and either sign: what MySQL *)
(* prints of it is read as this duration, but for those of less than an    *)
(* hour below zero; whole seconds, if not negative or whole days, come     *)
(* back as they were written.                                              *)
THEOREM DurationsComeBack == ValuesSpec => []DurationsSurvive
<1>1. ASSUME InputOK PROVE DurationsSurvive
  <2> SUFFICES ASSUME subject = "duration", Len(input) = 5 PROVE DurationSurvives(Duration)
    BY Zenon DEF DurationsSurvive
  <2> DEFINE S == input[2] * 3600 + input[3] * 60 + input[4]
             us == input[5]
  <2>1. input[2] \in Int /\ input[3] \in Int /\ input[4] \in Int /\ us \in 0..(Million - 1)
    BY <1>1, PartsOfDuration, Zenon
  <2>2. S \in Int
    BY <2>1
  <2>3. Duration = IF input[1] < 0 THEN Negated(timedelta(S, us)) ELSE timedelta(S, us)
    BY SMT DEF Duration
  <2> HIDE DEF S, us
  <2>4. DurationSurvives(timedelta(S, us)) /\ DurationSurvives(Negated(timedelta(S, us)))
    BY <2>1, <2>2, AnyDuration, Zenon
  <2> QED
    BY <2>4, <2>3, Zenon
<1> QED
  BY <1>1, InputInv, PTL

LEMMA PartsOfDate ==
  ASSUME InputOK, subject = "date", Len(input) = 7
  PROVE  /\ input[1] \in Years /\ input[2] \in Pairs /\ input[3] \in Pairs
         /\ IsTime(input[4], input[5], input[6], input[7])
<1>1. \A i \in 1..7 : input[i] \in Dates[i]
  <2>1. \A i \in 1..7 : input[i] \in NextPiece(subject, i)
    BY DEF InputOK
  <2>2. \A i \in 1..7 : i <= 7
    OBVIOUS
  <2>3. subject \notin Kinds
    BY DEF Kinds
  <2>4. \A i \in 1..7 : NextPiece(subject, i) = Dates[i]
    BY <2>2, <2>3 DEF NextPiece
  <2> QED
    BY <2>1, <2>4
<1>2. /\ input[1] \in Dates[1] /\ input[2] \in Dates[2] /\ input[3] \in Dates[3] /\ input[4] \in Dates[4]
      /\ input[5] \in Dates[5] /\ input[6] \in Dates[6] /\ input[7] \in Dates[7]
  BY <1>1
<1>3. /\ \A x \in Dates[1] : x \in Years
      /\ \A x \in Dates[2] : x \in Pairs
      /\ \A x \in Dates[3] : x \in Pairs
  BY DatesAssumption DEF Years, Pairs
<1>4. /\ \A x \in Dates[4] : x \in 0..23
      /\ \A x \in Dates[5] : x \in 0..59
      /\ \A x \in Dates[6] : x \in 0..59
      /\ \A x \in Dates[7] : x \in 0..(Million - 1)
  BY DatesAssumption
<1> QED
  BY <1>2, <1>3, <1>4, Zenon DEF IsTime

LEMMA SevenOf ==
  ASSUME NEW M, NEW u \in Seq(M), Len(u) = 7
  PROVE  u = <<u[1], u[2], u[3], u[4], u[5], u[6], u[7]>>
OBVIOUS

(* Every date and time of day of a database, on a calendar or not, is read *)
(* from each of the texts that are written for it, and as None if no       *)
(* calendar has its day.                                                   *)
THEOREM DatesComeBack == ValuesSpec => []DatesSurvive
<1>1. ASSUME InputOK PROVE DatesSurvive
  <2> SUFFICES ASSUME subject = "date", Len(input) = 7 PROVE DateSurvives(<<"datetime">> \o input)
    BY Zenon DEF DatesSurvive
  <2> DEFINE k == "datetime"
             d == <<k, input[1], input[2], input[3], input[4], input[5], input[6], input[7]>>
  <2>1. DateSurvives(d)
    BY <1>1, PartsOfDate, EveryDateSurvives, Zenon
  <2> HIDE DEF k
  <2>2. input = <<input[1], input[2], input[3], input[4], input[5], input[6], input[7]>>
    <3>1. input \in Seq(Material(subject))
      BY <1>1, TextInput, Zenon
    <3> QED
      BY <3>1, SevenOf, Zenon
  <2>3. <<k>> \o <<input[1], input[2], input[3], input[4], input[5], input[6], input[7]>> = d
    BY EightInARow
  <2> HIDE DEF d
  <2>4. <<k>> \o input = d
    BY <2>2, <2>3, Zenon
  <2> QED
    BY <2>1, <2>4, Zenon DEF k
<1> QED
  BY <1>1, InputInv, PTL

===============================================================================
