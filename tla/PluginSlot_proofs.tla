-------------------------- MODULE PluginSlot_proofs --------------------------
(***************************************************************************)
(* Proofs about PluginSlot, for any plugins, libraries, lists and workers, *)
(* and any number of loads.                                                *)
(***************************************************************************)
EXTENDS PluginSlot, FiniteSetTheorems, TLAPS

\* Token i of a list is about the plugin n, and the first that is.
IsAbout(ls, i, n) == ls[i].form = "plugin" /\ ls[i].name = n
IsFirst(ls, i, n) == IsAbout(ls, i, n) /\ \A j \in 1..(i - 1) : ~IsAbout(ls, j, n)

(* The plugins are those of the first k tokens, each as its first token    *)
(* has it, and those tokens could be used.                                 *)
ReadSoFar(plugins, ls, k) ==
  /\ \A i \in 1..k : Usable(ls[i])
  /\ \A i \in 1..k : ls[i].form = "plugin" => ls[i].name \in DOMAIN plugins
  /\ \A n \in DOMAIN plugins : \E i \in 1..k : IsFirst(ls, i, n) /\ plugins[n] = Info(ls[i])

(* What the loader has read: in `line' is the token before `pos', and a    *)
(* token that is extracted again is in the slot already.                   *)
ReadingInv ==
  /\ mpc \in {"reading", "init"} => text \in Texts
  /\ mpc = "reading" /\ text.kind = "file" =>
       /\ pos <= Len(text.lines) + 1
       /\ pos = 1 => line = [form |-> "comment"]
       /\ pos > 1 => line = text.lines[pos - 1]
       /\ ReadSoFar(slot, text.lines, pos - 1)
  /\ mpc = "init" => ReadSoFar(slot, text.lines, Len(text.lines))

(* When no list is read, nothing is left of the last; a master that is     *)
(* back in its loop has a slot, made from a list as a whole.               *)
MasterInv ==
  /\ mpc \in {"down", "idle"} => slot = Empty
  /\ mpc # "init" => todo = {}
  /\ mpc = "idle" => cycle \in Slots
  /\ IsFiniteSet(DOMAIN slot) /\ (cycle # None => IsFiniteSet(DOMAIN cycle))
  /\ cycle # None => source \in Texts /\ ReadSoFar(cycle, source.lines, Len(source.lines))

(* The plugins in `done' run on the model that their slot names, but for   *)
(* those in spoiled libraries.                                             *)
AsConfigured(plugins, done, models, spoiled) ==
  \A n \in done :
    (\A m \in Users(plugins, plugins[n].lib) \cap done : Rank[m] <= Rank[n])
      => models[plugins[n].lib] = plugins[n].conf \/ plugins[n].lib \in spoiled

(* The init handlers run in the order of the map, and what they did is     *)
(* right for the plugins that had their turn; of the cycle in force they   *)
(* spoil their own libraries only.                                         *)
ModelInv ==
  /\ \A n \in DOMAIN slot \ todo, m \in todo : Rank[n] <= Rank[m]
  /\ mpc = "init" => AsConfigured(slot, DOMAIN slot \ todo, model, {})
  /\ cycle # None \/ mpc = "idle" =>
       AsConfigured(cycle, DOMAIN cycle, model, dirty \cup (IF mpc = "init" THEN Initialized ELSE {}))

IInv ==
  /\ TypeOK /\ ReadingInv /\ MasterInv /\ ModelInv
  /\ HandlersMapped /\ ModelAsConfigured

-----------------------------------------------------------------------------
(* Slots                                                                   *)

USE NoneIsNew, RankIsOrder, TextsTyped, AbsentLibs, LoadsBounded

LEMMA SlotsType ==
  ASSUME NEW f
  PROVE  f \in Slots <=> DOMAIN f \subseteq Names /\ f \in [DOMAIN f -> InfoType]
BY DEF Slots

LEMMA EmptySlot == Empty \in Slots /\ DOMAIN Empty = {}
BY DEF Empty, Slots

LEMMA EmptyText == NoText \in TextType /\ [form |-> "comment"] \in LineType
BY DEF NoText, TextType, LineType

(* A plugin that is there is kept, and a new one is added.                 *)
LEMMA Inserted ==
  ASSUME NEW f \in Slots, NEW n \in Names, NEW i \in InfoType
  PROVE  /\ Insert(f, n, i) \in Slots
         /\ DOMAIN Insert(f, n, i) = DOMAIN f \cup {n}
         /\ \A m \in DOMAIN f : Insert(f, n, i)[m] = f[m]
         /\ n \notin DOMAIN f => Insert(f, n, i)[n] = i
BY SlotsType DEF Insert

(* What is read is a token of the list, or the comment that `line' was set *)
(* to.                                                                     *)
LEMMA TokenType == TypeOK /\ Reading => Token \in LineType /\ text.lines \in Seq(LineType)
<1> SUFFICES ASSUME TypeOK, Reading PROVE Token \in LineType /\ text.lines \in Seq(LineType)
  OBVIOUS
<1>1. text \in TextType /\ line \in LineType /\ pos \in Nat \ {0}
  BY EmptyText DEF TypeOK
<1> QED
  BY <1>1 DEF Token, TextType

LEMMA PluginType ==
  ASSUME NEW t \in LineType, t.form = "plugin"
  PROVE  t.name \in Names /\ t.lib \in Libs /\ t.conf \in Confs /\ t.symbols \in BOOLEAN /\ Info(t) \in InfoType
BY DEF LineType, Info, InfoType

WorkerType ==
  {NoWorker, [state |-> "dead"]} \cup
  [state : {"up", "quitting"}, slot : Slots, model : [Libs -> Confs \cup {None}], dirty : SUBSET Libs]

LEMMA WorkerStates ==
  ASSUME NEW v \in WorkerType
  PROVE  /\ v.state \in {"none", "dead", "up", "quitting"}
         /\ v.state = "none" => v = NoWorker
         /\ v.state = "dead" => v = [state |-> "dead"]
         /\ v.state \in {"up", "quitting"} =>
              /\ v.slot \in Slots /\ v.model \in [Libs -> Confs \cup {None}] /\ v.dirty \subseteq Libs
              /\ [v EXCEPT !.state = "quitting"] \in WorkerType
              /\ [v EXCEPT !.state = "quitting"] =
                   [state |-> "quitting", slot |-> v.slot, model |-> v.model, dirty |-> v.dirty]
BY DEF WorkerType, NoWorker

-----------------------------------------------------------------------------
(* Types                                                                   *)

LEMMA InitInv == Init => IInv
<1> SUFFICES ASSUME Init PROVE IInv
  OBVIOUS
<1> USE EmptySlot, EmptyText
<1>1. TypeOK
  BY DEF Init, TypeOK
<1>2. ReadingInv /\ MasterInv /\ ModelInv
  BY FS_EmptySet DEF Init, ReadingInv, MasterInv, ModelInv
<1>3. HandlersMapped
  <2> SUFFICES ASSUME NEW l \in Libs PROVE dl[l] >= Cardinality(Users(slot, l)) + 0
    BY DEF Init, HandlersMapped
  <2>1. Users(slot, l) = {}
    BY DEF Init, Users
  <2> QED
    BY <2>1, FS_EmptySet DEF Init
<1>4. ModelAsConfigured
  BY DEF Init, ModelAsConfigured, NoWorker
<1> QED
  BY <1>1, <1>2, <1>3, <1>4 DEF IInv

Models == [Libs -> Confs \cup {None}]

(* A directive that fails leaves nothing half done behind: whatever is     *)
(* kept of the libraries is well typed, all is.                            *)
LEMMA RejectType ==
  ASSUME TypeOK, NEW I, I \subseteq Libs, Reject(I), cycle # None => dl' \in [Libs -> Nat] /\ model' \in Models
  PROVE  TypeOK'
<1>1. dl' \in [Libs -> Nat] /\ model' \in Models /\ mpc' \in {"down", "idle"} /\ dirty' \subseteq Libs
  BY DEF Reject, TypeOK, Models
<1> QED
  BY <1>1, EmptySlot, EmptyText DEF Reject, TypeOK, Models

LEMMA AdvanceType ==
  ASSUME TypeOK, todo = {}, Reading, NEW plugins \in Slots, Advance(plugins), dl' \in [Libs -> Nat]
  PROVE  TypeOK'
<1>1. Token \in LineType
  BY TokenType
<1>2. mpc' \in {"reading", "init"} /\ pos' \in Nat \ {0} /\ line' \in LineType
  BY <1>1 DEF Advance, TypeOK, Reading
<1>3. slot' \in Slots /\ todo' \subseteq DOMAIN slot'
  BY DEF Advance
<1> QED
  BY <1>1, <1>2, <1>3 DEF Advance, TypeOK

LEMMA TypeStep == IInv /\ [Next]_vars => TypeOK'
<1> SUFFICES ASSUME TypeOK, MasterInv, [Next]_vars PROVE TypeOK'
  BY DEF IInv
<1> USE EmptySlot, EmptyText
<1>u. CASE UNCHANGED vars
  BY <1>u DEF vars, loadVars, TypeOK
<1>1. CASE Edit
  BY <1>1 DEF Edit, loadVars, TypeOK
<1>2. CASE Open
  BY <1>2 DEF Open, loadVars, TypeOK
<1>3. CASE Skip
  BY <1>3, AdvanceType DEF Skip, Reading, MasterInv, TypeOK
<1>4. CASE LineFails
  <2>1. cycle # None => dl' \in [Libs -> Nat] /\ model' \in Models
    BY <1>4 DEF LineFails, TypeOK, Models
  <2> QED
    BY <1>4, <2>1, RejectType DEF LineFails
<1>5. CASE SymbolFails
  <2>1. cycle # None => dl' \in [Libs -> Nat] /\ model' \in Models
    BY <1>5 DEF SymbolFails, TypeOK, Models
  <2> QED
    BY <1>5, <2>1, RejectType DEF SymbolFails
<1>6. CASE LoadPlugin
  <2> USE DEF LoadPlugin
  <2>1. Token.name \in Names /\ Token.lib \in Libs /\ Info(Token) \in InfoType
    BY <1>6, TokenType, PluginType
  <2>2. dl' \in [Libs -> Nat]
    BY <1>6, <2>1 DEF Dlopen, TypeOK
  <2>3. Insert(slot, Token.name, Info(Token)) \in Slots
    BY <2>1, Inserted DEF TypeOK
  <2> QED
    BY <1>6, <2>2, <2>3, AdvanceType DEF Reading, MasterInv
<1>7. ASSUME NEW n \in Names, InitPlugin(n) PROVE TypeOK'
  <2>1. n \in DOMAIN slot /\ slot[n] \in InfoType
    BY <1>7, SlotsType DEF InitPlugin, IsNext, TypeOK
  <2>2. model' \in Models
    BY <1>7, <2>1 DEF InitPlugin, TypeOK, Models, InfoType
  <2> QED
    BY <1>7, <2>1, <2>2 DEF InitPlugin, TypeOK, Models
<1>8. ASSUME NEW n \in Names, InitFails(n) PROVE TypeOK'
  <2>1. n \in DOMAIN slot /\ slot[n] \in InfoType /\ \A m \in DOMAIN slot : slot[m] \in InfoType
    BY <1>8, SlotsType DEF InitFails, IsNext, TypeOK
  <2>2. Initialized \cup {slot[n].lib} \subseteq Libs
    BY <2>1 DEF Initialized, InfoType
  <2>3. cycle # None => dl' \in [Libs -> Nat] /\ model' \in Models
    BY <1>8, <2>1 DEF InitFails, TypeOK, Models, InfoType
  <2> QED
    BY <1>8, <2>2, <2>3, RejectType DEF InitFails
<1>9. CASE InitDone
  <2>1. worker \in [Workers -> WorkerType]
    BY DEF TypeOK, WorkerType
  <2>2. Forked(slot, {}) \in WorkerType
    BY DEF Forked, WorkerType, TypeOK
  <2>3. \A w \in Workers : worker[w].state = "up" => [worker[w] EXCEPT !.state = "quitting"] \in WorkerType
    BY <2>1, WorkerStates
  <2>4. worker' \in [Workers -> WorkerType]
    BY <1>9, <2>1, <2>2, <2>3 DEF InitDone
  <2>5. /\ mpc' = "idle" /\ cycle' = slot /\ source' = text /\ dirty' = {} /\ UNCHANGED <<file, dl, model, loads>>
        /\ text' = NoText /\ pos' = 1 /\ line' = [form |-> "comment"] /\ slot' = Empty /\ todo' = {}
    BY <1>9 DEF InitDone
  <2> QED
    BY <2>4, <2>5 DEF TypeOK, WorkerType
<1>10. ASSUME NEW w \in Workers, Quit(w) \/ Crash(w) \/ Respawn(w) PROVE TypeOK'
  <2>1. worker \in [Workers -> WorkerType] /\ NoWorker \in WorkerType /\ [state |-> "dead"] \in WorkerType
    BY DEF TypeOK, WorkerType
  <2>2. Respawn(w) => Forked(cycle, dirty) \in WorkerType
    BY DEF Respawn, Forked, WorkerType, TypeOK, MasterInv
  <2>3. \E v \in WorkerType : worker' = [worker EXCEPT ![w] = v]
    BY <1>10, <2>1, <2>2 DEF Quit, Crash, Respawn
  <2>4. worker' \in [Workers -> WorkerType]
    BY <2>1, <2>3
  <2> QED
    BY <1>10, <2>4 DEF Quit, Crash, Respawn, loadVars, TypeOK, WorkerType
<1> QED
  BY <1>u, <1>1, <1>2, <1>3, <1>4, <1>5, <1>6, <1>7, <1>8, <1>9, <1>10 DEF Next, Load, Inits

-----------------------------------------------------------------------------
(* The slot is the list                                                    *)

\* What load() makes of the slot when it has taken a token.
Taken(plugins, t) == IF t.form = "plugin" THEN Insert(plugins, t.name, Info(t)) ELSE plugins

LEMMA TakenPlugin ==
  ASSUME NEW f \in Slots, NEW t \in LineType, t.form = "plugin"
  PROVE  /\ DOMAIN Taken(f, t) = DOMAIN f \cup {t.name}
         /\ \A m \in DOMAIN f : Taken(f, t)[m] = f[m]
         /\ t.name \notin DOMAIN f => Taken(f, t)[t.name] = Info(t)
<1>1. t.name \in Names /\ Info(t) \in InfoType
  BY PluginType
<1>2. /\ DOMAIN Insert(f, t.name, Info(t)) = DOMAIN f \cup {t.name}
      /\ \A m \in DOMAIN f : Insert(f, t.name, Info(t))[m] = f[m]
      /\ t.name \notin DOMAIN f => Insert(f, t.name, Info(t))[t.name] = Info(t)
  <2> DEFINE n == t.name
             i == Info(t)
  <2>1. n \in Names /\ i \in InfoType
    BY <1>1
  <2> HIDE DEF n, i
  <2>2. /\ DOMAIN Insert(f, n, i) = DOMAIN f \cup {n}
        /\ \A m \in DOMAIN f : Insert(f, n, i)[m] = f[m]
        /\ n \notin DOMAIN f => Insert(f, n, i)[n] = i
    BY <2>1, Inserted
  <2> QED
    BY <2>2 DEF n, i
<1> QED
  BY <1>2 DEF Taken

(* The next token of the list ...                                          *)
LEMMA ReadNext ==
  ASSUME NEW ls \in Seq(LineType), NEW k \in 1..Len(ls), NEW f \in Slots,
         ReadSoFar(f, ls, k - 1), Usable(ls[k])
  PROVE  ReadSoFar(Taken(f, ls[k]), ls, k)
<1> DEFINE g == Taken(f, ls[k])
<1>1. ls[k] \in LineType /\ 1..k = (1..(k - 1)) \cup {k} /\ k \in Nat /\ k \notin 1..(k - 1)
  OBVIOUS
<1>2. /\ DOMAIN g = DOMAIN f \cup (IF ls[k].form = "plugin" THEN {ls[k].name} ELSE {})
      /\ \A n \in DOMAIN f : g[n] = f[n]
      /\ ls[k].form = "plugin" /\ ls[k].name \notin DOMAIN f => g[ls[k].name] = Info(ls[k])
  <2>1. CASE ls[k].form = "plugin"
    BY <1>1, <2>1, TakenPlugin
  <2>2. CASE ls[k].form # "plugin"
    BY <2>2 DEF Taken
  <2> QED
    BY <2>1, <2>2
<1>3. /\ \A i \in 1..(k - 1) : Usable(ls[i])
      /\ \A i \in 1..(k - 1) : ls[i].form = "plugin" => ls[i].name \in DOMAIN f
      /\ \A n \in DOMAIN f : \E i \in 1..(k - 1) : IsFirst(ls, i, n) /\ f[n] = Info(ls[i])
  BY DEF ReadSoFar
<1>4. ASSUME NEW n \in DOMAIN g PROVE \E i \in 1..k : IsFirst(ls, i, n) /\ g[n] = Info(ls[i])
  <2>1. CASE n \in DOMAIN f
    BY <1>1, <1>2, <1>3, <2>1
  <2>2. CASE n \notin DOMAIN f
    <3>1. ls[k].form = "plugin" /\ n = ls[k].name /\ g[n] = Info(ls[k])
      BY <1>2, <2>2
    <3>2. IsFirst(ls, k, n)
      BY <1>3, <2>2, <3>1 DEF IsFirst, IsAbout
    <3> QED
      BY <1>1, <3>1, <3>2
  <2> QED
    BY <2>1, <2>2
<1>5. \A i \in 1..k : Usable(ls[i]) /\ (ls[i].form = "plugin" => ls[i].name \in DOMAIN g)
  BY <1>1, <1>2, <1>3
<1> QED
  BY <1>4, <1>5 DEF ReadSoFar

(* ... and the last one when it is taken again.                            *)
LEMMA ReadAgain ==
  ASSUME NEW ls \in Seq(LineType), NEW k \in 1..Len(ls), NEW f \in Slots, ReadSoFar(f, ls, k)
  PROVE  Taken(f, ls[k]) = f
<1>1. k \in 1..k
  OBVIOUS
<1> QED
  BY <1>1 DEF ReadSoFar, Taken, Insert

LEMMA AdvanceReads ==
  ASSUME TypeOK, ReadingInv, Reading, Usable(Token), Advance(Taken(slot, Token))
  PROVE  ReadingInv'
<1> DEFINE ls == text.lines
<1>1. ls \in Seq(LineType) /\ Token \in LineType /\ pos \in Nat \ {0} /\ slot \in Slots /\ Len(ls) \in Nat
  BY TokenType DEF TypeOK
<1>2. /\ text \in Texts /\ pos <= Len(ls) + 1 /\ ReadSoFar(slot, ls, pos - 1)
      /\ pos = 1 => line = [form |-> "comment"]
      /\ pos > 1 => line = ls[pos - 1]
  BY DEF ReadingInv, Reading
<1>3. /\ line' = Token /\ slot' = Taken(slot, Token) /\ text' = text
      /\ AtEof => mpc' = "init"
      /\ ~AtEof => mpc' = "reading" /\ pos' = pos + 1
  BY DEF Advance, Reading
<1>4. CASE pos <= Len(ls)
  <2>1. Token = ls[pos] /\ pos \in 1..Len(ls)
    BY <1>1, <1>4 DEF Token
  <2>2. ReadSoFar(slot', ls, pos)
    BY <1>1, <1>2, <1>3, <2>1, ReadNext
  <2>3. CASE AtEof
    <3>1. pos = Len(ls)
      BY <1>1, <1>4, <2>3 DEF AtEof
    <3> QED
      BY <1>2, <1>3, <2>2, <2>3, <3>1 DEF ReadingInv
  <2>4. CASE ~AtEof
    <3>1. pos' - 1 = pos /\ pos' <= Len(ls) + 1 /\ pos' > 1 /\ pos' # 1
      BY <1>1, <1>3, <1>4, <2>4
    <3> QED
      BY <1>2, <1>3, <2>1, <2>2, <2>4, <3>1 DEF ReadingInv
  <2> QED
    BY <2>3, <2>4
<1>5. CASE pos = Len(ls) + 1
  <2>1. mpc' = "init" /\ Token = line
    BY <1>1, <1>3, <1>5 DEF AtEof, Token
  <2>2. slot' = slot
    <3>1. CASE pos = 1
      BY <1>2, <1>3, <2>1, <3>1 DEF Taken
    <3>2. CASE pos > 1
      BY <1>1, <1>2, <1>3, <1>5, <2>1, <3>2, ReadAgain
    <3> QED
      BY <1>1, <3>1, <3>2
  <2> QED
    BY <1>1, <1>2, <1>3, <1>5, <2>1, <2>2 DEF ReadingInv
<1> QED
  BY <1>1, <1>2, <1>4, <1>5

LEMMA ReadingStep == IInv /\ [Next]_vars => ReadingInv'
<1> SUFFICES ASSUME TypeOK, ReadingInv, MasterInv, [Next]_vars PROVE ReadingInv'
  BY DEF IInv
<1>u. CASE UNCHANGED vars
  BY <1>u DEF vars, loadVars, ReadingInv
<1>1. CASE Edit
  BY <1>1 DEF Edit, loadVars, ReadingInv
<1>2. CASE Open
  <2>1. CASE file.kind = "missing"
    BY <1>2, <2>1 DEF Open, loadVars, ReadingInv
  <2>2. CASE file.kind # "missing"
    <3>1. /\ mpc' = "reading" /\ text' \in Texts /\ pos' = 1 /\ slot' = Empty
          /\ line' = [form |-> "comment"]
      BY <1>2, <2>2 DEF Open, TypeOK
    <3>2. text'.lines \in Seq(LineType)
      BY <3>1 DEF TextType
    <3>3. ReadSoFar(Empty, text'.lines, 0)
      BY EmptySlot DEF ReadSoFar
    <3> QED
      BY <3>1, <3>2, <3>3 DEF ReadingInv
  <2> QED
    BY <2>1, <2>2
<1>3. CASE Skip
  BY <1>3, AdvanceReads DEF Skip, Taken, Usable
<1>4. CASE LoadPlugin
  BY <1>4, AdvanceReads DEF LoadPlugin, Taken, Usable
<1>5. CASE LineFails \/ SymbolFails \/ \E n \in Names : InitFails(n)
  <2>1. mpc' \in {"down", "idle"}
    BY <1>5 DEF LineFails, SymbolFails, InitFails, Reject
  <2> QED
    BY <2>1 DEF ReadingInv
<1>6. ASSUME NEW n \in Names, InitPlugin(n) PROVE ReadingInv'
  BY <1>6 DEF InitPlugin, ReadingInv
<1>7. CASE InitDone
  BY <1>7 DEF InitDone, ReadingInv
<1>8. ASSUME NEW w \in Workers, Quit(w) \/ Crash(w) \/ Respawn(w) PROVE ReadingInv'
  BY <1>8 DEF Quit, Crash, Respawn, loadVars, ReadingInv
<1> QED
  BY <1>u, <1>1, <1>2, <1>3, <1>4, <1>5, <1>6, <1>7, <1>8 DEF Next, Load, Inits

LEMMA TakenFinite ==
  ASSUME NEW f \in Slots, NEW t \in LineType, IsFiniteSet(DOMAIN f)
  PROVE  Taken(f, t) \in Slots /\ IsFiniteSet(DOMAIN Taken(f, t))
<1>1. ASSUME t.form = "plugin" PROVE Taken(f, t) \in Slots /\ DOMAIN Taken(f, t) = DOMAIN f \cup {t.name}
  <2>1. t.name \in Names /\ Info(t) \in InfoType
    BY <1>1, PluginType
  <2>2. /\ Insert(f, t.name, Info(t)) \in Slots
        /\ DOMAIN Insert(f, t.name, Info(t)) = DOMAIN f \cup {t.name}
    BY <2>1, Inserted, Zenon
  <2> QED
    BY <1>1, <2>2 DEF Taken
<1>2. t.form # "plugin" => Taken(f, t) = f
  BY DEF Taken
<1> QED
  BY <1>1, <1>2, FS_AddElement

LEMMA MasterStep == IInv /\ [Next]_vars => MasterInv'
<1> SUFFICES ASSUME TypeOK, ReadingInv, MasterInv, [Next]_vars PROVE MasterInv'
  BY DEF IInv
<1>e. IsFiniteSet(DOMAIN Empty)
  BY EmptySlot, FS_EmptySet
<1>u. CASE UNCHANGED vars
  BY <1>u DEF vars, loadVars, MasterInv
<1>1. CASE Edit
  BY <1>1 DEF Edit, loadVars, MasterInv
<1>2. CASE Open
  BY <1>2, <1>e DEF Open, loadVars, MasterInv
<1>3. CASE Skip \/ LoadPlugin
  <2>1. Reading /\ Advance(Taken(slot, Token))
    BY <1>3 DEF Skip, LoadPlugin, Taken
  <2>2. IsFiniteSet(DOMAIN Taken(slot, Token))
    BY <2>1, TokenType, TakenFinite DEF TypeOK, MasterInv
  <2> QED
    BY <2>1, <2>2 DEF Advance, Reading, MasterInv
<1>4. CASE LineFails \/ SymbolFails \/ \E n \in Names : InitFails(n)
  <2>1. \E I : Reject(I)
    BY <1>4 DEF LineFails, SymbolFails, InitFails
  <2> QED
    BY <2>1, <1>e DEF Reject, MasterInv, TypeOK
<1>5. ASSUME NEW n \in Names, InitPlugin(n) PROVE MasterInv'
  BY <1>5 DEF InitPlugin, MasterInv
<1>6. CASE InitDone
  <2>1. slot \in Slots /\ IsFiniteSet(DOMAIN slot)
    BY DEF TypeOK, MasterInv
  <2>2. text \in Texts /\ ReadSoFar(slot, text.lines, Len(text.lines))
    BY <1>6 DEF InitDone, ReadingInv
  <2> QED
    BY <1>6, <1>e, <2>1, <2>2 DEF InitDone, MasterInv
<1>7. ASSUME NEW w \in Workers, Quit(w) \/ Crash(w) \/ Respawn(w) PROVE MasterInv'
  BY <1>7 DEF Quit, Crash, Respawn, loadVars, MasterInv
<1> QED
  BY <1>u, <1>1, <1>2, <1>3, <1>4, <1>5, <1>6, <1>7 DEF Next, Load, Inits

-----------------------------------------------------------------------------
(* The handlers are mapped                                                 *)

LEMMA UsersFinite ==
  ASSUME NEW f, NEW l, IsFiniteSet(DOMAIN f)
  PROVE  IsFiniteSet(Users(f, l)) /\ Cardinality(Users(f, l)) \in Nat
<1>1. Users(f, l) \in SUBSET DOMAIN f
  BY DEF Users
<1> QED
  BY <1>1, FS_Subset, FS_CardinalityType

(* A plugin that is taken adds one user to its own library at most.        *)
LEMMA TakenUsers ==
  ASSUME NEW f \in Slots, NEW t \in LineType, t.form = "plugin", IsFiniteSet(DOMAIN f), NEW l \in Libs
  PROVE  Cardinality(Users(Taken(f, t), l)) <= Cardinality(Users(f, l)) + (IF l = t.lib THEN 1 ELSE 0)
<1> DEFINE g == Taken(f, t)
<1>1. Info(t).lib = t.lib
  BY DEF Info
<1>2. /\ DOMAIN g = DOMAIN f \cup {t.name} /\ \A m \in DOMAIN f : g[m] = f[m]
      /\ t.name \notin DOMAIN f => g[t.name] = Info(t)
  BY TakenPlugin
<1>3. IsFiniteSet(Users(f, l)) /\ Cardinality(Users(f, l)) \in Nat
  BY UsersFinite
<1>4. CASE t.name \in DOMAIN f \/ l # t.lib
  <2>1. Users(g, l) = Users(f, l)
    BY <1>1, <1>2, <1>4 DEF Users
  <2> QED
    BY <1>3, <2>1
<1>5. CASE t.name \notin DOMAIN f /\ l = t.lib
  <2>1. Users(g, l) = Users(f, l) \cup {t.name} /\ t.name \notin Users(f, l)
    BY <1>1, <1>2, <1>5 DEF Users
  <2>2. Cardinality(Users(g, l)) = Cardinality(Users(f, l)) + 1
    BY <1>3, <2>1, FS_AddElement
  <2> QED
    BY <1>3, <1>5, <2>2
<1> QED
  BY <1>4, <1>5

\* The entries that point into a library.
Pointers(l) ==
  Cardinality(Users(slot, l)) + (IF cycle = None THEN 0 ELSE Cardinality(Users(cycle, l)))

LEMMA HandlersStep == IInv /\ [Next]_vars => HandlersMapped'
<1> SUFFICES ASSUME IInv, [Next]_vars, NEW l \in Libs
             PROVE  dl'[l] >= Pointers(l)'
  BY DEF HandlersMapped, Pointers
<1> USE DEF Pointers
<1>e. Cardinality(Users(Empty, l)) = 0
  <2>1. Users(Empty, l) = {}
    BY EmptySlot DEF Users
  <2> QED
    BY <2>1, FS_EmptySet
<1>t. /\ dl \in [Libs -> Nat] /\ slot \in Slots
      /\ Cardinality(Users(slot, l)) \in Nat
      /\ cycle # None => Cardinality(Users(cycle, l)) \in Nat
      /\ dl[l] \in Nat /\ dl[l] >= Pointers(l)
  BY UsersFinite DEF IInv, TypeOK, MasterInv, HandlersMapped
<1>u. CASE UNCHANGED vars
  BY <1>u, <1>t DEF vars, loadVars
<1>1. CASE Edit
  BY <1>1, <1>t DEF Edit, loadVars
<1>2. CASE Open
  BY <1>2, <1>t, <1>e DEF Open, loadVars
<1>3. CASE Skip
  BY <1>3, <1>t DEF Skip, Advance
<1>4. CASE LoadPlugin
  <2>1. /\ Token \in LineType /\ Token.form = "plugin" /\ Token.lib \in Libs
        /\ slot' = Taken(slot, Token) /\ cycle' = cycle
        /\ dl' = [dl EXCEPT ![Token.lib] = @ + 1]
    BY <1>4, TokenType, PluginType DEF LoadPlugin, Advance, Taken, IInv, Dlopen
  <2>2. Cardinality(Users(slot', l)) <= Cardinality(Users(slot, l)) + (IF l = Token.lib THEN 1 ELSE 0)
    BY <2>1, <1>t, TakenUsers DEF IInv, MasterInv
  <2>3. Cardinality(Users(slot', l)) \in Nat
    BY <2>1, <1>t, TakenFinite, UsersFinite DEF IInv, MasterInv
  <2>4. dl'[l] = dl[l] + (IF l = Token.lib THEN 1 ELSE 0)
    BY <2>1, <1>t
  <2> HIDE DEF Pointers
  <2>5. CASE cycle = None
    BY <2>1, <2>2, <2>3, <2>4, <2>5, <1>t DEF Pointers
  <2>6. CASE cycle # None
    BY <2>1, <2>2, <2>3, <2>4, <2>6, <1>t DEF Pointers
  <2> QED
    BY <2>5, <2>6
<1>5. CASE LineFails \/ SymbolFails \/ \E n \in Names : InitFails(n)
  <2>1. /\ slot' = Empty /\ cycle' = cycle
        /\ cycle = None => dl'[l] = 0
        /\ cycle # None => dl' = dl
    BY <1>5 DEF LineFails, SymbolFails, InitFails, Reject
  <2> QED
    BY <2>1, <1>t, <1>e
<1>6. ASSUME NEW n \in Names, InitPlugin(n) PROVE dl'[l] >= Pointers(l)'
  BY <1>6, <1>t DEF InitPlugin
<1>7. CASE InitDone
  <2>1. slot' = Empty /\ cycle' = slot /\ dl' = dl
    BY <1>7 DEF InitDone
  <2> QED
    BY <2>1, <1>t, <1>e
<1>8. ASSUME NEW w \in Workers, Quit(w) \/ Crash(w) \/ Respawn(w) PROVE dl'[l] >= Pointers(l)'
  BY <1>8, <1>t DEF Quit, Crash, Respawn, loadVars
<1> QED
  BY <1>u, <1>1, <1>2, <1>3, <1>4, <1>5, <1>6, <1>7, <1>8 DEF Next, Load, Inits

-----------------------------------------------------------------------------
(* Each plugin has its model                                               *)

(* Running the handler of n, which is not behind any that ran, keeps what  *)
(* the others were given, but for those that share its library.            *)
LEMMA InitOne ==
  ASSUME TypeOK, ModelInv, NEW n \in Names, InitPlugin(n)
  PROVE  AsConfigured(slot, DOMAIN slot \ todo', model', {})
<1> DEFINE done == DOMAIN slot \ todo
<1>1. /\ slot \in Slots /\ n \in DOMAIN slot /\ n \in todo
      /\ \A m \in DOMAIN slot : m \in Names /\ slot[m].lib \in Libs
      /\ DOMAIN slot \ todo' = done \cup {n}
  BY SlotsType DEF TypeOK, InitPlugin, IsNext, InfoType
<1>2. /\ model' = [model EXCEPT ![slot[n].lib] = slot[n].conf]
      /\ model \in [Libs -> Confs \cup {None}]
  BY DEF InitPlugin, TypeOK
<1> SUFFICES ASSUME NEW d \in done \cup {n},
                    \A m \in Users(slot, slot[d].lib) \cap (done \cup {n}) : Rank[m] <= Rank[d]
             PROVE  model'[slot[d].lib] = slot[d].conf
  BY <1>1 DEF AsConfigured
<1>3. CASE slot[d].lib = slot[n].lib
  <2>1. n \in Users(slot, slot[d].lib)
    BY <1>1, <1>3 DEF Users
  <2>2. Rank[n] <= Rank[d] /\ Rank[d] <= Rank[n]
    BY <1>1, <2>1 DEF ModelInv
  <2>3. Rank[d] = Rank[n] /\ d \in Names /\ n \in Names
    BY <1>1, <2>2
  <2>4. d = n
    BY <2>3
  <2> QED
    BY <1>1, <1>2, <2>4
<1>4. CASE slot[d].lib # slot[n].lib
  <2>1. AsConfigured(slot, done, model, {})
    BY DEF ModelInv, InitPlugin
  <2>2. d \in done /\ model'[slot[d].lib] = model[slot[d].lib]
    BY <1>1, <1>2, <1>4
  <2> QED
    BY <2>1, <2>2 DEF AsConfigured
<1> QED
  BY <1>3, <1>4

(* What a handler does to its library leaves the cycle in force right, but *)
(* for that library.                                                       *)
LEMMA OneSpoiled ==
  ASSUME TypeOK, cycle # None, NEW models, NEW l, NEW spoiled, AsConfigured(cycle, DOMAIN cycle, model, spoiled),
         \A k \in Libs : k # l => models[k] = model[k]
  PROVE  AsConfigured(cycle, DOMAIN cycle, models, spoiled \cup {l})
<1>1. \A d \in DOMAIN cycle : cycle[d].lib \in Libs
  BY SlotsType DEF TypeOK, InfoType
<1> QED
  BY <1>1 DEF AsConfigured

LEMMA ModelStep == IInv /\ [Next]_vars => ModelInv'
<1> SUFFICES ASSUME TypeOK, MasterInv, ModelInv, [Next]_vars PROVE ModelInv'
  BY DEF IInv
<1>u. CASE UNCHANGED vars
  BY <1>u DEF vars, loadVars, ModelInv, Initialized
<1>1. CASE Edit
  BY <1>1 DEF Edit, loadVars, ModelInv, Initialized
<1>2. CASE Open
  BY <1>2, EmptySlot DEF Open, loadVars, MasterInv, ModelInv, Initialized
<1>3. CASE Skip \/ LoadPlugin
  <2>1. /\ mpc = "reading" /\ todo = {} /\ UNCHANGED <<cycle, model, dirty>>
        /\ \/ mpc' = "reading" /\ todo' = {}
           \/ mpc' = "init" /\ todo' = DOMAIN slot'
    BY <1>3 DEF Skip, LoadPlugin, Advance, Reading, MasterInv
  <2>2. mpc' = "init" => DOMAIN slot' \ todo' = {} /\ Initialized' = {}
    BY <2>1 DEF Initialized
  <2>3. \A n \in DOMAIN slot' \ todo', m \in todo' : Rank[n] <= Rank[m]
    BY <2>1
  <2>4. mpc' = "init" => AsConfigured(slot', DOMAIN slot' \ todo', model', {})
    BY <2>2 DEF AsConfigured
  <2>5. cycle' # None => AsConfigured(cycle', DOMAIN cycle', model', dirty' \cup (IF mpc' = "init" THEN Initialized' ELSE {}))
    BY <2>1, <2>2 DEF ModelInv
  <2> QED
    BY <2>1, <2>3, <2>4, <2>5 DEF ModelInv
<1>4. CASE LineFails \/ SymbolFails
  <2>1. mpc = "reading" /\ Reject({}) /\ (cycle # None => UNCHANGED <<dl, model>>)
    BY <1>4 DEF LineFails, SymbolFails, Reading
  <2>2. CASE cycle = None
    BY <2>1, <2>2 DEF Reject, ModelInv
  <2>3. CASE cycle # None
    <3>1. AsConfigured(cycle, DOMAIN cycle, model, dirty)
      BY <2>1, <2>3 DEF ModelInv
    <3> QED
      BY <2>1, <2>3, <3>1 DEF Reject, ModelInv
  <2> QED
    BY <2>2, <2>3
<1>5. ASSUME NEW n \in Names, InitPlugin(n) PROVE ModelInv'
  <2> DEFINE l == slot[n].lib
  <2>1. /\ mpc = "init" /\ mpc' = "init" /\ todo' = todo \ {n} /\ n \in todo /\ todo \subseteq DOMAIN slot
        /\ \A m \in todo : Rank[n] <= Rank[m]
        /\ model' = [model EXCEPT ![l] = slot[n].conf] /\ model \in Models
        /\ UNCHANGED <<slot, cycle, dirty>>
    BY <1>5 DEF InitPlugin, IsNext, TypeOK, Models
  <2>2. \A d \in DOMAIN slot' \ todo', m \in todo' : Rank[d] <= Rank[m]
    BY <2>1 DEF ModelInv
  <2>3. AsConfigured(slot', DOMAIN slot' \ todo', model', {})
    BY <1>5, <2>1, InitOne
  <2>4. Initialized' = Initialized \cup {l}
    BY <2>1 DEF Initialized
  <2>5. ASSUME cycle # None
        PROVE  AsConfigured(cycle, DOMAIN cycle, model', dirty \cup Initialized \cup {l})
    <3>1. AsConfigured(cycle, DOMAIN cycle, model, dirty \cup Initialized)
      BY <2>1, <2>5 DEF ModelInv
    <3>2. \A k \in Libs : k # l => model'[k] = model[k]
      BY <2>1 DEF Models
    <3> QED
      BY <2>5, <3>1, <3>2, OneSpoiled
  <2>6. dirty \cup Initialized \cup {l} = dirty \cup Initialized'
    BY <2>4
  <2> QED
    BY <2>1, <2>2, <2>3, <2>5, <2>6 DEF ModelInv
<1>6. ASSUME NEW n \in Names, InitFails(n) PROVE ModelInv'
  <2> DEFINE l == slot[n].lib
  <2>1. mpc = "init" /\ Reject(Initialized \cup {l}) /\ model \in Models
    BY <1>6 DEF InitFails, TypeOK, Models
  <2>2. CASE cycle = None
    BY <2>1, <2>2 DEF Reject, ModelInv
  <2>3. CASE cycle # None
    <3>1. /\ model' \in {model, [model EXCEPT ![l] = slot[n].conf]}
          /\ dirty' = dirty \cup (Initialized \cup {l}) /\ cycle' = cycle /\ mpc' = "idle"
          /\ slot' = Empty /\ todo' = {}
      BY <1>6, <2>3 DEF InitFails, Reject
    <3>2. AsConfigured(cycle, DOMAIN cycle, model, dirty \cup Initialized)
      BY <2>1, <2>3 DEF ModelInv
    <3>3. \A k \in Libs : k # l => model'[k] = model[k]
      BY <2>1, <3>1 DEF Models
    <3>4. AsConfigured(cycle, DOMAIN cycle, model', dirty \cup Initialized \cup {l})
      BY <2>3, <3>2, <3>3, OneSpoiled
    <3>5. dirty \cup Initialized \cup {l} = dirty'
      BY <3>1
    <3> QED
      BY <3>1, <3>4, <3>5 DEF ModelInv
  <2> QED
    BY <2>2, <2>3
<1>7. CASE InitDone
  <2>1. AsConfigured(slot, DOMAIN slot, model, {})
    <3>1. mpc = "init" /\ DOMAIN slot \ todo = DOMAIN slot
      BY <1>7 DEF InitDone
    <3> QED
      BY <3>1 DEF ModelInv
  <2>2. /\ mpc' = "idle" /\ cycle' = slot /\ dirty' = {} /\ model' = model
        /\ slot' = Empty /\ todo' = {}
    BY <1>7 DEF InitDone
  <2> QED
    BY <2>1, <2>2 DEF ModelInv
<1>8. ASSUME NEW w \in Workers, Quit(w) \/ Crash(w) \/ Respawn(w) PROVE ModelInv'
  <2>1. UNCHANGED <<mpc, slot, todo, cycle, model, dirty>>
    BY <1>8 DEF Quit, Crash, Respawn, loadVars
  <2> QED
    BY <2>1 DEF ModelInv, Initialized
<1> QED
  BY <1>u, <1>1, <1>2, <1>3, <1>4, <1>5, <1>6, <1>7, <1>8 DEF Next, Load, Inits

\* What ModelAsConfigured says of one worker.
WorkerRight(v) ==
  v.state \in {"up", "quitting"} => AsConfigured(v.slot, DOMAIN v.slot, v.model, v.dirty)

LEMMA WorkersRight ==
  ASSUME NEW v
  PROVE  WorkerRight(v) <=>
           (v.state \in {"up", "quitting"} =>
              \A n \in DOMAIN v.slot :
                (\A m \in Users(v.slot, v.slot[n].lib) : Rank[m] <= Rank[n])
                  => v.model[v.slot[n].lib] = v.slot[n].conf \/ v.slot[n].lib \in v.dirty)
<1>1. \A f, l : Users(f, l) \cap DOMAIN f = Users(f, l)
  BY DEF Users
<1> QED
  BY <1>1 DEF WorkerRight, AsConfigured

LEMMA WorkersStep == IInv /\ [Next]_vars => ModelAsConfigured'
<1> SUFFICES ASSUME IInv, [Next]_vars, NEW w \in Workers PROVE WorkerRight(worker'[w])
  BY WorkersRight DEF ModelAsConfigured
<1>0. /\ WorkerRight(worker[w]) /\ WorkerRight(NoWorker) /\ WorkerRight([state |-> "dead"])
      /\ worker \in [Workers -> WorkerType]
  BY WorkersRight DEF IInv, ModelAsConfigured, WorkerRight, NoWorker, TypeOK, WorkerType
<1>u. CASE UNCHANGED worker
  BY <1>u, <1>0
<1>1. CASE InitDone
  <2>1. WorkerRight(Forked(slot, {}))
    <3>1. mpc = "init" /\ DOMAIN slot \ todo = DOMAIN slot
      BY <1>1 DEF InitDone
    <3>2. AsConfigured(slot, DOMAIN slot, model, {})
      BY <3>1 DEF IInv, ModelInv
    <3> QED
      BY <3>2 DEF WorkerRight, Forked
  <2>2. worker[w].state = "up" => WorkerRight([worker[w] EXCEPT !.state = "quitting"])
    <3>1. worker[w] \in WorkerType
      BY <1>0
    <3> SUFFICES ASSUME worker[w].state = "up"
                 PROVE  AsConfigured(worker[w].slot, DOMAIN worker[w].slot, worker[w].model, worker[w].dirty)
      BY <3>1, WorkerStates DEF WorkerRight
    <3> QED
      BY <1>0 DEF WorkerRight
  <2>3. worker'[w] \in {Forked(slot, {}), [worker[w] EXCEPT !.state = "quitting"], worker[w]}
        /\ (worker'[w] = [worker[w] EXCEPT !.state = "quitting"] => 
              worker[w].state = "up" \/ worker'[w] = worker[w] \/ worker'[w] = Forked(slot, {}))
    BY <1>1 DEF InitDone
  <2> QED
    BY <1>0, <2>1, <2>2, <2>3
<1>2. ASSUME NEW v \in Workers, Quit(v) \/ Crash(v) \/ Respawn(v) PROVE WorkerRight(worker'[w])
  <2>1. Respawn(v) => WorkerRight(Forked(cycle, dirty))
    <3> SUFFICES ASSUME Respawn(v) PROVE WorkerRight(Forked(cycle, dirty))
      OBVIOUS
    <3>1. AsConfigured(cycle, DOMAIN cycle, model, dirty)
      BY DEF Respawn, IInv, ModelInv
    <3> QED
      BY <3>1 DEF WorkerRight, Forked
  <2>2. worker'[w] \in {worker[w], NoWorker, [state |-> "dead"]} \/ (Respawn(v) /\ worker'[w] = Forked(cycle, dirty))
    BY <1>0, <1>2 DEF Quit, Crash, Respawn
  <2> QED
    BY <1>0, <2>1, <2>2
<1> QED
  BY <1>u, <1>1, <1>2 DEF Next, vars, Load, Inits, Edit, Open, Skip, LineFails, SymbolFails, LoadPlugin,
     InitPlugin, InitFails, Advance, Reject

-----------------------------------------------------------------------------
(* Theorems                                                                *)

LEMMA Invariance == Spec => []IInv
<1>1. Init => IInv
  BY InitInv
<1>2. IInv /\ [Next]_vars => IInv'
  BY TypeStep, ReadingStep, MasterStep, HandlersStep, ModelStep, WorkersStep DEF IInv
<1> QED
  BY <1>1, <1>2, PTL DEF Spec

(* Every variable has a value of its type; no library is closed more often *)
(* than it was opened.                                                     *)
THEOREM Typing == Spec => []TypeOK
<1>1. IInv => TypeOK
  BY DEF IInv
<1> QED
  BY <1>1, Invariance, PTL

(* What was read as a whole is what the list says: its slot has the names  *)
(* that Listed has, and the first token of each is one only.               *)
LEMMA ReadIsListed ==
  ASSUME NEW t \in TextType, NEW f \in Slots, ReadSoFar(f, t.lines, Len(t.lines))
  PROVE  f = Listed(t) /\ \A i \in DOMAIN t.lines : Usable(t.lines[i])
<1> DEFINE ls == t.lines
           k  == Len(ls)
           First(n) == CHOOSE i \in DOMAIN ls :
                         /\ ls[i].form = "plugin" /\ ls[i].name = n
                         /\ \A j \in 1..(i - 1) : ~(ls[j].form = "plugin" /\ ls[j].name = n)
           listed == {ls[i].name : i \in {j \in DOMAIN ls : ls[j].form = "plugin"}}
<1>1. ls \in Seq(LineType) /\ DOMAIN ls = 1..k /\ k \in Nat
  BY DEF TextType
<1>2. DOMAIN f = listed
  <2>1. ASSUME NEW n \in DOMAIN f PROVE n \in listed
    <3>1. PICK i \in 1..k : IsFirst(ls, i, n)
      BY DEF ReadSoFar
    <3> QED
      BY <1>1, <3>1 DEF IsFirst, IsAbout
  <2>2. ASSUME NEW n \in listed PROVE n \in DOMAIN f
    BY <1>1 DEF ReadSoFar
  <2> QED
    BY <2>1, <2>2
<1>3. ASSUME NEW n \in DOMAIN f PROVE f[n] = Info(ls[First(n)])
  <2>1. PICK i \in 1..k : IsFirst(ls, i, n) /\ f[n] = Info(ls[i])
    BY DEF ReadSoFar
  <2>2. \A j \in 1..k : IsFirst(ls, j, n) => j = i
    BY <1>1, <2>1 DEF IsFirst
  <2>3. First(n) = i
    BY <1>1, <2>1, <2>2 DEF IsFirst, IsAbout
  <2> QED
    BY <2>1, <2>3
<1>4. f = [n \in listed |-> Info(ls[First(n)])]
  BY <1>2, <1>3, SlotsType
<1>5. Listed(t) = [n \in listed |-> Info(ls[First(n)])]
  BY DEF Listed
<1> QED
  BY <1>1, <1>4, <1>5 DEF ReadSoFar

(* However the loader's loop on eof() met the tokens and whatever happened *)
(* to earlier loads, the slot whose handlers are run, and the one in       *)
(* force, are the list of plugins.                                         *)
THEOREM RightSlot == Spec => []SlotIsList
<1>1. IInv => SlotIsList
  <2> SUFFICES ASSUME IInv PROVE SlotIsList
    OBVIOUS
  <2>1. mpc = "init" => slot = Listed(text) /\ \A i \in DOMAIN text.lines : Usable(text.lines[i])
    BY ReadIsListed DEF IInv, TypeOK, ReadingInv
  <2>2. cycle # None => cycle = Listed(source) /\ \A i \in DOMAIN source.lines : Usable(source.lines[i])
    BY ReadIsListed DEF IInv, TypeOK, MasterInv
  <2> QED
    BY <2>1, <2>2 DEF SlotIsList
<1> QED
  BY <1>1, Invariance, PTL

(* No handler in a slot of the master points into a library that was       *)
(* closed, however many loads fail.                                        *)
THEOREM MappedHandlers == Spec => []HandlersMapped
<1>1. IInv => HandlersMapped
  BY DEF IInv
<1> QED
  BY <1>1, Invariance, PTL

(* Every worker runs its plugins on the models of its own slot, but in     *)
(* libraries that a failed reload initialized before it was forked.        *)
THEOREM RightModels == Spec => []ModelAsConfigured
<1>1. IInv => ModelAsConfigured
  BY DEF IInv
<1> QED
  BY <1>1, Invariance, PTL

=============================================================================
