------------------------------ MODULE PluginSlot ------------------------------
(***************************************************************************)
(* Loading the plugins: the `fp' directive reads a list of plugins, opens  *)
(* their libraries and calls their init handlers, in the nginx master,     *)
(* when nginx starts and whenever it is told to reload its configuration.  *)
(* The workers are forked from the master and so have what the master had  *)
(* at that time: the slot of the cycle in force, and the libraries with    *)
(* their global data, in which a plugin keeps the model that its init      *)
(* handler loaded.  A reload opens the same libraries again and runs the   *)
(* init handlers on the same global data, before it is known whether the   *)
(* new configuration will be taken.                                        *)
(*                                                                         *)
(* The loader reads tokens that are separated by white space (file >>      *)
(* line), not lines: a `line' below is such a token.                       *)
(***************************************************************************)
EXTENDS Naturals, Sequences, FiniteSets

CONSTANTS
  Names, Libs, Confs,  \* plugin names, library paths, conf and model_dir
  Rank,                \* the order of std::map: Rank[n] is the place of n
  Texts,               \* the contents that the file of `fp' may have
  Absent,              \* libraries that dlopen does not find
  Workers,             \* the worker processes to watch; nginx forks others besides
  MaxLoads,            \* bound: how often nginx is started or reloaded
  None

\* What load() tells apart in a token: a comment, one that it rejects (fewer
\* than 6 fields, an empty one among them), or a plugin, whose two functions
\* the library may lack.
LineType ==
  [form : {"comment", "invalid"}] \cup
  [form : {"plugin"}, name : Names, lib : Libs, conf : Confs, ext : BOOLEAN,
   symbols : BOOLEAN]

\* `newline' says whether white space follows the last token.
TextType ==
  [kind : {"file", "missing", "directory"}, lines : Seq(LineType), newline : BOOLEAN]

ASSUME NoneIsNew     == None \notin Names \cup Libs \cup Confs
ASSUME RankIsOrder   == Rank \in [Names -> Nat] /\ \A m, n \in Names : Rank[m] = Rank[n] => m = n
ASSUME TextsTyped    == Texts \subseteq TextType
ASSUME AbsentLibs    == Absent \subseteq Libs
ASSUME LoadsBounded  == MaxLoads \in Nat

VARIABLES
  file,      \* the file of `fp', as it is on disk
  (* the master *)
  mpc,       \* "down", "idle", "reading" the list, in the "init" handlers
  text, pos, \* what is read, and the next token
  line,      \* the variable `line' of load(): the last token that was read
  slot,      \* _pinfo_list of the slot being filled
  todo,      \* plugins whose init handler was not called yet
  cycle,     \* _pinfo_list of the cycle in force, None before the first
  dl,        \* dl[l]: how often library l is open
  model,     \* model[l]: what the last init handler run in l was given
  (* the workers *)
  worker,
  (* history *)
  source,    \* the text that `cycle' was read from
  dirty,     \* libraries whose init handler a reload ran before it failed
  loads

loadVars == <<text, pos, line, slot, todo>>
vars == <<file, mpc, loadVars, cycle, dl, model, worker, source, dirty, loads>>

Empty    == [n \in {} |-> None]
NoText   == [kind |-> "missing", lines |-> <<>>, newline |-> FALSE]
NoWorker == [state |-> "none"]

Init ==
  /\ file \in Texts
  /\ mpc = "down"
  /\ text = NoText /\ pos = 1 /\ line = [form |-> "comment"] /\ slot = Empty /\ todo = {}
  /\ cycle = None /\ source = NoText /\ dirty = {}
  /\ dl = [l \in Libs |-> 0] /\ model = [l \in Libs |-> None]
  /\ worker = [w \in Workers |-> NoWorker]
  /\ loads = 0

-----------------------------------------------------------------------------
(* The master: PluginSlot::load                                            *)

\* An operator edits the list.
Edit ==
  /\ file' \in Texts \ {file}
  /\ UNCHANGED <<mpc, loadVars, cycle, dl, model, worker, source, dirty, loads>>

\* The directive fails.  nginx exits if it was starting; a reload leaves the
\* cycle in force, and what it did to the libraries.
Reject(initialized) ==
  /\ IF cycle = None
     THEN /\ mpc' = "down" /\ dirty' = {}
          /\ dl' = [l \in Libs |-> 0] /\ model' = [l \in Libs |-> None]
     ELSE mpc' = "idle" /\ dirty' = dirty \cup initialized
  /\ text' = NoText /\ pos' = 1 /\ line' = [form |-> "comment"]
  /\ slot' = Empty /\ todo' = {}
  /\ UNCHANGED <<file, cycle, worker, source, loads>>

\* 121-136, 66-81: nginx starts or gets SIGHUP.  The list is one buffer long:
\* it is read as it is now.
Open ==
  /\ mpc \in {"down", "idle"} /\ loads < MaxLoads
  /\ loads' = loads + 1
  /\ IF file.kind = "missing"
     THEN UNCHANGED <<mpc, loadVars>>
     ELSE /\ mpc' = "reading"
          /\ text' = file /\ pos' = 1 /\ slot' = Empty /\ todo' = {}
          /\ line' = [form |-> "comment"]
  /\ UNCHANGED <<file, cycle, dl, model, worker, source, dirty>>

\* 83: an extraction that finds no token leaves the last one in `line' (at
\* first it is empty, which load() takes like a comment).  Of a directory
\* nothing can be extracted, and eof() never holds: load() does not return.
Reading == mpc = "reading" /\ text.kind = "file"
Token   == IF pos <= Len(text.lines) THEN text.lines[pos] ELSE line

\* 82: the extraction met the end of the file.
AtEof == pos > Len(text.lines) \/ (pos = Len(text.lines) /\ ~text.newline)

Advance(plugins) ==
  /\ line' = Token /\ slot' = plugins
  /\ IF AtEof THEN mpc' = "init" /\ todo' = DOMAIN plugins /\ UNCHANGED pos
              ELSE pos' = pos + 1 /\ UNCHANGED <<mpc, todo>>
  /\ UNCHANGED <<file, text, cycle, model, worker, source, dirty, loads>>

\* Mutant: a comment is skipped before the next token is extracted.
Skip_NotRead ==
  Reading /\ Token.form = "comment" /\ line' = Token
  /\ UNCHANGED <<file, mpc, text, pos, slot, todo, cycle, dl, model, worker, source, dirty, loads>>

\* 84-85
Skip ==
  /\ Reading /\ Token.form = "comment"
  /\ Advance(slot) /\ UNCHANGED dl

\* 87-100, 108-115: the token is rejected, or its library is not found.
LineFails ==
  /\ Reading
  /\ \/ Token.form = "invalid"
     \/ Token.form = "plugin" /\ Token.lib \in Absent
  /\ Reject({})
  /\ cycle # None => UNCHANGED <<dl, model>>

Dlopen(l)  == [dl EXCEPT ![l] = @ + 1]

\* Mutant: the library is closed here and in the destructor.
SymbolFails_ClosesTwice ==
  /\ Reading /\ Token.form = "plugin" /\ Token.lib \notin Absent /\ ~Token.symbols
  /\ Reject({})
  /\ cycle # None => dl' = [dl EXCEPT ![Token.lib] = @ - 1] /\ UNCHANGED model

\* 120-134: opened, and closed again by the destructor.
SymbolFails ==
  /\ Reading /\ Token.form = "plugin" /\ Token.lib \notin Absent /\ ~Token.symbols
  /\ Reject({})
  /\ cycle # None => UNCHANGED <<dl, model>>

\* Mutant: _pinfo_list[name] = pit.
Insert_Overwrites(plugins, n, info) ==
  [m \in DOMAIN plugins \cup {n} |-> IF m = n THEN info ELSE plugins[m]]

\* PluginSlot.h 141-148: std::map::insert keeps the entry that is there.
Insert(plugins, n, info) ==
  IF n \in DOMAIN plugins THEN plugins
  ELSE [m \in DOMAIN plugins \cup {n} |-> IF m = n THEN info ELSE plugins[m]]

Info(t) == [lib |-> t.lib, conf |-> t.conf, ext |-> t.ext]

\* 102-154
LoadPlugin ==
  /\ Reading /\ Token.form = "plugin" /\ Token.lib \notin Absent /\ Token.symbols
  /\ dl' = Dlopen(Token.lib)
  /\ Advance(Insert(slot, Token.name, Info(Token)))

-----------------------------------------------------------------------------
(* The master: PluginSlot::run_all_init                                    *)

\* Mutant: in any order.
IsNext_Any(n) == n \in todo

\* 106-107: in the order of the map.
IsNext(n) == n \in todo /\ \A m \in todo : Rank[n] <= Rank[m]

Initialized == {slot[m].lib : m \in DOMAIN slot \ todo}

\* 108-109
InitPlugin(n) ==
  /\ mpc = "init" /\ IsNext(n)
  /\ model' = [model EXCEPT ![slot[n].lib] = slot[n].conf]
  /\ todo' = todo \ {n}
  /\ UNCHANGED <<file, mpc, text, pos, line, slot, cycle, dl, worker, source, dirty, loads>>

\* 109-116: what the handler leaves in its library is anybody's guess.
InitFails(n) ==
  /\ mpc = "init" /\ IsNext(n)
  /\ Reject(Initialized \cup {slot[n].lib})
  /\ cycle # None =>
       /\ model' \in {model, [model EXCEPT ![slot[n].lib] = slot[n].conf]}
       /\ UNCHANGED dl

\* fork(): the worker has the cycle and the libraries of the master.
Forked(plugins, spoiled) ==
  [state |-> "up", slot |-> plugins, model |-> model, dirty |-> spoiled]

Free == {w \in Workers : worker[w].state = "none"}

\* 103, 151: the new cycle is in force.  Its workers are forked, and those of
\* the old one are told to finish their requests and quit.
InitDone ==
  /\ mpc = "init" /\ todo = {}
  /\ mpc' = "idle" /\ cycle' = slot /\ source' = text /\ dirty' = {}
  /\ \E ws \in SUBSET Free :
       worker' = [w \in Workers |->
         IF w \in ws THEN Forked(slot, {})
         ELSE IF worker[w].state = "up" THEN [worker[w] EXCEPT !.state = "quitting"]
         ELSE worker[w]]
  /\ text' = NoText /\ pos' = 1 /\ line' = [form |-> "comment"]
  /\ slot' = Empty /\ todo' = {}
  /\ UNCHANGED <<file, dl, model, loads>>

-----------------------------------------------------------------------------
(* The workers                                                             *)

Quit(w) ==
  /\ worker[w].state = "quitting"
  /\ worker' = [worker EXCEPT ![w] = NoWorker]
  /\ UNCHANGED <<file, mpc, loadVars, cycle, dl, model, source, dirty, loads>>

\* A plugin or the module takes the worker down.
Crash(w) ==
  /\ worker[w].state \in {"up", "quitting"}
  /\ worker' = [worker EXCEPT ![w] =
                  IF @.state = "up" THEN [state |-> "dead"] ELSE NoWorker]
  /\ UNCHANGED <<file, mpc, loadVars, cycle, dl, model, source, dirty, loads>>

\* The master replaces it, when it is back in its loop.
Respawn(w) ==
  /\ mpc = "idle" /\ worker[w].state = "dead"
  /\ worker' = [worker EXCEPT ![w] = Forked(cycle, dirty)]
  /\ UNCHANGED <<file, mpc, loadVars, cycle, dl, model, source, dirty, loads>>

-----------------------------------------------------------------------------
Load  == Skip \/ LineFails \/ SymbolFails \/ LoadPlugin
Inits == (\E n \in Names : InitPlugin(n) \/ InitFails(n)) \/ InitDone

Next ==
  \/ Edit \/ Open \/ Load \/ Inits
  \/ \E w \in Workers : Quit(w) \/ Crash(w) \/ Respawn(w)

Spec == Init /\ [][Next]_vars

\* The master runs on, and a worker that is told to quit does so.
FairSpec ==
  Spec /\ WF_vars(Load) /\ WF_vars(Inits) /\ \A w \in Workers : WF_vars(Quit(w) \/ Respawn(w))

-----------------------------------------------------------------------------
(* Properties                                                              *)

InfoType == [lib : Libs, conf : Confs, ext : BOOLEAN]
Slots    == UNION {[ns -> InfoType] : ns \in SUBSET Names}

(* Every variable has a value of its type; no library is closed more often *)
(* than it was opened.                                                     *)
TypeOK ==
  /\ file \in Texts /\ text \in Texts \cup {NoText} /\ source \in Texts \cup {NoText}
  /\ mpc \in {"down", "idle", "reading", "init"}
  /\ pos \in Nat \ {0} /\ line \in LineType \cup {[form |-> "comment"]}
  /\ slot \in Slots /\ todo \subseteq DOMAIN slot
  /\ cycle \in Slots \cup {None}
  /\ dl \in [Libs -> Nat] /\ model \in [Libs -> Confs \cup {None}]
  /\ worker \in [Workers ->
       {NoWorker, [state |-> "dead"]} \cup
       [state : {"up", "quitting"}, slot : Slots, model : [Libs -> Confs \cup {None}],
        dirty : SUBSET Libs]]
  /\ dirty \subseteq Libs /\ loads \in 0..MaxLoads

\* The plugins that a list names, each with what its first line says.
Listed(t) ==
  LET First(n) == CHOOSE i \in DOMAIN t.lines :
                    /\ t.lines[i].form = "plugin" /\ t.lines[i].name = n
                    /\ \A j \in 1..(i - 1) :
                         ~(t.lines[j].form = "plugin" /\ t.lines[j].name = n)
  IN  [n \in {t.lines[i].name : i \in {j \in DOMAIN t.lines : t.lines[j].form = "plugin"}} |->
         Info(t.lines[First(n)])]

Usable(t) ==
  t.form = "comment" \/ (t.form = "plugin" /\ t.lib \notin Absent /\ t.symbols)

(* Although the loop on eof() reads the last token a second time when a    *)
(* newline follows it (82-83), the slot holds exactly the plugins of the   *)
(* list, each as its first line has it, and a list with any line that      *)
(* cannot be used is never in force.                                       *)
SlotIsList ==
  /\ mpc = "init" => slot = Listed(text) /\ \A i \in DOMAIN text.lines : Usable(text.lines[i])
  /\ cycle # None =>
       cycle = Listed(source) /\ \A i \in DOMAIN source.lines : Usable(source.lines[i])

Users(plugins, l) == {n \in DOMAIN plugins : plugins[n].lib = l}

(* The handlers that the slots of the master hold point into libraries     *)
(* that are still mapped, whatever failed loads close on their way out.    *)
HandlersMapped ==
  \A l \in Libs :
    dl[l] >= Cardinality(Users(slot, l))
             + (IF cycle = None THEN 0 ELSE Cardinality(Users(cycle, l)))

(* A worker runs each plugin on the model that the configuration of its    *)
(* slot names (of plugins in one library, the last in the map decides),    *)
(* also when it was forked long after; only a library that a failed reload *)
(* has initialized anew may differ.                                        *)
ModelAsConfigured ==
  \A w \in Workers :
    worker[w].state \in {"up", "quitting"} =>
      \A n \in DOMAIN worker[w].slot :
        LET info == worker[w].slot[n] IN
        (\A m \in Users(worker[w].slot, info.lib) : Rank[m] <= Rank[n])
          => worker[w].model[info.lib] = info.conf \/ info.lib \in worker[w].dirty

(* The directive returns: nginx starts, or exits, or is back in its loop   *)
(* (a directory in place of the list keeps it reading for ever).           *)
LoadEnds ==
  mpc \in {"reading", "init"} /\ text.kind = "file" ~> mpc \in {"idle", "down"}

=============================================================================
