------------------------------- MODULE Scripts --------------------------------
(***************************************************************************)
(* Compiling, running and caching compiled code.                           *)
(*                                                                         *)
(* A Script is an artefact: compiled in one realm, run in any.  Its code   *)
(* can be had as a blob, kept for as long as the embedder likes, damaged   *)
(* on the way, and offered back, in this process or a later one whose      *)
(* engine is another build.  Neither engine checks which source a blob is  *)
(* of, so the library frames every blob and offers the engine only those   *)
(* whose frame agrees.  V8 keeps a cache of its own besides, and answers a *)
(* repeat compile from it; SpiderMonkey has none, but forgets the text, of *)
(* which the backend keeps a copy to quote from for as long as the engine  *)
(* keeps any code compiled from it.                                        *)
(***************************************************************************)
EXTENDS Engine, Integers, Sequences, FiniteSets

CONSTANTS
  Handles,    \* Scripts the embedder may make
  Sources,    \* a source with its origin
  Names,      \* resource names
  NameOf,     \* the one a source has
  MaxBuilds,  \* bound on builds of the engine the blobs live through
  MaxBlobs,   \* bound on blobs kept at a time
  MaxRuns,    \* bound on live instances of a script outside its own realm
  MaxLost     \* bound on texts there is no memory to keep

ASSUME ScriptsBounds ==
  /\ MaxBuilds \in Nat \ {0} /\ MaxBlobs \in Nat
  /\ MaxRuns \in Nat /\ MaxLost \in Nat
  /\ NameOf \in [Sources -> Names]

VARIABLES
  build,     \* the engine's build identity
  script,    \* what each Script handle holds
  compiled,  \* V8: the isolate's own cache of compiled code
  blobs,     \* blobs the embedder has kept
  instances, \* code objects the engine has for a script: its own, elsewhere
  texts,     \* SpiderMonkey: Impl::sources, the references each text has
  lost,      \* scripts whose text could not be kept
  fedLazy    \* those of V8's entries an eager compile took from a lazy blob

vars == <<engine, build, script, compiled, blobs, instances, texts, lost, fedLazy>>

-----------------------------------------------------------------------------
(* `code` is the source that runs; `full` says that every function of it   *)
(* was compiled, and not only the top level.                               *)
Unmade == [stage |-> "unmade"]
Held(i) == script[i].stage = "held"
Made(i) == script[i].stage # "unmade"

Blob(src, b, code, full, intact) ==
  [src |-> src, build |-> b, code |-> code, full |-> full, intact |-> intact]
NoBlob == [src |-> "no blob"]
Result(code, full, used) == [code |-> code, full |-> full, used |-> used]

TypeOK ==
  /\ engine \in {"V8", "SpiderMonkey"} /\ build \in 1 .. MaxBuilds
  /\ script \in [Handles -> {Unmade} \cup
       [stage : {"held", "released"}, src : Sources, code : Sources,
        full : BOOLEAN, used : BOOLEAN, eager : BOOLEAN]]
  /\ compiled \subseteq [src : Sources, mark : BOOLEAN, code : Sources, full : BOOLEAN]
  /\ blobs \subseteq [src : Sources, build : 1 .. MaxBuilds, code : Sources,
                      full : BOOLEAN, intact : BOOLEAN]
  /\ instances \in [Handles -> [own : 0 .. 1, other : 0 .. MaxRuns]]
  /\ texts \in [Handles -> Nat]
  /\ lost \subseteq Handles /\ fedLazy \subseteq compiled

Init ==
  /\ engine \in Engines /\ build = 1
  /\ script = [i \in Handles |-> Unmade]
  /\ compiled = {} /\ blobs = {}
  /\ instances = [i \in Handles |-> [own |-> 0, other |-> 0]]
  /\ texts = [i \in Handles |-> 0] /\ lost = {} /\ fedLazy = {}

-----------------------------------------------------------------------------
(* The frame of a blob: what it must agree with before the engine sees it. *)
CodeCacheKey(src) == <<src, build>>

(* Mutant: a blob says of which build it is and not of which source.       *)
PayloadOfAnySource(b, src) == b # NoBlob /\ b.intact /\ b.build = build
CodeCachePayload(b, src) ==
  b # NoBlob /\ b.intact /\ <<b.src, b.build>> = CodeCacheKey(src)

(* What a compile comes to, given whether a blob is offered.  The engine   *)
(* refuses a blob of another build, and may refuse any.                    *)
EngineAccepts(b) == IF b.build = build THEN BOOLEAN ELSE {FALSE}

(* Mutant: eager and lazy compiles share their cache entries.              *)
Unmarked(eager) == FALSE

(* V8.  An eager compile's origin is marked, so that its cache entry is    *)
(* its own; a blob that would be refused is then not offered, and so the   *)
(* compile is the eager one.  An answer from V8's cache refuses nothing.   *)
Marked(eager) == eager

CompileInto(src, b, offered, eager) ==
  UNION {LET consume == offered /\ accepts
             hits == {e \in compiled : e.src = src /\ e.mark = Marked(eager)}
         IN {Result(e.code, e.full, offered /\ (eager => accepts)) : e \in hits}
              \cup (IF consume THEN {Result(b.code, b.full, TRUE)}
                    ELSE {Result(src, eager, FALSE)}) :
         accepts \in IF offered THEN EngineAccepts(b) ELSE {FALSE}}

(* SpiderMonkey.  A blob that does not decode, or whose code cannot be     *)
(* instantiated, leaves the source to be compiled.                         *)
CompileScriptWithCache(src, b, offered, eager) ==
  UNION {IF offered /\ accepts
         THEN {Result(b.code, b.full, TRUE), Result(src, eager, FALSE)}
         ELSE {Result(src, eager, FALSE)} :
         accepts \in IF offered THEN EngineAccepts(b) ELSE {FALSE}}

Outcomes(src, b, eager) ==
  IF engine = "V8" THEN CompileInto(src, b, CodeCachePayload(b, src), eager)
  ELSE CompileScriptWithCache(src, b, CodeCachePayload(b, src), eager)

RecFromStencil(i, src, r, eager) ==
  [script EXCEPT ![i] =
    [stage |-> "held", src |-> src, code |-> r.code, full |-> r.full,
     used |-> r.used, eager |-> eager]]

Entry(src, eager, r) ==
  [src |-> src, mark |-> Marked(eager), code |-> r.code, full |-> r.full]

(* Keeping the text may fail, which costs the quote and nothing else.      *)
RetainSource(i) ==
  IF engine = "V8" THEN UNCHANGED <<texts, lost>>
  ELSE \/ texts' = [texts EXCEPT ![i] = 1] /\ UNCHANGED lost
       \/ /\ Cardinality(lost) < MaxLost
          /\ lost' = lost \cup {i} /\ UNCHANGED texts

Compile(i, src, b, eager) ==
  /\ ~Made(i)
  /\ \E r \in Outcomes(src, b, eager) :
       /\ script' = RecFromStencil(i, src, r, eager)
       /\ compiled' = IF engine = "V8" THEN compiled \cup {Entry(src, eager, r)}
                      ELSE compiled
       /\ fedLazy' = IF engine = "V8" /\ eager /\ r.used /\ ~r.full
                     THEN fedLazy \cup {Entry(src, eager, r)} ELSE fedLazy
  /\ instances' = [instances EXCEPT ![i].own = 1]
  /\ RetainSource(i)
  /\ UNCHANGED <<engine, build, blobs>>

(* V8 lets entries of its cache go when it likes.                          *)
Evict(e) ==
  /\ e \in compiled
  /\ compiled' = compiled \ {e} /\ fedLazy' = fedLazy \ {e}
  /\ UNCHANGED <<engine, build, script, blobs, instances, texts, lost>>

-----------------------------------------------------------------------------
CreateCodeCache(i) ==
  /\ Held(i) /\ Cardinality(blobs) < MaxBlobs
  /\ blobs' = blobs \cup
       {Blob(script[i].src, build, script[i].code, script[i].full, TRUE)}
  /\ UNCHANGED <<engine, build, script, compiled, instances, texts, lost, fedLazy>>

(* A blob is a file: it can lose its end, or a bit of it turn.             *)
Damage(b) ==
  /\ b \in blobs /\ b.intact
  /\ \E s \in Sources :
       blobs' = (blobs \ {b}) \cup {[b EXCEPT !.intact = FALSE, !.code = s]}
  /\ UNCHANGED <<engine, build, script, compiled, instances, texts, lost, fedLazy>>

(* The process ends; the next has the blobs, and perhaps another engine.   *)
Restart ==
  /\ \E b \in build .. MaxBuilds : build' = b
  /\ script' = [i \in Handles |-> Unmade]
  /\ compiled' = {} /\ fedLazy' = {} /\ lost' = {}
  /\ instances' = [i \in Handles |-> [own |-> 0, other |-> 0]]
  /\ texts' = [i \in Handles |-> 0]
  /\ UNCHANGED <<engine, blobs>>

(* Mutant: a second instance of the code holds no text.                    *)
InstanceUncounted(i) == texts[i]

(* The script's own code object when it is run in its own realm; in any    *)
(* other SpiderMonkey instantiates it anew for that run, and the engine    *)
(* counts another holder of the text, if there is one.                     *)
AddSourceReference(i) == IF texts[i] > 0 THEN texts[i] + 1 ELSE 0

RunScript(i) ==
  /\ engine = "SpiderMonkey" /\ Held(i) /\ instances[i].other < MaxRuns
  /\ instances' = [instances EXCEPT ![i].other = @ + 1]
  /\ texts' = [texts EXCEPT ![i] = AddSourceReference(i)]
  /\ UNCHANGED <<engine, build, script, compiled, blobs, lost, fedLazy>>

ReleaseScript(i) ==
  /\ Held(i)
  /\ script' = [script EXCEPT ![i].stage = "released"]
  /\ UNCHANGED <<engine, build, compiled, blobs, instances, texts, lost, fedLazy>>

(* Code is collected when no handle and no function of it is left.         *)
ReleaseSourceReference(i) ==
  /\ engine = "SpiderMonkey"
  /\ \/ /\ ~Held(i) /\ instances[i].own = 1
        /\ instances' = [instances EXCEPT ![i].own = 0]
     \/ /\ instances[i].other > 0
        /\ instances' = [instances EXCEPT ![i].other = @ - 1]
  /\ texts' = [texts EXCEPT ![i] = IF @ > 0 THEN @ - 1 ELSE 0]
  /\ UNCHANGED <<engine, build, script, compiled, blobs, lost, fedLazy>>

(* The text an error is quoted from is found by its script's name, and     *)
(* only when all that have the name are the same.                          *)
TextsNamedAs(i) ==
  {script[j].src : j \in {k \in Handles : texts[k] > 0 /\
                            NameOf[script[k].src] = NameOf[script[i].src]}}
(* Mutant: any of them is quoted.                                          *)
FirstLineFound(i) ==
  IF TextsNamedAs(i) = {} THEN {} ELSE {CHOOSE src \in TextsNamedAs(i) : TRUE}
RetainedLine(i) == {src \in TextsNamedAs(i) : TextsNamedAs(i) = {src}}

Next ==
  \/ \E i \in Handles, src \in Sources, b \in blobs \cup {NoBlob}, eager \in BOOLEAN :
       Compile(i, src, b, eager)
  \/ \E e \in compiled : Evict(e)
  \/ \E i \in Handles : CreateCodeCache(i) \/ RunScript(i) \/ ReleaseScript(i)
  \/ \E i \in Handles : ReleaseSourceReference(i)
  \/ \E b \in blobs : Damage(b)
  \/ Restart

Spec == Init /\ [][Next]_vars
-----------------------------------------------------------------------------
(* What a Script runs is the source it was compiled from, whatever blobs   *)
(* were offered for it, from whatever source, build or broken file, and    *)
(* whatever the engine had cached.                                         *)
RunsItsSource == \A i \in Handles : Made(i) => script[i].code = script[i].src

(* A request to compile eagerly compiles everything unless a blob was used *)
(* instead, in this compile or, on V8, in an earlier one that was asked    *)
(* the same: what that one made is the answer for as long as V8 keeps it.  *)
EagerIsEager ==
  [][\A i \in Handles :
       ~Made(i) /\ Made(i)' /\ script'[i].eager /\ ~script'[i].used =>
         script'[i].full \/ \E e \in fedLazy : e.src = script'[i].src]_vars

(* The same without the exception, as unibind/script.h has it.  Refuted on *)
(* V8.                                                                     *)
EagerIsHonoured ==
  \A i \in Handles :
    Made(i) /\ script[i].eager /\ ~script[i].used => script[i].full

(* A text is kept for exactly as long as the engine has code of it; and an *)
(* error quotes the script that raised it or nothing, as long as every     *)
(* text could be kept.                                                     *)
KeepsItsText ==
  /\ engine = "SpiderMonkey" =>
       \A i \in Handles \ lost : texts[i] = instances[i].own + instances[i].other
  /\ \A i \in Handles :
       Made(i) /\ instances[i].own + instances[i].other > 0 /\ lost = {} =>
         RetainedLine(i) \subseteq {script[i].src}

=============================================================================
