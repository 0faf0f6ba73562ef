--------------------------- MODULE IsolateProofs ----------------------------
(***************************************************************************)
(* Proofs about what an isolate keeps for its embedder on one thread:      *)
(* compiled code and its caches, for every set of sources, Scripts and     *)
(* builds and any history of blobs; handles, for any depth of frames, any  *)
(* number of slots and any values; and exceptions, for any nesting of      *)
(* scripts, natives and handlers.                                          *)
(***************************************************************************)
EXTENDS Scripts, Frames, SMTryCatch, QueueLemmas, FiniteSetTheorems

-----------------------------------------------------------------------------
(* Compiled code.                                                          *)

(* Nothing that can be answered with holds code of another source: not an  *)
(* entry of V8's cache, and not a blob that still agrees with its frame.   *)
CachesAreTheirs ==
  /\ \A e \in compiled : e.code = e.src
  /\ \A b \in blobs : b.intact => b.code = b.src

(* A marked entry is of an eager compile, or of a blob taken for one.      *)
MarkedIsEager ==
  \A e \in compiled : e.mark => e.full \/ e \in fedLazy

ScriptsInv ==
  /\ TypeOK
  /\ RunsItsSource
  /\ CachesAreTheirs
  /\ MarkedIsEager

-----------------------------------------------------------------------------
(* What a compile comes to, on either engine: code of its source; and all  *)
(* of it when that was asked for, unless a blob was used instead, or one   *)
(* had been before.                                                        *)
LEMMA OutcomeIsOfItsSource ==
  ASSUME TypeOK, CachesAreTheirs, MarkedIsEager,
         NEW src \in Sources, NEW b \in blobs \cup {NoBlob}, NEW eager \in BOOLEAN,
         NEW r \in Outcomes(src, b, eager)
  PROVE  /\ r = Result(r.code, r.full, r.used)
         /\ r.code = src
         /\ r.full \in BOOLEAN /\ r.used \in BOOLEAN
         /\ eager /\ ~r.used => r.full \/ Entry(src, eager, r) \in fedLazy
<1> DEFINE Good(x) == /\ x = Result(x.code, x.full, x.used)
                      /\ x.code = src
                      /\ x.full \in BOOLEAN /\ x.used \in BOOLEAN
                      /\ eager /\ ~x.used => x.full \/ Entry(src, eager, x) \in fedLazy
<1>1. Good(Result(src, eager, FALSE))
  BY DEF Result
<1>2. ASSUME CodeCachePayload(b, src)
      PROVE  Good(Result(b.code, b.full, TRUE))
  <2>1. b \in blobs /\ b.intact /\ b.src = src
    BY <1>2 DEF CodeCachePayload, CodeCacheKey
  <2>2. b.code = src /\ b.full \in BOOLEAN
    BY <2>1 DEF CachesAreTheirs, TypeOK
  <2> QED
    BY <2>2 DEF Result
<1>3. ASSUME NEW e \in compiled, e.src = src, e.mark = Marked(eager),
             NEW used \in BOOLEAN
      PROVE  Good(Result(e.code, e.full, used))
  <2>1. e.code = src /\ e.full \in BOOLEAN
    BY <1>3 DEF CachesAreTheirs, TypeOK
  <2>2. eager => e.full \/ e \in fedLazy
    BY <1>3 DEF MarkedIsEager, Marked
  <2>3. Entry(src, eager, Result(e.code, e.full, used)) = e
    <3>1. e \in [src : Sources, mark : BOOLEAN, code : Sources, full : BOOLEAN]
      BY DEF TypeOK
    <3> QED
      BY <3>1, <1>3 DEF Entry, Result
  <2> QED
    BY <2>1, <2>2, <2>3 DEF Result
<1> HIDE DEF Good
<1>4. CASE engine = "V8"
  <2>1. PICK accepts \in BOOLEAN :
          \/ \E e \in compiled : /\ e.src = src /\ e.mark = Marked(eager)
                                 /\ \E used \in BOOLEAN : r = Result(e.code, e.full, used)
          \/ CodeCachePayload(b, src) /\ r = Result(b.code, b.full, TRUE)
          \/ r = Result(src, eager, FALSE)
    <3> DEFINE offered == CodeCachePayload(b, src)
    <3>1. r \in CompileInto(src, b, offered, eager)
      BY <1>4 DEF Outcomes
    <3>2. PICK accepts \in (IF offered THEN EngineAccepts(b) ELSE {FALSE}) :
            \/ \E e \in compiled : /\ e.src = src /\ e.mark = Marked(eager)
                 /\ r = Result(e.code, e.full, offered /\ (eager => accepts))
            \/ offered /\ accepts /\ r = Result(b.code, b.full, TRUE)
            \/ r = Result(src, eager, FALSE)
      BY <3>1 DEF CompileInto
    <3>3. accepts \in BOOLEAN
      BY <3>2 DEF EngineAccepts
    <3>4. (offered /\ (eager => accepts)) \in BOOLEAN
      BY ZenonT(10) DEF CodeCachePayload
    <3> QED
      BY <3>2, <3>3, <3>4
  <2>2. Good(r)
    BY <2>1, <1>1, <1>2, <1>3
  <2> QED
    BY <2>2 DEF Good
<1>5. CASE engine # "V8"
  <2>1. \/ CodeCachePayload(b, src) /\ r = Result(b.code, b.full, TRUE)
        \/ r = Result(src, eager, FALSE)
    BY <1>5 DEF Outcomes, CompileScriptWithCache
  <2>2. Good(r)
    BY <2>1, <1>1, <1>2
  <2> QED
    BY <2>2 DEF Good
<1> QED
  BY <1>4, <1>5

LEMMA InitScriptsInv == Init => ScriptsInv
<1> SUFFICES ASSUME Init PROVE ScriptsInv
  OBVIOUS
<1>1. TypeOK
  BY EngineAssumption, ScriptsBounds DEF Init, TypeOK
<1>2. \A i \in Handles : ~Made(i)
  BY DEF Init, Made, Unmade
<1> QED
  BY <1>1, <1>2 DEF Init, ScriptsInv, RunsItsSource, CachesAreTheirs, MarkedIsEager

(* A compile hands out, and files in V8's cache, what OutcomeIsOfItsSource *)
(* says of its outcome; the handle it fills held nothing before.           *)
LEMMA CompileKeeps ==
  ASSUME ScriptsInv, NEW i \in Handles, NEW src \in Sources,
         NEW b \in blobs \cup {NoBlob}, NEW eager \in BOOLEAN,
         Compile(i, src, b, eager)
  PROVE  ScriptsInv'
<1>1. PICK r \in Outcomes(src, b, eager) :
        /\ script' = RecFromStencil(i, src, r, eager)
        /\ compiled' = IF engine = "V8" THEN compiled \cup {Entry(src, eager, r)}
                       ELSE compiled
        /\ fedLazy' = IF engine = "V8" /\ eager /\ r.used /\ ~r.full
                      THEN fedLazy \cup {Entry(src, eager, r)} ELSE fedLazy
  BY DEF Compile
<1>2. /\ r.code = src
      /\ r.full \in BOOLEAN /\ r.used \in BOOLEAN
      /\ eager /\ ~r.used => r.full \/ Entry(src, eager, r) \in fedLazy
  BY OutcomeIsOfItsSource DEF ScriptsInv
<1> DEFINE rec == [stage |-> "held", src |-> src, code |-> r.code, full |-> r.full,
                   used |-> r.used, eager |-> eager]
           entry == Entry(src, eager, r)
<1>3. script' = [script EXCEPT ![i] = rec] /\ script' \in [Handles -> {Unmade} \cup
         [stage : {"held", "released"}, src : Sources, code : Sources,
          full : BOOLEAN, used : BOOLEAN, eager : BOOLEAN]]
  BY <1>1, <1>2 DEF RecFromStencil, ScriptsInv, TypeOK
<1>4. entry \in [src : Sources, mark : BOOLEAN, code : Sources, full : BOOLEAN]
  BY <1>2 DEF Entry, Marked
<1>5. compiled \subseteq compiled' /\ compiled' \subseteq compiled \cup {entry}
  BY <1>1
<1>6. fedLazy \subseteq fedLazy' /\ fedLazy' \subseteq compiled'
  BY <1>1 DEF ScriptsInv, TypeOK
<1>7. TypeOK'
  <2>1. texts' \in [Handles -> Nat] /\ lost' \subseteq Handles
    BY DEF Compile, RetainSource, ScriptsInv, TypeOK
  <2>2. instances' \in [Handles -> [own : 0 .. 1, other : 0 .. MaxRuns]]
    BY DEF Compile, ScriptsInv, TypeOK
  <2> HIDE DEF entry, rec
  <2> QED
    BY <1>3, <1>4, <1>5, <1>6, <2>1, <2>2 DEF Compile, ScriptsInv, TypeOK
<1>8. RunsItsSource'
  <2> SUFFICES ASSUME NEW k \in Handles, Made(k)'
               PROVE  script'[k].code = script'[k].src
    BY DEF RunsItsSource
  <2>1. CASE k = i
    BY <2>1, <1>2, <1>3
  <2>2. CASE k # i
    BY <2>2, <1>3 DEF ScriptsInv, RunsItsSource, Made
  <2> QED
    BY <2>1, <2>2
<1>9. CachesAreTheirs'
  BY <1>2, <1>5 DEF CachesAreTheirs, ScriptsInv, Entry, Compile
<1>10. engine = "V8" /\ eager => r.full \/ entry \in fedLazy'
  BY <1>1, <1>2
<1>11. MarkedIsEager'
  <2> SUFFICES ASSUME NEW e \in compiled', e.mark
               PROVE  e.full \/ e \in fedLazy'
    BY DEF MarkedIsEager
  <2>1. CASE e \in compiled
    BY <2>1, <1>6 DEF ScriptsInv, MarkedIsEager
  <2>2. CASE e \notin compiled
    <3>1. engine = "V8" /\ e = entry
      BY <2>2, <1>1
    <3> QED
      BY <3>1, <1>10 DEF Entry, Marked
  <2> QED
    BY <2>1, <2>2
<1> QED
  BY <1>7, <1>8, <1>9, <1>11 DEF ScriptsInv

LEMMA NextScriptsInv == ScriptsInv /\ [Next]_vars => ScriptsInv'
<1> SUFFICES ASSUME ScriptsInv, [Next]_vars PROVE ScriptsInv'
  OBVIOUS
<1> USE DEF ScriptsInv
<1>1. ASSUME NEW i \in Handles, NEW src \in Sources,
             NEW b \in blobs \cup {NoBlob}, NEW eager \in BOOLEAN,
             Compile(i, src, b, eager)
      PROVE  ScriptsInv'
  BY <1>1, CompileKeeps
<1>2. ASSUME NEW e \in compiled, Evict(e) PROVE ScriptsInv'
  BY <1>2 DEF Evict, TypeOK, RunsItsSource, CachesAreTheirs, MarkedIsEager, Made
<1>3. ASSUME NEW i \in Handles, CreateCodeCache(i) PROVE ScriptsInv'
  <2> DEFINE b == Blob(script[i].src, build, script[i].code, script[i].full, TRUE)
  <2>1. script[i].code = script[i].src
    BY <1>3 DEF CreateCodeCache, Held, Made, RunsItsSource
  <2>2. b \in [src : Sources, build : 1 .. MaxBuilds, code : Sources,
               full : BOOLEAN, intact : BOOLEAN]
    <3>1. script[i] # Unmade
      BY <1>3 DEF CreateCodeCache, Held, Unmade
    <3>2. script[i] \in [stage : {"held", "released"}, src : Sources, code : Sources,
                         full : BOOLEAN, used : BOOLEAN, eager : BOOLEAN]
      BY <3>1 DEF TypeOK
    <3> QED
      BY <3>2 DEF TypeOK, Blob
  <2>3. b.code = b.src
    BY <2>1 DEF Blob
  <2>4. blobs' = blobs \cup {b}
    BY <1>3 DEF CreateCodeCache
  <2> HIDE DEF b
  <2> QED
    BY <1>3, <2>2, <2>3, <2>4 DEF CreateCodeCache, TypeOK, RunsItsSource, CachesAreTheirs,
       MarkedIsEager, Made
<1>4. ASSUME NEW i \in Handles, RunScript(i) PROVE ScriptsInv'
  <2>1. instances' \in [Handles -> [own : 0 .. 1, other : 0 .. MaxRuns]]
    BY <1>4, ScriptsBounds DEF RunScript, TypeOK
  <2>2. texts' \in [Handles -> Nat]
    BY <1>4 DEF RunScript, AddSourceReference, TypeOK
  <2> QED
    BY <1>4, <2>1, <2>2 DEF RunScript, TypeOK, RunsItsSource, CachesAreTheirs,
       MarkedIsEager, Made
<1>5. ASSUME NEW i \in Handles, ReleaseScript(i) PROVE ScriptsInv'
  <2>1. /\ script[i] # Unmade
        /\ script' = [script EXCEPT ![i] = [script[i] EXCEPT !.stage = "released"]]
    BY <1>5 DEF ReleaseScript, Held, Unmade
  <2>2. script[i] \in [stage : {"held", "released"}, src : Sources, code : Sources,
                       full : BOOLEAN, used : BOOLEAN, eager : BOOLEAN]
    BY <2>1 DEF TypeOK
  <2> DEFINE rec == [script[i] EXCEPT !.stage = "released"]
  <2>3. /\ rec \in [stage : {"held", "released"}, src : Sources, code : Sources,
                     full : BOOLEAN, used : BOOLEAN, eager : BOOLEAN]
        /\ rec.src = script[i].src /\ rec.code = script[i].code
        /\ rec.full = script[i].full /\ rec.used = script[i].used
        /\ rec.eager = script[i].eager
    BY <2>2
  <2>4. Made(i)
    BY <1>5 DEF ReleaseScript, Held, Made
  <2> HIDE DEF rec
  <2>5. /\ script' = [script EXCEPT ![i] = rec]
        /\ \A k \in Handles : script'[k] = IF k = i THEN rec ELSE script[k]
    BY <2>1 DEF TypeOK, rec
  <2>6. TypeOK'
    BY <1>5, <2>3, <2>5 DEF ReleaseScript, TypeOK
  <2> QED
    BY <1>5, <2>3, <2>4, <2>5, <2>6 DEF ReleaseScript, RunsItsSource, CachesAreTheirs,
       MarkedIsEager, Made
<1>6. ASSUME NEW i \in Handles, ReleaseSourceReference(i) PROVE ScriptsInv'
  <2>1. instances' \in [Handles -> [own : 0 .. 1, other : 0 .. MaxRuns]]
    BY <1>6, ScriptsBounds DEF ReleaseSourceReference, TypeOK
  <2>2. texts' \in [Handles -> Nat]
    BY <1>6 DEF ReleaseSourceReference, TypeOK
  <2> QED
    BY <1>6, <2>1, <2>2 DEF ReleaseSourceReference, TypeOK, RunsItsSource, CachesAreTheirs,
       MarkedIsEager, Made
<1>7. ASSUME NEW b \in blobs, Damage(b) PROVE ScriptsInv'
  <2>1. PICK s \in Sources :
          blobs' = (blobs \ {b}) \cup {[b EXCEPT !.intact = FALSE, !.code = s]}
    BY <1>7 DEF Damage
  <2> DEFINE d == [b EXCEPT !.intact = FALSE, !.code = s]
  <2>2. /\ d \in [src : Sources, build : 1 .. MaxBuilds, code : Sources,
                   full : BOOLEAN, intact : BOOLEAN]
        /\ ~d.intact
    BY DEF TypeOK
  <2> HIDE DEF d
  <2>3. blobs' = (blobs \ {b}) \cup {d}
    BY <2>1 DEF d
  <2> QED
    BY <1>7, <2>2, <2>3 DEF Damage, TypeOK, RunsItsSource, CachesAreTheirs,
       MarkedIsEager, Made
<1>8. CASE Restart
  <2>1. build' \in 1 .. MaxBuilds
    BY <1>8, ScriptsBounds DEF Restart, TypeOK
  <2>2. \A i \in Handles : ~Made(i)'
    BY <1>8 DEF Restart, Made, Unmade
  <2>3. TypeOK'
    BY <1>8, <2>1, ScriptsBounds DEF Restart, TypeOK
  <2> QED
    BY <1>8, <2>2, <2>3 DEF Restart, RunsItsSource, CachesAreTheirs, MarkedIsEager
<1>9. CASE UNCHANGED vars
  BY <1>9 DEF vars, TypeOK, RunsItsSource, CachesAreTheirs, MarkedIsEager, Made
<1> QED
  BY <1>1, <1>2, <1>3, <1>4, <1>5, <1>6, <1>7, <1>8, <1>9 DEF Next

-----------------------------------------------------------------------------
(* The engine's references to a text, SpiderMonkey's only, are its copies  *)
(* of the code, of which a Script that is held has its own, and one that   *)
(* was never made none.                                                    *)
TextsInStep ==
  \A i \in Handles :
    /\ engine = "SpiderMonkey" /\ i \notin lost =>
         texts[i] = instances[i].own + instances[i].other
    /\ engine = "V8" => texts[i] = 0
    /\ Held(i) => instances[i].own = 1
    /\ ~Made(i) => /\ instances[i].own = 0 /\ instances[i].other = 0
                   /\ texts[i] = 0 /\ i \notin lost

LEMMA InitTexts == Init => TextsInStep
  BY EngineAssumption DEF Init, TextsInStep, Held, Made, Unmade

LEMMA NextTexts == ScriptsInv /\ TextsInStep /\ [Next]_vars => TextsInStep'
<1> SUFFICES ASSUME ScriptsInv, TextsInStep, [Next]_vars PROVE TextsInStep'
  OBVIOUS
<1>0. /\ script \in [Handles -> {Unmade} \cup
           [stage : {"held", "released"}, src : Sources, code : Sources,
            full : BOOLEAN, used : BOOLEAN, eager : BOOLEAN]]
      /\ instances \in [Handles -> [own : 0 .. 1, other : 0 .. MaxRuns]]
      /\ texts \in [Handles -> Nat]
      /\ MaxRuns \in Nat
  BY ScriptsBounds DEF ScriptsInv, TypeOK
<1>1. ASSUME NEW i \in Handles, NEW src \in Sources,
             NEW b \in blobs \cup {NoBlob}, NEW eager \in BOOLEAN,
             Compile(i, src, b, eager)
      PROVE  TextsInStep'
  <2>1. PICK r : script' = RecFromStencil(i, src, r, eager)
    BY <1>1 DEF Compile
  <2>2. /\ script'[i].stage = "held"
        /\ \A k \in Handles \ {i} : script'[k] = script[k]
    BY <2>1, <1>0 DEF RecFromStencil
  <2>3. /\ instances'[i].own = 1 /\ instances'[i].other = instances[i].other
        /\ \A k \in Handles \ {i} : instances'[k] = instances[k]
    BY <1>1, <1>0 DEF Compile
  <2>4. \A k \in Handles \ {i} : texts'[k] = texts[k] /\ (k \in lost' <=> k \in lost)
    BY <1>1, <1>0 DEF Compile, RetainSource
  <2>5. /\ engine = "V8" => texts' = texts
        /\ engine = "SpiderMonkey" /\ i \notin lost' => texts'[i] = 1
    BY <1>1, <1>0 DEF Compile, RetainSource
  <2>6. ~Made(i) /\ engine' = engine
    BY <1>1 DEF Compile
  <2>7. Made(i)' /\ \A k \in Handles \ {i} : (Made(k)' <=> Made(k)) /\ (Held(k)' <=> Held(k))
    BY <2>2 DEF Made, Held
  <2>8. ASSUME NEW k \in Handles, k # i
        PROVE  /\ engine' = "SpiderMonkey" /\ k \notin lost' =>
                    texts'[k] = instances'[k].own + instances'[k].other
               /\ engine' = "V8" => texts'[k] = 0
               /\ Held(k)' => instances'[k].own = 1
               /\ ~Made(k)' => /\ instances'[k].own = 0 /\ instances'[k].other = 0
                               /\ texts'[k] = 0 /\ k \notin lost'
    BY <2>3, <2>4, <2>6, <2>7, <2>8 DEF TextsInStep
  <2>9. /\ engine' = "SpiderMonkey" /\ i \notin lost' =>
             texts'[i] = instances'[i].own + instances'[i].other
        /\ engine' = "V8" => texts'[i] = 0
        /\ instances'[i].own = 1
    BY <2>3, <2>5, <2>6 DEF TextsInStep
  <2> QED
    BY <2>7, <2>8, <2>9 DEF TextsInStep
<1>2. ASSUME NEW i \in Handles, RunScript(i) PROVE TextsInStep'
  <2>1. /\ instances'[i].own = instances[i].own
        /\ instances'[i].other = instances[i].other + 1
        /\ \A k \in Handles \ {i} : instances'[k] = instances[k]
    BY <1>2, <1>0 DEF RunScript
  <2>2. /\ texts'[i] = IF texts[i] > 0 THEN texts[i] + 1 ELSE 0
        /\ \A k \in Handles \ {i} : texts'[k] = texts[k]
    BY <1>2, <1>0 DEF RunScript, AddSourceReference
  <2>3. Held(i) /\ Made(i)
    BY <1>2 DEF RunScript, Held, Made
  <2>4. instances[i].own \in Nat /\ instances[i].other \in Nat /\ texts[i] \in Nat
    BY <1>0
  <2> QED
    BY <1>2, <2>1, <2>2, <2>3, <2>4 DEF RunScript, TextsInStep, Held, Made
<1>3. ASSUME NEW i \in Handles, ReleaseScript(i) PROVE TextsInStep'
  <2>1. /\ script'[i].stage = "released"
        /\ \A k \in Handles \ {i} : script'[k] = script[k]
    BY <1>3, <1>0 DEF ReleaseScript, Held, Unmade
  <2> QED
    BY <1>3, <2>1 DEF ReleaseScript, TextsInStep, Held, Made
<1>4. ASSUME NEW i \in Handles, ReleaseSourceReference(i) PROVE TextsInStep'
  <2>1. /\ texts'[i] = IF texts[i] > 0 THEN texts[i] - 1 ELSE 0
        /\ \A k \in Handles \ {i} : texts'[k] = texts[k] /\ instances'[k] = instances[k]
    BY <1>4, <1>0 DEF ReleaseSourceReference
  <2>2. \/ /\ ~Held(i) /\ instances[i].own = 1
           /\ instances'[i].own = 0 /\ instances'[i].other = instances[i].other
        \/ /\ instances[i].other > 0 /\ instances'[i].own = instances[i].own
           /\ instances'[i].other = instances[i].other - 1
    BY <1>4, <1>0 DEF ReleaseSourceReference
  <2>3. instances[i].own \in Nat /\ instances[i].other \in Nat /\ texts[i] \in Nat
    BY <1>0
  <2> QED
    BY <1>4, <2>1, <2>2, <2>3 DEF ReleaseSourceReference, TextsInStep, Held, Made
<1>5. CASE Restart
  BY <1>5 DEF Restart, TextsInStep, Held, Made, Unmade, ScriptsInv, TypeOK
<1>6. ASSUME NEW e \in compiled, Evict(e) PROVE TextsInStep'
  BY <1>6 DEF Evict, TextsInStep, Held, Made
<1>7. ASSUME NEW i \in Handles, CreateCodeCache(i) PROVE TextsInStep'
  BY <1>7 DEF CreateCodeCache, TextsInStep, Held, Made
<1>8. ASSUME NEW b \in blobs, Damage(b) PROVE TextsInStep'
  BY <1>8 DEF Damage, TextsInStep, Held, Made
<1>9. CASE UNCHANGED vars
  BY <1>9 DEF vars, TextsInStep, Held, Made
<1> QED
  BY <1>1, <1>2, <1>3, <1>4, <1>5, <1>6, <1>7, <1>8, <1>9 DEF Next

LEMMA TextsKept == TextsInStep /\ TypeOK => KeepsItsText
<1> SUFFICES ASSUME TextsInStep, TypeOK PROVE KeepsItsText
  OBVIOUS
<1>1. ASSUME NEW i \in Handles, Made(i), lost = {},
             instances[i].own + instances[i].other > 0
      PROVE  RetainedLine(i) \subseteq {script[i].src}
  <2>1. CASE engine = "V8"
    <3>1. TextsNamedAs(i) = {}
      BY <2>1 DEF TextsNamedAs, TextsInStep
    <3> QED
      BY <3>1 DEF RetainedLine
  <2>2. CASE engine = "SpiderMonkey"
    <3>1. texts[i] > 0
      BY <1>1, <2>2 DEF TextsInStep
    <3>2. script[i].src \in TextsNamedAs(i)
      BY <3>1 DEF TextsNamedAs
    <3> QED
      BY <3>2 DEF RetainedLine
  <2> QED
    BY <2>1, <2>2 DEF TypeOK
<1> QED
  BY <1>1 DEF KeepsItsText, TextsInStep

-----------------------------------------------------------------------------
(* Everything an answer is taken from holds code of the source it stands   *)
(* for, and every Script, cache and blob keeps its type.                   *)
THEOREM ScriptsInvariance == Spec => []ScriptsInv
  BY InitScriptsInv, NextScriptsInv, PTL DEF Spec

(* The variables keep their types.                                         *)
THEOREM TypeCorrect == Spec => []TypeOK
<1>1. ScriptsInv => TypeOK
  BY DEF ScriptsInv
<1> QED
  BY <1>1, ScriptsInvariance, PTL

(* A Script runs the source it was compiled from, whatever blobs it was    *)
(* offered and whatever V8 had cached.                                     *)
THEOREM CodeIsTheSources == Spec => []RunsItsSource
<1>1. ScriptsInv => RunsItsSource
  BY DEF ScriptsInv
<1> QED
  BY <1>1, ScriptsInvariance, PTL

(* A compile asked to be eager is, but for blobs taken instead.            *)
THEOREM EagerCompiles == Spec => EagerIsEager
<1> DEFINE Honoured ==
      \A i \in Handles :
        ~Made(i) /\ Made(i)' /\ script'[i].eager /\ ~script'[i].used =>
          script'[i].full \/ \E e \in fedLazy : e.src = script'[i].src
<1>1. ScriptsInv /\ [Next]_vars => [Honoured]_vars
  <2> SUFFICES ASSUME ScriptsInv, Next, NEW i \in Handles, ~Made(i), Made(i)',
                      script'[i].eager, ~script'[i].used
               PROVE  script'[i].full \/ \E e \in fedLazy : e.src = script'[i].src
    OBVIOUS
  <2>0. script \in [Handles -> {Unmade} \cup
          [stage : {"held", "released"}, src : Sources, code : Sources,
           full : BOOLEAN, used : BOOLEAN, eager : BOOLEAN]]
    BY DEF ScriptsInv, TypeOK
  <2>1. script'[i] # script[i]
    BY DEF Made
  <2>2. PICK k \in Handles, src \in Sources, b \in blobs \cup {NoBlob}, eager \in BOOLEAN :
          Compile(k, src, b, eager)
    <3>1. ~Restart
      BY <2>0 DEF Restart, Made, Unmade
    <3>2. ~\E k \in Handles : ReleaseScript(k)
      BY <2>0, <2>1 DEF ReleaseScript, Held, Made
    <3> QED
      BY <2>1, <3>1, <3>2
         DEF Next, Evict, CreateCodeCache, RunScript, ReleaseSourceReference, Damage
  <2>3. PICK r \in Outcomes(src, b, eager) : script' = RecFromStencil(k, src, r, eager)
    BY <2>2 DEF Compile
  <2>4. k = i
    BY <2>0, <2>1, <2>3 DEF RecFromStencil
  <2>5. /\ script'[i].src = src /\ script'[i].full = r.full
        /\ script'[i].used = r.used /\ script'[i].eager = eager
    BY <2>0, <2>3, <2>4 DEF RecFromStencil
  <2>6. r.full \/ Entry(src, eager, r) \in fedLazy
    BY <2>5, OutcomeIsOfItsSource DEF ScriptsInv
  <2> QED
    BY <2>5, <2>6 DEF Entry
<1> QED
  BY <1>1, ScriptsInvariance, PTL DEF Spec, EagerIsEager

(* A text is kept as long as the engine has code of it, and a line is      *)
(* quoted from the script it is in.                                        *)
THEOREM TextsLiveWithCode == Spec => []KeepsItsText
<1>1. ScriptsInv => TypeOK
  BY DEF ScriptsInv
<1> QED
  BY <1>1, InitScriptsInv, NextScriptsInv, InitTexts, NextTexts, TextsKept, PTL DEF Spec

-----------------------------------------------------------------------------
(* Handles.  The invariant is stated of the frames, what is parked and the *)
(* handles as arguments, so that its lemmas are about values and serve the *)
(* state before a step and the state after it alike.                       *)

(* The inductive invariant.                                                *)
Holdable == Values \cup {Nothing}
Cells == [is : Holdable, at : 0 .. MaxDepth]
Frame == [escapable : BOOLEAN, used : BOOLEAN, cells : Seq(Cells),
          argCount : Nat, deferred : Seq(Parked)]
Handle == [frame : Nat, index : Nat, names : Holdable]

Fits(fs, c, ls) ==
  /\ fs \in Seq(Frame)
  /\ c \in Seq(Parked)
  /\ c # <<>> => Len(fs) > 0
  /\ \A h \in ls : /\ h \in Handle
                   /\ h.frame \in 1 .. Len(fs)
                   /\ h.index \in 1 .. Len(fs[h.frame].cells)

Bounded(fs, e) ==
  /\ Len(fs) <= MaxDepth
  /\ \A d \in 1 .. Len(fs) :
       /\ Len(fs[d].cells) <= MaxSlots
       /\ fs[d].deferred # <<>> => fs[d].used /\ e = "V8" /\ d > 1

(* A slot points into its own frame's V8 scope, or into one further out.   *)
ScopesOK(fs) ==
  \A d \in 1 .. Len(fs) : \A i \in 1 .. Len(fs[d].cells) : fs[d].cells[i].at <= d

(* What is parked for a frame, by the one above it or by one that has just *)
(* closed, goes to a slot of its own, and handles on the slot name it.     *)
ParkedFor(fs, c, d) == IF d = Len(fs) THEN c ELSE fs[d + 1].deferred
PlanOK(ps, d, slots, ls) ==
  /\ \A i \in 1 .. Len(ps) :
       /\ ps[i].to <= slots
       /\ \A h \in ls : h.frame = d /\ h.index = ps[i].to => h.names = ps[i].is
  /\ \A i, k \in 1 .. Len(ps) : ps[i].to = ps[k].to => i = k
PlansOK(fs, c, ls) ==
  \A d \in 1 .. Len(fs) : PlanOK(ParkedFor(fs, c, d), d, Len(fs[d].cells), ls)

(* Handles on the other slots find what they name.                         *)
Awaited(fs, c, h) ==
  \E i \in 1 .. Len(ParkedFor(fs, c, h.frame)) :
    ParkedFor(fs, c, h.frame)[i].to = h.index
KeepsOK(fs, c, ls) ==
  \A h \in ls : ~Awaited(fs, c, h) => fs[h.frame].cells[h.index].is = h.names

Sound(fs, c, ls) == ScopesOK(fs) /\ PlansOK(fs, c, ls) /\ KeepsOK(fs, c, ls)

FramesInv ==
  /\ engine \in Engines
  /\ globals \in Seq(Values)
  /\ Fits(frames, closing, locals)
  /\ Bounded(frames, engine)
  /\ Sound(frames, closing, locals)

-----------------------------------------------------------------------------
(* What the steps do to the frames.                                        *)

LEMMA FrameFacts ==
  ASSUME NEW fs \in Seq(Frame)
  PROVE  /\ Len(fs) \in Nat
         /\ \A d \in 1 .. Len(fs) :
              /\ fs[d] \in Frame
              /\ fs[d].escapable \in BOOLEAN /\ fs[d].used \in BOOLEAN
              /\ fs[d].argCount \in Nat
              /\ fs[d].cells \in Seq(Cells) /\ Len(fs[d].cells) \in Nat
              /\ DOMAIN fs[d].cells = 1 .. Len(fs[d].cells)
              /\ \A i \in 1 .. Len(fs[d].cells) : fs[d].cells[i] \in Cells
              /\ fs[d].deferred \in Seq(Parked) /\ Len(fs[d].deferred) \in Nat
              /\ DOMAIN fs[d].deferred = 1 .. Len(fs[d].deferred)
<1>1. Len(fs) \in Nat /\ \A d \in 1 .. Len(fs) : fs[d] \in Frame
  BY LenProperties, ElementOfSeq
<1> SUFFICES ASSUME NEW d \in 1 .. Len(fs)
             PROVE  /\ fs[d] \in Frame
                    /\ fs[d].escapable \in BOOLEAN /\ fs[d].used \in BOOLEAN
                    /\ fs[d].argCount \in Nat
                    /\ fs[d].cells \in Seq(Cells) /\ Len(fs[d].cells) \in Nat
                    /\ DOMAIN fs[d].cells = 1 .. Len(fs[d].cells)
                    /\ \A i \in 1 .. Len(fs[d].cells) : fs[d].cells[i] \in Cells
                    /\ fs[d].deferred \in Seq(Parked) /\ Len(fs[d].deferred) \in Nat
                    /\ DOMAIN fs[d].deferred = 1 .. Len(fs[d].deferred)
  BY <1>1
<1>2. fs[d].cells \in Seq(Cells) /\ fs[d].deferred \in Seq(Parked)
  BY <1>1 DEF Frame
<1>3. /\ Len(fs[d].cells) \in Nat /\ DOMAIN fs[d].cells = 1 .. Len(fs[d].cells)
      /\ \A i \in 1 .. Len(fs[d].cells) : fs[d].cells[i] \in Cells
  BY <1>2, LenProperties, ElementOfSeq
<1>4. Len(fs[d].deferred) \in Nat /\ DOMAIN fs[d].deferred = 1 .. Len(fs[d].deferred)
  BY <1>2, LenProperties
<1>5. fs[d].used \in BOOLEAN /\ fs[d].escapable \in BOOLEAN /\ fs[d].argCount \in Nat
  BY <1>1 DEF Frame
<1> QED
  BY <1>1, <1>2, <1>3, <1>4, <1>5

(* A push on one frame.                                                    *)
LEMMA PushFacts ==
  ASSUME NEW fs \in Seq(Frame), NEW d \in 1 .. Len(fs), NEW cell \in Cells
  PROVE  LET gs == PushTo(fs, d, cell)
         IN /\ gs \in Seq(Frame) /\ Len(gs) = Len(fs)
            /\ gs[d].cells = Append(fs[d].cells, cell)
            /\ gs[d].deferred = fs[d].deferred /\ gs[d].used = fs[d].used
            /\ \A e \in 1 .. Len(fs) : e # d => gs[e] = fs[e]
<1> DEFINE f == fs[d]
           g == [f EXCEPT !.cells = Append(f.cells, cell)]
           gs == PushTo(fs, d, cell)
<1>1. f \in Frame /\ f.cells \in Seq(Cells)
  BY FrameFacts
<1>2. Append(f.cells, cell) \in Seq(Cells)
  BY <1>1, AppendFacts
<1>3. /\ g \in Frame /\ g.cells = Append(f.cells, cell)
      /\ g.deferred = f.deferred /\ g.used = f.used
  <2> DEFINE s == Append(f.cells, cell)
  <2>1. s \in Seq(Cells)
    BY <1>2
  <2>2. g = [f EXCEPT !.cells = s]
    OBVIOUS
  <2> HIDE DEF s, f
  <2> QED
    BY <1>1, <2>1, <2>2 DEF Frame, s
<1>4. gs = [fs EXCEPT ![d] = g]
  BY DEF PushTo
<1> HIDE DEF f, g, gs
<1>5. /\ gs \in Seq(Frame) /\ Len(gs) = Len(fs)
      /\ \A e \in 1 .. Len(fs) : gs[e] = IF e = d THEN g ELSE fs[e]
  BY <1>3, <1>4, ExceptSeq
<1> QED
  BY <1>3, <1>5 DEF f, gs

(* The invariant reads no more of a frame than its slots and what it holds *)
(* for its parent.                                                         *)
LEMMA SameSound ==
  ASSUME NEW fs, NEW gs, NEW c, NEW ls, Sound(fs, c, ls), Len(gs) = Len(fs),
         \A h \in ls : h.frame \in 1 .. Len(fs), Len(fs) \in Nat,
         \A e \in 1 .. Len(fs) : gs[e].cells = fs[e].cells /\ gs[e].deferred = fs[e].deferred
  PROVE  Sound(gs, c, ls)
<1>1. \A d \in 1 .. Len(fs) : ParkedFor(gs, c, d) = ParkedFor(fs, c, d)
  <2> SUFFICES ASSUME NEW d \in 1 .. Len(fs), d # Len(fs)
               PROVE  gs[d + 1].deferred = fs[d + 1].deferred
    BY DEF ParkedFor
  <2>1. d + 1 \in 1 .. Len(fs)
    OBVIOUS
  <2> QED
    BY <2>1
<1>2. ScopesOK(gs)
  BY DEF Sound, ScopesOK
<1>3. PlansOK(gs, c, ls)
  BY <1>1 DEF Sound, PlansOK, PlanOK
<1>4. KeepsOK(gs, c, ls)
  BY <1>1 DEF Sound, KeepsOK, Awaited
<1> QED
  BY <1>2, <1>3, <1>4 DEF Sound

(* One more slot, with what its handle names in it or parked for it.       *)
Slot(fs, t, v) == [frame |-> t, index |-> Len(fs[t].cells) + 1, names |-> v]

Grown(fs, gs, t, cell, v) ==
  /\ gs \in Seq(Frame) /\ Len(gs) = Len(fs)
  /\ gs[t].cells = Append(fs[t].cells, cell)
  /\ \A e \in 1 .. Len(fs) : e # t => gs[e].cells = fs[e].cells
  /\ \A e \in 1 .. Len(fs) : e # t + 1 => gs[e].deferred = fs[e].deferred
  /\ \A e \in 1 .. Len(fs) : fs[e].used => gs[e].used
  /\ \/ /\ t + 1 \in 1 .. Len(fs) => gs[t + 1].deferred = fs[t + 1].deferred
        /\ cell.is = v
     \/ /\ t + 1 \in 1 .. Len(fs)
        /\ [to |-> Len(fs[t].cells) + 1, is |-> v] \in Parked
        /\ gs[t + 1].deferred = Append(fs[t + 1].deferred,
                                      [to |-> Len(fs[t].cells) + 1, is |-> v])
        /\ gs[t + 1].used

LEMMA AddCell ==
  ASSUME NEW fs, NEW gs, NEW ls, NEW ms, Fits(fs, <<>>, ls), Sound(fs, <<>>, ls),
         NEW t \in 1 .. Len(fs), NEW cell \in Cells, cell.at <= t, NEW v,
         Grown(fs, gs, t, cell, v),
         ms \subseteq ls \cup {Slot(fs, t, v)}
  PROVE  /\ Sound(gs, <<>>, ms)
         /\ \A h \in ms : /\ h \in ls \/ h = Slot(fs, t, v)
                          /\ h.frame \in 1 .. Len(gs)
                          /\ h.index \in 1 .. Len(gs[h.frame].cells)
<1> DEFINE n == Len(fs[t].cells)
           slot == Slot(fs, t, v)
           p == [to |-> n + 1, is |-> v]
           l == Len(fs)
<1>0. /\ Len(gs) = Len(fs)
      /\ gs[t].cells = Append(fs[t].cells, cell)
      /\ \A e \in 1 .. Len(fs) : e # t => gs[e].cells = fs[e].cells
      /\ \A e \in 1 .. Len(fs) : e # t + 1 => gs[e].deferred = fs[e].deferred
      /\ \/ /\ t + 1 \in 1 .. Len(fs) => gs[t + 1].deferred = fs[t + 1].deferred
            /\ cell.is = v
         \/ /\ t + 1 \in 1 .. Len(fs)
            /\ [to |-> Len(fs[t].cells) + 1, is |-> v] \in Parked
            /\ gs[t + 1].deferred =
                 Append(fs[t + 1].deferred, [to |-> Len(fs[t].cells) + 1, is |-> v])
  BY Zenon DEF Grown
<1> USE <1>0
<1>1. fs \in Seq(Frame)
  BY DEF Fits
<1>2. /\ l \in Nat
      /\ \A d \in 1 .. l :
           /\ fs[d].cells \in Seq(Cells) /\ Len(fs[d].cells) \in Nat
           /\ \A i \in 1 .. Len(fs[d].cells) : fs[d].cells[i] \in Cells
           /\ fs[d].deferred \in Seq(Parked) /\ Len(fs[d].deferred) \in Nat
  BY <1>1, FrameFacts
<1>3. /\ n \in Nat /\ Len(gs[t].cells) = n + 1
      /\ \A i \in 1 .. n : gs[t].cells[i] = fs[t].cells[i]
      /\ gs[t].cells[n + 1] = cell
  <2>1. fs[t].cells \in Seq(Cells)
    BY <1>2
  <2> QED
    BY <2>1, <1>2, AppendFacts
<1>4. slot.frame = t /\ slot.index = n + 1 /\ slot.names = v
  BY DEF Slot
<1>5. /\ \A h \in ls : h.frame \in 1 .. l /\ h.index \in 1 .. Len(fs[h.frame].cells)
      /\ \A h \in ms : h \in ls \/ h = slot
  BY DEF Fits
<1> HIDE DEF slot, l, n
<1>6. \A h \in ls : h.frame = t => h.index \in 1 .. n /\ h.index # n + 1
  BY <1>2, <1>3, <1>5 DEF n
<1>7. ASSUME NEW h \in ms
      PROVE  h.frame \in 1 .. Len(gs) /\ h.index \in 1 .. Len(gs[h.frame].cells)
  <2>1. CASE h = slot
    <3>1. n + 1 \in 1 .. n + 1
      BY <1>3
    <3> QED
      BY <2>1, <3>1, <1>3, <1>4 DEF l
  <2>2. CASE h \in ls /\ h.frame = t
    <3>1. h.index \in 1 .. n + 1
      BY <2>2, <1>3, <1>6
    <3> QED
      BY <2>2, <3>1, <1>3
  <2>3. CASE h \in ls /\ h.frame # t
    BY <2>3, <1>5 DEF l
  <2> QED
    BY <2>1, <2>2, <2>3, <1>5
<1>8. ScopesOK(gs)
  <2> SUFFICES ASSUME NEW d \in 1 .. l, NEW i \in 1 .. Len(gs[d].cells)
               PROVE  gs[d].cells[i].at <= d
    BY DEF ScopesOK, l
  <2>1. CASE d # t
    BY <2>1 DEF Sound, ScopesOK, l
  <2>2. CASE d = t /\ i = n + 1
    BY <2>2, <1>3
  <2>3. CASE d = t /\ i # n + 1
    <3>1. i \in 1 .. n
      BY <2>3, <1>3
    <3> QED
      BY <2>3, <3>1, <1>3 DEF Sound, ScopesOK, n
  <2> QED
    BY <2>1, <2>2, <2>3
<1>9. \A d \in 1 .. l : d # t => ParkedFor(gs, <<>>, d) = ParkedFor(fs, <<>>, d)
  <2> SUFFICES ASSUME NEW d \in 1 .. l, d # t, d # l
               PROVE  gs[d + 1].deferred = fs[d + 1].deferred
    BY DEF ParkedFor, l
  <2>1. d + 1 \in 1 .. l /\ d + 1 # t + 1
    BY <1>2
  <2> QED
    BY <2>1 DEF l
<1>10. ASSUME NEW d \in 1 .. l, d # t
       PROVE  PlanOK(ParkedFor(gs, <<>>, d), d, Len(gs[d].cells), ms)
  <2>1. PlanOK(ParkedFor(fs, <<>>, d), d, Len(fs[d].cells), ls)
    BY DEF Sound, PlansOK, l
  <2>2. PlanOK(ParkedFor(fs, <<>>, d), d, Len(fs[d].cells), ms)
    BY <2>1, <1>4, <1>5, <1>10 DEF PlanOK
  <2>3. gs[d].cells = fs[d].cells
    BY <1>10 DEF l
  <2> QED
    BY <2>2, <2>3, <1>9, <1>10
<1> DEFINE qs == ParkedFor(fs, <<>>, t)
           ps == ParkedFor(gs, <<>>, t)
<1>11. /\ qs \in Seq(Parked)
       /\ \A i \in 1 .. Len(qs) :
            /\ qs[i].to <= n
            /\ \A h \in ls : h.frame = t /\ h.index = qs[i].to => h.names = qs[i].is
       /\ \A i, k \in 1 .. Len(qs) : qs[i].to = qs[k].to => i = k
       /\ \A i \in 1 .. Len(qs) : qs[i] \in Parked /\ qs[i].to \in Nat
       /\ Len(qs) \in Nat
  <2>1. qs \in Seq(Parked)
    <3>1. CASE t = l
      BY <3>1, EmptySeq DEF ParkedFor, l
    <3>2. CASE t # l
      <4>1. t + 1 \in 1 .. l
        BY <3>2, <1>2 DEF l
      <4> QED
        BY <3>2, <4>1, <1>2 DEF ParkedFor, l
    <3> QED
      BY <3>1, <3>2
  <2>2. /\ \A i \in 1 .. Len(qs) :
            /\ qs[i].to <= n
            /\ \A h \in ls : h.frame = t /\ h.index = qs[i].to => h.names = qs[i].is
       /\ \A i, k \in 1 .. Len(qs) : qs[i].to = qs[k].to => i = k
    BY DEF Sound, PlansOK, PlanOK, n
  <2> HIDE DEF qs
  <2>3. Len(qs) \in Nat /\ \A i \in 1 .. Len(qs) : qs[i] \in Parked
    BY <2>1, LenProperties, ElementOfSeq
  <2>4. \A i \in 1 .. Len(qs) : qs[i].to \in Nat
    BY <2>3, BoundAssumption DEF Parked
  <2> QED
    BY <2>1, <2>2, <2>3, <2>4
<1>12. \/ ps = qs /\ cell.is = v
       \/ ps = Append(qs, p) /\ p \in Parked
  <2>1. CASE t + 1 \in 1 .. l => gs[t + 1].deferred = fs[t + 1].deferred /\ cell.is = v
    <3>1. t # l => t + 1 \in 1 .. l
      BY <1>2 DEF l
    <3> QED
      BY <3>1, <2>1 DEF ParkedFor, l
  <2>2. CASE /\ t + 1 \in 1 .. l
             /\ p \in Parked
             /\ gs[t + 1].deferred = Append(fs[t + 1].deferred, p)
    <3>1. t # l
      BY <2>2, <1>2 DEF l
    <3> QED
      BY <3>1, <2>2 DEF ParkedFor, l
  <2> QED
    BY <2>1, <2>2 DEF l, n
<1> HIDE DEF ps, qs
<1>13. CASE ps = qs /\ cell.is = v
  <2>1. PlansOK(gs, <<>>, ms)
    <3>1. /\ \A i \in 1 .. Len(ps) :
               /\ ps[i].to <= n + 1
               /\ \A h \in ms : h.frame = t /\ h.index = ps[i].to => h.names = ps[i].is
          /\ \A i, k \in 1 .. Len(ps) : ps[i].to = ps[k].to => i = k
      <4>1. ASSUME NEW i \in 1 .. Len(ps)
            PROVE  ps[i].to <= n + 1 /\ ps[i].to # n + 1
        <5>1. ps[i].to \in Nat /\ ps[i].to <= n /\ n \in Nat
          BY <1>3, <1>11, <1>13
        <5> QED
          BY <5>1
      <4>2. \A i \in 1 .. Len(ps) : \A h \in ms :
              h.frame = t /\ h.index = ps[i].to => h.names = ps[i].is
        BY <4>1, <1>4, <1>5, <1>11, <1>13
      <4>3. \A i, k \in 1 .. Len(ps) : ps[i].to = ps[k].to => i = k
        BY <1>11, <1>13
      <4> QED
        BY <4>1, <4>2, <4>3
    <3> QED
      <4>1. PlanOK(ps, t, n + 1, ms)
        BY <3>1 DEF PlanOK
      <4> QED
        BY <4>1, <1>3, <1>10 DEF PlansOK, ps, l
  <2>2. KeepsOK(gs, <<>>, ms)
    <3> SUFFICES ASSUME NEW h \in ms, ~Awaited(gs, <<>>, h)
                 PROVE  gs[h.frame].cells[h.index].is = h.names
      BY DEF KeepsOK
    <3>1. CASE h = slot
      BY <3>1, <1>3, <1>4, <1>13
    <3>2. CASE h \in ls
      <4>1. ~Awaited(fs, <<>>, h)
        BY <3>2, <1>5, <1>9, <1>13 DEF Awaited, ps, qs
      <4>2. fs[h.frame].cells[h.index].is = h.names
        BY <3>2, <4>1 DEF Sound, KeepsOK
      <4>3. gs[h.frame].cells[h.index] = fs[h.frame].cells[h.index]
        BY <3>2, <1>3, <1>5, <1>6 DEF l
      <4> QED
        BY <4>2, <4>3
    <3> QED
      BY <3>1, <3>2, <1>5
  <2> QED
    BY <1>7, <1>5, <1>8, <2>1, <2>2 DEF Sound, slot
<1>14. CASE ps = Append(qs, p) /\ p \in Parked
  <2>1. /\ Len(ps) = Len(qs) + 1
        /\ \A i \in 1 .. Len(qs) : ps[i] = qs[i]
        /\ ps[Len(qs) + 1] = p
    BY <1>11, <1>14, AppendFacts
  <2>2. p.to = n + 1 /\ p.is = v
    OBVIOUS
  <2> HIDE DEF p
  <2>3. PlansOK(gs, <<>>, ms)
    <3>1. ASSUME NEW i \in 1 .. Len(qs) + 1
          PROVE  /\ ps[i].to <= n + 1
                 /\ \A h \in ms : h.frame = t /\ h.index = ps[i].to => h.names = ps[i].is
      <4>1. CASE i = Len(qs) + 1
        <5>1. n + 1 <= n + 1
          BY <1>3
        <5> QED
          BY <4>1, <5>1, <2>1, <2>2, <1>4, <1>5, <1>6
      <4>2. CASE i \in 1 .. Len(qs)
        <5>0. qs[i].to <= n /\ qs[i].to \in Nat /\ n \in Nat
          BY <4>2, <1>3, <1>11
        <5>1. qs[i].to <= n /\ qs[i].to \in Nat /\ qs[i].to # n + 1 /\ qs[i].to <= n + 1
          BY <5>0
        <5> QED
          BY <4>2, <5>1, <2>1, <1>4, <1>5, <1>11
      <4> QED
        BY <4>1, <4>2, <1>11
    <3>2. ASSUME NEW i \in 1 .. Len(qs) + 1, NEW k \in 1 .. Len(qs) + 1, ps[i].to = ps[k].to
          PROVE  i = k
      <4>1. CASE i \in 1 .. Len(qs) /\ k \in 1 .. Len(qs)
        BY <4>1, <3>2, <2>1, <1>11
      <4>2. ASSUME NEW j \in 1 .. Len(qs) PROVE ps[j].to # n + 1
        <5>1. qs[j].to <= n /\ qs[j].to \in Nat /\ n \in Nat
          BY <1>3, <1>11
        <5>2. ps[j] = qs[j]
          BY <2>1
        <5> QED
          BY <5>1, <5>2
      <4>3. CASE i = Len(qs) + 1 \/ k = Len(qs) + 1
        <5>1. \A j \in 1 .. Len(qs) + 1 : ps[j].to = n + 1 => j = Len(qs) + 1
          BY <4>2, <1>11
        <5> QED
          BY <4>3, <5>1, <3>2, <2>1, <2>2
      <4>4. Len(qs) \in Nat
        BY <1>11
      <4>5. /\ i \in 1 .. Len(qs) \/ i = Len(qs) + 1
            /\ k \in 1 .. Len(qs) \/ k = Len(qs) + 1
        BY <4>4
      <4> QED
        BY <4>1, <4>3, <4>5
    <3> QED
      <4>1. PlanOK(ps, t, n + 1, ms)
        <5>1. /\ \A i \in 1 .. Len(ps) :
                   /\ ps[i].to <= n + 1
                   /\ \A h \in ms : h.frame = t /\ h.index = ps[i].to => h.names = ps[i].is
          BY <2>1, <3>1
        <5>2. \A i, k \in 1 .. Len(ps) : ps[i].to = ps[k].to => i = k
          BY <2>1, <3>2
        <5> HIDE DEF ps
        <5> QED
          BY <5>1, <5>2 DEF PlanOK
      <4> QED
        BY <4>1, <1>3, <1>10 DEF PlansOK, ps, l
  <2>4. KeepsOK(gs, <<>>, ms)
    <3> SUFFICES ASSUME NEW h \in ms, ~Awaited(gs, <<>>, h)
                 PROVE  gs[h.frame].cells[h.index].is = h.names
      BY DEF KeepsOK
    <3>1. h # slot
      <4> SUFFICES ASSUME h = slot PROVE FALSE
        OBVIOUS
      <4>1. Len(qs) + 1 \in 1 .. Len(ps)
        BY <1>11, <2>1
      <4> QED
        BY <4>1, <1>4, <2>1, <2>2 DEF Awaited, ps
    <3>2. h \in ls
      BY <3>1, <1>5
    <3>3. ~Awaited(fs, <<>>, h)
      <4>1. CASE h.frame # t
        BY <3>2, <4>1, <1>5, <1>9 DEF Awaited
      <4>2. CASE h.frame = t
        <5>1. \A i \in 1 .. Len(qs) : i \in 1 .. Len(ps) /\ ps[i] = qs[i]
          BY <1>11, <2>1
        <5> QED
          BY <4>2, <5>1 DEF Awaited, ps, qs
      <4> QED
        BY <4>1, <4>2
    <3>4. fs[h.frame].cells[h.index].is = h.names
      BY <3>2, <3>3 DEF Sound, KeepsOK
    <3>5. gs[h.frame].cells[h.index] = fs[h.frame].cells[h.index]
      BY <3>2, <1>3, <1>5, <1>6 DEF l
    <3> QED
      BY <3>4, <3>5
  <2> QED
    BY <1>7, <1>5, <1>8, <2>3, <2>4 DEF Sound, slot
<1> QED
  BY <1>12, <1>13, <1>14

(* A frame opens, with what a call borrows already in it.                  *)
LEMMA AddFrame ==
  ASSUME NEW fs, NEW ls, NEW ms, Fits(fs, <<>>, ls), Sound(fs, <<>>, ls),
         NEW f \in Frame, f.deferred = <<>>,
         \A i \in 1 .. Len(f.cells) : f.cells[i].at = 0,
         \A h \in ms : \/ h \in ls
                       \/ /\ h \in Handle /\ h.frame = Len(fs) + 1
                          /\ h.index \in 1 .. Len(f.cells)
                          /\ f.cells[h.index].is = h.names
  PROVE  Fits(Append(fs, f), <<>>, ms) /\ Sound(Append(fs, f), <<>>, ms)
<1> DEFINE gs == Append(fs, f)
           l == Len(fs)
<1>1. fs \in Seq(Frame)
  BY DEF Fits
<1>2. /\ l \in Nat
      /\ \A h \in ls : /\ h \in Handle /\ h.frame \in 1 .. l
                       /\ h.index \in 1 .. Len(fs[h.frame].cells)
  BY <1>1, LenProperties DEF Fits
<1>3. /\ gs \in Seq(Frame) /\ Len(gs) = l + 1
      /\ \A d \in 1 .. l : gs[d] = fs[d]
      /\ gs[l + 1] = f
  BY <1>1, AppendFacts
<1> HIDE DEF gs, l
<1>4. \A d \in 1 .. l + 1 : d \in 1 .. l \/ d = l + 1
  BY <1>2
<1>5. Fits(gs, <<>>, ms)
  <2>1. ASSUME NEW h \in ms
        PROVE  /\ h \in Handle
               /\ h.frame \in 1 .. Len(gs)
               /\ h.index \in 1 .. Len(gs[h.frame].cells)
    <3>1. CASE h \in ls
      <4>1. h.frame \in 1 .. Len(gs)
        BY <3>1, <1>2, <1>3
      <4> QED
        BY <3>1, <4>1, <1>2, <1>3
    <3>2. CASE /\ h \in Handle /\ h.frame = l + 1
               /\ h.index \in 1 .. Len(f.cells)
      <4>1. l + 1 \in 1 .. l + 1
        BY <1>2
      <4> QED
        BY <3>2, <4>1, <1>3
    <3> QED
      BY <3>1, <3>2 DEF l
  <2>2. <<>> \in Seq(Parked)
    BY EmptySeq
  <2> QED
    BY <2>1, <2>2, <1>3 DEF Fits
<1>6. ScopesOK(gs)
  <2> SUFFICES ASSUME NEW d \in 1 .. l + 1, NEW i \in 1 .. Len(gs[d].cells)
               PROVE  gs[d].cells[i].at <= d
    BY <1>3 DEF ScopesOK
  <2>1. CASE d \in 1 .. l
    BY <2>1, <1>3 DEF Sound, ScopesOK, l
  <2>2. CASE d = l + 1
    <3>1. gs[d].cells[i].at = 0
      BY <2>2, <1>3
    <3> QED
      BY <3>1, <1>2
  <2> QED
    BY <2>1, <2>2, <1>4
<1>7. ParkedFor(gs, <<>>, l + 1) = <<>>
  BY <1>3 DEF ParkedFor
<1>8. \A d \in 1 .. l : ParkedFor(gs, <<>>, d) = ParkedFor(fs, <<>>, d)
  <2> SUFFICES ASSUME NEW d \in 1 .. l
               PROVE  ParkedFor(gs, <<>>, d) = ParkedFor(fs, <<>>, d)
    OBVIOUS
  <2>1. d # l + 1
    BY <1>2
  <2>2. CASE d = l
    BY <2>1, <2>2, <1>3 DEF ParkedFor, l
  <2>3. CASE d # l
    <3>1. d + 1 \in 1 .. l
      BY <2>3, <1>2
    <3> QED
      BY <2>1, <2>3, <3>1, <1>3 DEF ParkedFor, l
  <2> QED
    BY <2>2, <2>3
<1>9. PlansOK(gs, <<>>, ms)
  <2> SUFFICES ASSUME NEW d \in 1 .. l + 1
               PROVE  PlanOK(ParkedFor(gs, <<>>, d), d, Len(gs[d].cells), ms)
    BY <1>3 DEF PlansOK
  <2>1. CASE d = l + 1
    <3>1. Len(<<>>) = 0 /\ 1 .. 0 = {}
      BY EmptySeq
    <3>2. PlanOK(<<>>, d, Len(gs[d].cells), ms)
      BY <3>1 DEF PlanOK
    <3> QED
      BY <2>1, <3>2, <1>7
  <2>2. CASE d \in 1 .. l
    <3>1. PlanOK(ParkedFor(fs, <<>>, d), d, Len(fs[d].cells), ls)
      BY <2>2 DEF Sound, PlansOK, l
    <3>2. d # l + 1
      BY <2>2, <1>2
    <3>3. \A h \in ms : h.frame = d => h \in ls
      BY <3>2 DEF l
    <3>4. PlanOK(ParkedFor(fs, <<>>, d), d, Len(fs[d].cells), ms)
      BY <3>1, <3>3 DEF PlanOK
    <3> QED
      BY <2>2, <3>4, <1>3, <1>8
  <2> QED
    BY <2>1, <2>2, <1>4
<1>10. KeepsOK(gs, <<>>, ms)
  <2> SUFFICES ASSUME NEW h \in ms, ~Awaited(gs, <<>>, h)
               PROVE  gs[h.frame].cells[h.index].is = h.names
    BY DEF KeepsOK
  <2>1. CASE h \in ls
    <3>1. ~Awaited(fs, <<>>, h)
      BY <2>1, <1>2, <1>8 DEF Awaited
    <3>2. fs[h.frame].cells[h.index].is = h.names
      BY <2>1, <3>1 DEF Sound, KeepsOK
    <3> QED
      BY <2>1, <3>2, <1>2, <1>3
  <2>2. CASE h.frame = l + 1 /\ f.cells[h.index].is = h.names
    BY <2>2, <1>3
  <2> QED
    BY <2>1, <2>2 DEF l
<1> QED
  BY <1>5, <1>6, <1>9, <1>10 DEF Sound, gs

(* A frame closes: what it held for its parent is what is to be applied.   *)
LEMMA DropFrame ==
  ASSUME NEW fs, NEW ls, Fits(fs, <<>>, ls), Sound(fs, <<>>, ls),
         Len(fs) > 0, Len(fs) = 1 => fs[1].deferred = <<>>
  PROVE  LET c == fs[Len(fs)].deferred
             ms == {h \in ls : h.frame < Len(fs)}
         IN Fits(Front(fs), c, ms) /\ Sound(Front(fs), c, ms)
<1> DEFINE gs == Front(fs)
           l == Len(fs)
           c == fs[l].deferred
           ms == {h \in ls : h.frame < l}
<1>1. fs \in Seq(Frame)
  BY DEF Fits
<1>2. /\ gs \in Seq(Frame) /\ l \in Nat /\ l >= 1 /\ Len(gs) = l - 1
      /\ \A d \in 1 .. l - 1 : gs[d] = fs[d]
  <2>1. fs # <<>>
    BY EmptySeq
  <2> QED
    BY <1>1, <2>1, Popped
<1>3. c \in Seq(Parked) /\ (c # <<>> => Len(gs) > 0)
  <2>1. l \in 1 .. l
    BY <1>2
  <2>2. c \in Seq(Parked)
    BY <1>1, <2>1, FrameFacts
  <2>3. l # 1 => l - 1 > 0
    BY <1>2
  <2> QED
    BY <2>2, <2>3, <1>2
<1>4. ASSUME NEW h \in ms
      PROVE  /\ h \in ls /\ h \in Handle
             /\ h.frame \in 1 .. l - 1
             /\ h.index \in 1 .. Len(fs[h.frame].cells)
  <2>1. /\ h \in ls /\ h \in Handle /\ h.frame \in 1 .. l /\ h.frame < l
        /\ h.index \in 1 .. Len(fs[h.frame].cells)
    BY DEF Fits
  <2> QED
    BY <2>1, <1>2
<1> HIDE DEF gs, l, c, ms
<1>5. Fits(gs, c, ms)
  <2>1. \A h \in ms : /\ h \in Handle /\ h.frame \in 1 .. Len(gs)
                     /\ h.index \in 1 .. Len(gs[h.frame].cells)
    BY <1>2, <1>4
  <2> QED
    BY <2>1, <1>2, <1>3 DEF Fits
<1>6. \A d \in 1 .. l - 1 : d \in 1 .. l /\ ParkedFor(gs, c, d) = ParkedFor(fs, <<>>, d)
  <2> SUFFICES ASSUME NEW d \in 1 .. l - 1
               PROVE  d \in 1 .. l /\ ParkedFor(gs, c, d) = ParkedFor(fs, <<>>, d)
    OBVIOUS
  <2>1. d \in 1 .. l /\ d # l
    BY <1>2
  <2>2. CASE d = l - 1
    <3>1. d + 1 = l
      BY <2>2, <1>2
    <3> QED
      BY <2>1, <2>2, <3>1, <1>2 DEF ParkedFor, l, c
  <2>3. CASE d # l - 1
    <3>1. d + 1 \in 1 .. l - 1
      BY <2>3, <1>2
    <3> QED
      BY <2>1, <2>3, <3>1, <1>2 DEF ParkedFor, l
  <2> QED
    BY <2>2, <2>3
<1>7. ScopesOK(gs)
  BY <1>2, <1>6 DEF Sound, ScopesOK, l
<1>8. PlansOK(gs, c, ms)
  <2> SUFFICES ASSUME NEW d \in 1 .. l - 1
               PROVE  PlanOK(ParkedFor(gs, c, d), d, Len(gs[d].cells), ms)
    BY <1>2 DEF PlansOK
  <2>1. PlanOK(ParkedFor(fs, <<>>, d), d, Len(fs[d].cells), ls)
    BY <1>6 DEF Sound, PlansOK, l
  <2>2. PlanOK(ParkedFor(fs, <<>>, d), d, Len(fs[d].cells), ms)
    BY <2>1, <1>4 DEF PlanOK
  <2> QED
    BY <2>2, <1>2, <1>6
<1>9. KeepsOK(gs, c, ms)
  <2> SUFFICES ASSUME NEW h \in ms, ~Awaited(gs, c, h)
               PROVE  gs[h.frame].cells[h.index].is = h.names
    BY DEF KeepsOK
  <2>1. ~Awaited(fs, <<>>, h)
    BY <1>4, <1>6 DEF Awaited
  <2>2. fs[h.frame].cells[h.index].is = h.names
    BY <2>1, <1>4 DEF Sound, KeepsOK
  <2> QED
    BY <2>2, <1>2, <1>4
<1> QED
  BY <1>5, <1>7, <1>8, <1>9 DEF Sound, gs, l, c, ms

(* A deferred escape is written into the slot that was held for it.        *)
LEMMA FillCell ==
  ASSUME NEW fs, NEW c, NEW ls, Fits(fs, c, ls), Sound(fs, c, ls), c # <<>>,
         Len(fs) <= MaxDepth
  PROVE  LET l == Len(fs)
             gs == [fs EXCEPT ![l].cells[Head(c).to] = Cell(Head(c).is, l)]
         IN /\ Fits(gs, Tail(c), ls) /\ Sound(gs, Tail(c), ls)
            /\ Len(gs) = l
            /\ \A d \in 1 .. l : /\ Len(gs[d].cells) = Len(fs[d].cells)
                                /\ gs[d].deferred = fs[d].deferred
                                /\ gs[d].used = fs[d].used
<1> DEFINE l == Len(fs)
           to == Head(c).to
           is == Head(c).is
           f == fs[l]
           cell == Cell(is, l)
           cs == [f.cells EXCEPT ![to] = cell]
           g == [f EXCEPT !.cells = cs]
           gs == [fs EXCEPT ![l].cells[to] = cell]
<1>1. fs \in Seq(Frame) /\ c \in Seq(Parked) /\ l > 0
  BY DEF Fits
<1>2. l \in Nat /\ l \in 1 .. l /\ l \in 0 .. MaxDepth
  <2>1. l \in Nat
    BY <1>1, LenProperties
  <2>2. MaxDepth \in Nat
    BY BoundAssumption
  <2> HIDE DEF l
  <2> QED
    BY <2>1, <2>2, <1>1 DEF l
<1>3. /\ Len(c) \in Nat /\ Len(c) > 0
      /\ Head(c) \in Parked /\ Head(c) = c[1]
      /\ Tail(c) \in Seq(Parked) /\ Len(Tail(c)) = Len(c) - 1
      /\ \A i \in 1 .. Len(c) - 1 : Tail(c)[i] = c[i + 1]
  BY <1>1, TailFacts
<1>4. ParkedFor(fs, c, l) = c
  BY DEF ParkedFor
<1>5. PlanOK(c, l, Len(f.cells), ls)
  BY <1>2, <1>4 DEF Sound, PlansOK
<1>6. /\ f \in Frame /\ f.cells \in Seq(Cells) /\ Len(f.cells) \in Nat
  BY <1>1, <1>2, FrameFacts
<1>7. /\ to \in 1 .. Len(f.cells) /\ is \in Values
      /\ \A h \in ls : h.frame = l /\ h.index = to => h.names = is
      /\ \A i \in 2 .. Len(c) : c[i].to # to
  <2>1. to \in 1 .. MaxSlots /\ is \in Values
    BY <1>3 DEF Parked
  <2>2. 1 \in 1 .. Len(c) /\ \A i \in 2 .. Len(c) : i \in 1 .. Len(c) /\ i # 1
    BY <1>3
  <2>3. to <= Len(f.cells)
    BY <2>2, <1>3, <1>5 DEF PlanOK
  <2>4. to \in 1 .. Len(f.cells)
    <3> HIDE DEF to, f
    <3> QED
      BY <2>1, <2>3, <1>6, BoundAssumption
  <2> QED
    BY <2>1, <2>2, <2>4, <1>3, <1>5 DEF PlanOK
<1>8. cell \in Cells /\ cell.at = l /\ cell.is = is
  BY <1>2, <1>7 DEF Cell, Cells, Holdable
<1> HIDE DEF l, to, is, cell, f
<1>9. /\ cs \in Seq(Cells) /\ Len(cs) = Len(f.cells)
      /\ \A i \in 1 .. Len(f.cells) : cs[i] = IF i = to THEN cell ELSE f.cells[i]
  BY <1>6, <1>7, <1>8, ExceptSeq
<1> HIDE DEF cs
<1>10. /\ g \in Frame /\ g.cells = cs /\ g.deferred = f.deferred /\ g.used = f.used
  BY <1>6, <1>9 DEF Frame
<1>11. gs = [fs EXCEPT ![l] = g]
  BY DEF cs, f
<1> HIDE DEF g, gs
<1>12. /\ gs \in Seq(Frame) /\ Len(gs) = l
       /\ \A e \in 1 .. l : gs[e] = IF e = l THEN g ELSE fs[e]
  BY <1>1, <1>2, <1>10, <1>11, ExceptSeq DEF l
<1>13. \A d \in 1 .. l : /\ Len(gs[d].cells) = Len(fs[d].cells)
                        /\ gs[d].deferred = fs[d].deferred
                        /\ gs[d].used = fs[d].used
  BY <1>9, <1>10, <1>12 DEF f
<1>14. \A h \in ls : /\ h \in Handle /\ h.frame \in 1 .. l
                    /\ h.index \in 1 .. Len(fs[h.frame].cells)
  BY DEF Fits, l
<1>15. Fits(gs, Tail(c), ls)
  BY <1>1, <1>3, <1>12, <1>13, <1>14 DEF Fits
<1>16. ScopesOK(gs)
  <2> SUFFICES ASSUME NEW d \in 1 .. l, NEW i \in 1 .. Len(fs[d].cells)
               PROVE  gs[d].cells[i].at <= d
    BY <1>12, <1>13 DEF ScopesOK
  <2>1. fs[d].cells[i].at <= d
    BY DEF Sound, ScopesOK, l
  <2>2. CASE d = l /\ i = to
    <3>1. gs[d].cells[i] = cell
      BY <2>2, <1>7, <1>9, <1>10, <1>12
    <3> QED
      BY <2>2, <3>1, <1>2, <1>8
  <2>3. CASE ~(d = l /\ i = to)
    BY <2>1, <2>3, <1>9, <1>10, <1>12 DEF f
  <2> QED
    BY <2>2, <2>3
<1>17. \A d \in 1 .. l : ParkedFor(gs, Tail(c), d) =
                          IF d = l THEN Tail(c) ELSE ParkedFor(fs, c, d)
  <2> SUFFICES ASSUME NEW d \in 1 .. l, d # l
               PROVE  gs[d + 1].deferred = fs[d + 1].deferred
    BY <1>12 DEF ParkedFor, l
  <2>1. d + 1 \in 1 .. l
    BY <1>2
  <2> QED
    BY <2>1, <1>13
<1>18. PlansOK(gs, Tail(c), ls)
  <2> SUFFICES ASSUME NEW d \in 1 .. l
               PROVE  PlanOK(ParkedFor(gs, Tail(c), d), d, Len(fs[d].cells), ls)
    BY <1>12, <1>13 DEF PlansOK
  <2>1. CASE d # l
    BY <2>1, <1>17 DEF Sound, PlansOK, l
  <2>2. CASE d = l
    <3>1. \A i \in 1 .. Len(Tail(c)) : i + 1 \in 1 .. Len(c) /\ Tail(c)[i] = c[i + 1]
      BY <1>3
    <3>2. /\ \A i \in 1 .. Len(Tail(c)) :
               /\ Tail(c)[i].to <= Len(f.cells)
               /\ \A h \in ls : h.frame = l /\ h.index = Tail(c)[i].to => h.names = Tail(c)[i].is
      BY <3>1, <1>5 DEF PlanOK
    <3>3. \A i, k \in 1 .. Len(Tail(c)) : Tail(c)[i].to = Tail(c)[k].to => i = k
      <4> SUFFICES ASSUME NEW i \in 1 .. Len(Tail(c)), NEW k \in 1 .. Len(Tail(c)),
                          Tail(c)[i].to = Tail(c)[k].to
                   PROVE  i = k
        OBVIOUS
      <4>1. i + 1 = k + 1
        BY <3>1, <1>5 DEF PlanOK
      <4> QED
        BY <4>1, <1>3
    <3>4. PlanOK(Tail(c), l, Len(f.cells), ls)
      BY <3>2, <3>3 DEF PlanOK
    <3> QED
      BY <2>2, <3>4, <1>17 DEF f
  <2> QED
    BY <2>1, <2>2
<1>19. KeepsOK(gs, Tail(c), ls)
  <2> SUFFICES ASSUME NEW h \in ls, ~Awaited(gs, Tail(c), h)
               PROVE  gs[h.frame].cells[h.index].is = h.names
    BY DEF KeepsOK
  <2>1. h.frame \in 1 .. l /\ h.index \in 1 .. Len(fs[h.frame].cells)
    BY <1>14
  <2>2. CASE h.frame = l /\ h.index = to
    <3>1. gs[h.frame].cells[h.index] = cell
      BY <2>1, <2>2, <1>7, <1>9, <1>10, <1>12
    <3> QED
      BY <2>2, <3>1, <1>7, <1>8
  <2>3. CASE ~(h.frame = l /\ h.index = to)
    <3>1. ~Awaited(fs, c, h)
      <4>1. CASE h.frame # l
        BY <2>1, <4>1, <1>17 DEF Awaited
      <4>2. CASE h.frame = l
        <5>1. \A i \in 1 .. Len(Tail(c)) : Tail(c)[i].to # h.index
          BY <2>1, <4>2, <1>17 DEF Awaited
        <5>2. ASSUME NEW i \in 1 .. Len(c) PROVE c[i].to # h.index
          <6>1. CASE i = 1
            BY <6>1, <4>2, <2>3, <1>3 DEF to
          <6>2. CASE i # 1
            <7>1. i - 1 \in 1 .. Len(Tail(c)) /\ i - 1 \in 1 .. Len(c) - 1 /\ (i - 1) + 1 = i
              BY <6>2, <1>3
            <7> QED
              BY <7>1, <5>1, <1>3
          <6> QED
            BY <6>1, <6>2
        <5> QED
          BY <5>2, <4>2, <1>4 DEF Awaited
      <4> QED
        BY <4>1, <4>2
    <3>2. fs[h.frame].cells[h.index].is = h.names
      BY <3>1 DEF Sound, KeepsOK
    <3>3. gs[h.frame].cells[h.index] = fs[h.frame].cells[h.index]
      BY <2>1, <2>3, <1>9, <1>10, <1>12 DEF f
    <3> QED
      BY <3>2, <3>3
  <2> QED
    BY <2>2, <2>3
<1> QED
  BY <1>12, <1>13, <1>15, <1>16, <1>18, <1>19 DEF Sound, gs, cell, to, is, l

(* V8's one escape of a frame is spent.                                    *)
LEMMA SpendFacts ==
  ASSUME NEW fs \in Seq(Frame), NEW d \in 1 .. Len(fs)
  PROVE  LET gs == [fs EXCEPT ![d].used = TRUE]
         IN /\ gs \in Seq(Frame) /\ Len(gs) = Len(fs)
            /\ \A e \in 1 .. Len(fs) : /\ gs[e].cells = fs[e].cells
                                     /\ gs[e].deferred = fs[e].deferred
                                     /\ gs[e].used = (e = d \/ fs[e].used)
<1> DEFINE f == fs[d]
           g == [f EXCEPT !.used = TRUE]
           gs == [fs EXCEPT ![d].used = TRUE]
<1>1. f \in Frame
  BY FrameFacts
<1> HIDE DEF f
<1>2. /\ g \in Frame /\ g.cells = f.cells
      /\ g.deferred = f.deferred /\ g.used = TRUE
  BY <1>1 DEF Frame
<1>3. gs = [fs EXCEPT ![d] = g]
  BY DEF f
<1> HIDE DEF g, gs
<1>4. /\ gs \in Seq(Frame) /\ Len(gs) = Len(fs)
      /\ \A e \in 1 .. Len(fs) : gs[e] = IF e = d THEN g ELSE fs[e]
  BY <1>2, <1>3, ExceptSeq
<1>5. ASSUME NEW e \in 1 .. Len(fs)
      PROVE  /\ gs[e].cells = fs[e].cells
             /\ gs[e].deferred = fs[e].deferred
  BY <1>2, <1>4 DEF f
<1>6. ASSUME NEW e \in 1 .. Len(fs)
      PROVE  gs[e].used = (e = d \/ fs[e].used)
  <2>1. CASE e = d
    <3>1. gs[e].used = TRUE
      BY <2>1, <1>2, <1>4
    <3> QED
      BY <2>1, <3>1
  <2>2. CASE e # d
    <3>1. gs[e] = fs[e] /\ fs[e].used \in BOOLEAN
      BY <2>2, <1>4, FrameFacts
    <3>2. (e = d \/ fs[e].used) = fs[e].used
      BY <2>2, <3>1, Zenon
    <3> QED
      BY <3>1, <3>2
  <2> QED
    BY <2>1, <2>2
<1> QED
  BY <1>4, <1>5, <1>6 DEF gs

(* An escape is parked with the frame it leaves.                           *)
LEMMA ParkFacts ==
  ASSUME NEW fs \in Seq(Frame), NEW d \in 1 .. Len(fs), NEW entry \in Parked
  PROVE  LET gs == [fs EXCEPT ![d].deferred = Append(@, entry)]
         IN /\ gs \in Seq(Frame) /\ Len(gs) = Len(fs)
            /\ \A e \in 1 .. Len(fs) : /\ gs[e].cells = fs[e].cells
                                     /\ gs[e].used = fs[e].used
            /\ gs[d].deferred = Append(fs[d].deferred, entry)
            /\ \A e \in 1 .. Len(fs) : e # d => gs[e] = fs[e]
<1> DEFINE f == fs[d]
           ps == Append(f.deferred, entry)
           g == [f EXCEPT !.deferred = ps]
           gs == [fs EXCEPT ![d].deferred = Append(@, entry)]
<1>1. f \in Frame /\ f.deferred \in Seq(Parked)
  BY FrameFacts
<1>2. ps \in Seq(Parked)
  BY <1>1, AppendFacts
<1>3. gs = [fs EXCEPT ![d] = g]
  OBVIOUS
<1> HIDE DEF f, ps, gs
<1>4. g \in Frame /\ g.cells = f.cells /\ g.deferred = ps /\ g.used = f.used
  BY <1>1, <1>2 DEF Frame
<1> HIDE DEF g
<1>5. /\ gs \in Seq(Frame) /\ Len(gs) = Len(fs)
      /\ \A e \in 1 .. Len(fs) : gs[e] = IF e = d THEN g ELSE fs[e]
  BY <1>3, <1>4, ExceptSeq
<1>6. /\ \A e \in 1 .. Len(fs) : /\ gs[e].cells = fs[e].cells
                               /\ gs[e].used = fs[e].used
      /\ gs[d].deferred = ps
      /\ \A e \in 1 .. Len(fs) : e # d => gs[e] = fs[e]
  BY <1>4, <1>5 DEF f
<1> QED
  BY <1>5, <1>6 DEF gs, ps, f

-----------------------------------------------------------------------------
(* The invariant.                                                          *)

LEMMA InitFramesInv == FramesInit => FramesInv
<1> SUFFICES ASSUME FramesInit PROVE FramesInv
  OBVIOUS
<1>1. frames = <<>> /\ closing = <<>> /\ globals = <<>> /\ locals = {} /\ engine \in Engines
  BY DEF FramesInit
<1>2. /\ <<>> \in Seq(Frame) /\ <<>> \in Seq(Parked) /\ <<>> \in Seq(Values)
      /\ Len(<<>>) = 0 /\ 1 .. 0 = {} /\ 0 <= MaxDepth
  BY EmptySeq, BoundAssumption
<1>3. Fits(<<>>, <<>>, {})
  BY <1>2 DEF Fits
<1>4. Bounded(<<>>, engine)
  BY <1>2 DEF Bounded
<1>5. Sound(<<>>, <<>>, {})
  BY <1>2 DEF Sound, ScopesOK, PlansOK, KeepsOK
<1> QED
  BY <1>1, <1>2, <1>3, <1>4, <1>5 DEF FramesInv

LEMMA OpenKeeps ==
  ASSUME FramesInv, NEW e \in BOOLEAN, OpenFrame(e)  PROVE FramesInv'
<1> DEFINE f == NewFrame(e, <<>>)
<1>1. /\ closing = <<>> /\ Len(frames) < MaxDepth /\ frames' = Append(frames, f)
      /\ engine' = engine /\ closing' = closing /\ globals' = globals /\ locals' = locals
  BY DEF OpenFrame, Idle, Depth
<1>2. /\ engine \in Engines /\ globals \in Seq(Values) /\ Fits(frames, <<>>, locals)
      /\ Bounded(frames, engine) /\ Sound(frames, <<>>, locals) /\ frames \in Seq(Frame)
  BY <1>1 DEF FramesInv, Fits
<1>3. Len(<<>>) = 0 /\ 1 .. 0 = {} /\ <<>> \in Seq(Cells) /\ <<>> \in Seq(Parked) /\ 0 <= MaxSlots
  BY EmptySeq, BoundAssumption
<1>4. f \in Frame /\ f.cells = <<>> /\ f.deferred = <<>>
  BY <1>3 DEF NewFrame, Frame
<1> HIDE DEF f
<1>5. Fits(Append(frames, f), <<>>, locals) /\ Sound(Append(frames, f), <<>>, locals)
  BY <1>2, <1>3, <1>4, AddFrame
<1>6. Bounded(Append(frames, f), engine)
  <2>1. /\ Len(Append(frames, f)) = Len(frames) + 1 /\ Len(frames) \in Nat
        /\ \A d \in 1 .. Len(frames) : Append(frames, f)[d] = frames[d]
        /\ Append(frames, f)[Len(frames) + 1] = f
    BY <1>2, <1>4, AppendFacts, LenProperties
  <2>2. Len(frames) + 1 <= MaxDepth
    BY <2>1, <1>1, BoundAssumption
  <2>3. \A d \in 1 .. Len(frames) + 1 : d \in 1 .. Len(frames) \/ d = Len(frames) + 1
    BY <2>1
  <2> QED
    BY <2>1, <2>2, <2>3, <1>2, <1>3, <1>4 DEF Bounded
<1> QED
  BY <1>1, <1>2, <1>5, <1>6 DEF FramesInv

LEMMA CallKeeps ==
  ASSUME FramesInv, NEW v \in Values, CallFrame(<<v>>)  PROVE FramesInv'
<1> DEFINE args == [i \in DOMAIN <<v>> |-> Cell(<<v>>[i], 0)]
           f == NewFrame(FALSE, args)
           made == {[frame |-> Depth + 1, index |-> i, names |-> <<v>>[i]] : i \in DOMAIN <<v>>}
           ms == locals \cup made
<1>1. /\ closing = <<>> /\ Len(frames) < MaxDepth /\ frames' = Append(frames, f)
      /\ engine' = engine /\ closing' = closing /\ globals' = globals /\ locals' = ms
  BY DEF CallFrame, Idle, Depth
<1>2. /\ engine \in Engines /\ globals \in Seq(Values) /\ Fits(frames, <<>>, locals)
      /\ Bounded(frames, engine) /\ Sound(frames, <<>>, locals) /\ frames \in Seq(Frame)
  BY <1>1 DEF FramesInv, Fits
<1>3. Len(frames) \in Nat /\ MaxDepth \in Nat /\ 1 <= MaxSlots /\ 0 \in 0 .. MaxDepth
  BY <1>2, LenProperties, BoundAssumption
<1>4. /\ args = [i \in 1 .. 1 |-> Cell(v, 0)]
      /\ made = {[frame |-> Len(frames) + 1, index |-> 1, names |-> v]}
  BY DEF Depth
<1>5. Cell(v, 0) \in Cells /\ Cell(v, 0).at = 0 /\ Cell(v, 0).is = v
  BY <1>3 DEF Cell, Cells, Holdable
<1>6. args \in Seq(Cells) /\ Len(args) = 1 /\ args[1] = Cell(v, 0)
  <2>1. args \in [1 .. 1 -> Cells]
    BY <1>4, <1>5
  <2>2. args \in Seq(Cells)
    BY <2>1, SeqDef
  <2>3. Len(args) = 1
    BY <2>1, <2>2, LenProperties
  <2> QED
    BY <2>2, <2>3, <1>4
<1> HIDE DEF args
<1>7. <<>> \in Seq(Parked) /\ Len(args) \in Nat
  BY <1>6, EmptySeq
<1>8. f \in Frame /\ f.cells = args /\ f.deferred = <<>>
  BY <1>6, <1>7 DEF NewFrame, Frame
<1> HIDE DEF f
<1>9. \A h \in ms : \/ h \in locals
                   \/ /\ h \in Handle /\ h.frame = Len(frames) + 1
                      /\ h.index \in 1 .. Len(f.cells)
                      /\ f.cells[h.index].is = h.names
  <2> SUFFICES ASSUME NEW h, h = [frame |-> Len(frames) + 1, index |-> 1, names |-> v]
               PROVE  /\ h \in Handle /\ h.frame = Len(frames) + 1
                      /\ h.index \in 1 .. Len(f.cells)
                      /\ f.cells[h.index].is = h.names
    BY <1>4
  <2>1. h.frame = Len(frames) + 1 /\ h.index = 1 /\ h.names = v
    OBVIOUS
  <2>2. h \in Handle
    BY <1>3 DEF Handle, Holdable
  <2>3. 1 \in 1 .. 1
    OBVIOUS
  <2> QED
    BY <2>1, <2>2, <2>3, <1>5, <1>6, <1>8
<1>10. \A i \in 1 .. Len(f.cells) : f.cells[i].at = 0
  <2>1. Len(f.cells) = 1 /\ f.cells[1].at = 0
    BY <1>5, <1>6, <1>8
  <2> QED
    BY <2>1
<1> HIDE DEF ms
<1>11. Fits(Append(frames, f), <<>>, ms) /\ Sound(Append(frames, f), <<>>, ms)
  BY <1>2, <1>8, <1>9, <1>10, AddFrame
<1>12. Bounded(Append(frames, f), engine)
  <2>1. /\ Len(Append(frames, f)) = Len(frames) + 1
        /\ \A d \in 1 .. Len(frames) : Append(frames, f)[d] = frames[d]
        /\ Append(frames, f)[Len(frames) + 1] = f
    BY <1>2, <1>8, AppendFacts
  <2>2. Len(frames) + 1 <= MaxDepth
    BY <1>1, <1>3
  <2>3. \A d \in 1 .. Len(frames) + 1 : d \in 1 .. Len(frames) \/ d = Len(frames) + 1
    BY <1>3
  <2>4. Len(f.cells) <= MaxSlots
    BY <1>3, <1>6, <1>8
  <2> QED
    BY <2>1, <2>2, <2>3, <2>4, <1>2, <1>8 DEF Bounded
<1> QED
  BY <1>1, <1>2, <1>11, <1>12 DEF FramesInv

(* A frame with one more slot: of a push, or of one of the ways to escape. *)
LEMMA GrowthKeeps ==
  ASSUME FramesInv, Idle, NEW t \in 1 .. Depth, HasRoom(t),
         NEW cell \in Cells, cell.at <= t, NEW v \in Holdable, NEW gs,
         Grown(frames, gs, t, cell, v),
         engine = "V8" \/ \A e \in 1 .. Depth : gs[e].deferred = frames[e].deferred,
         NEW ms, ms \subseteq locals \cup {Slot(frames, t, v)}
  PROVE  Fits(gs, <<>>, ms) /\ Bounded(gs, engine) /\ Sound(gs, <<>>, ms)
<1> DEFINE n == Len(frames[t].cells)
<1>1. /\ engine \in Engines /\ Fits(frames, <<>>, locals)
      /\ Bounded(frames, engine) /\ Sound(frames, <<>>, locals) /\ frames \in Seq(Frame)
  BY DEF FramesInv, Fits, Idle
<1>2. /\ Depth \in Nat /\ MaxDepth \in Nat /\ MaxSlots \in Nat /\ n \in Nat
      /\ Depth = Len(frames) /\ n < MaxSlots /\ t \in 1 .. Len(frames)
      /\ frames[t].cells \in Seq(Cells)
  BY <1>1, FrameFacts, BoundAssumption DEF Depth, HasRoom
<1>3. /\ Sound(gs, <<>>, ms)
      /\ \A h \in ms : /\ h \in locals \/ h = Slot(frames, t, v)
                       /\ h.frame \in 1 .. Len(gs)
                       /\ h.index \in 1 .. Len(gs[h.frame].cells)
  BY <1>1, <1>2, AddCell
<1>4. Fits(gs, <<>>, ms)
  <2>1. t \in Nat /\ n + 1 \in Nat
    BY <1>2
  <2>2. Slot(frames, t, v) \in Handle
    BY <2>1 DEF Slot, Handle
  <2>3. \A h \in locals : h \in Handle
    BY <1>1 DEF Fits
  <2>4. <<>> \in Seq(Parked) /\ gs \in Seq(Frame)
    BY EmptySeq DEF Grown
  <2> QED
    BY <1>3, <2>2, <2>3, <2>4 DEF Fits
<1>5. Bounded(gs, engine)
  <2>1. /\ Len(gs) = Depth
        /\ gs[t].cells = Append(frames[t].cells, cell)
        /\ \A e \in 1 .. Depth : e # t => gs[e].cells = frames[e].cells
    BY <1>2, Zenon DEF Grown
  <2>5. \A e \in 1 .. Depth : e # t + 1 => gs[e].deferred = frames[e].deferred
    BY <1>2, Zenon DEF Grown
  <2>6. \A e \in 1 .. Depth : frames[e].used => gs[e].used
    BY <1>2, Zenon DEF Grown
  <2>2. Depth <= MaxDepth /\ \A d \in 1 .. Depth : Len(frames[d].cells) <= MaxSlots
    BY <1>1, <1>2 DEF Bounded
  <2>7. \A d \in 1 .. Depth :
          frames[d].deferred # <<>> => frames[d].used /\ engine = "V8" /\ d > 1
    BY <1>1, <1>2, Zenon DEF Bounded
  <2>3. \A d \in 1 .. Depth : Len(gs[d].cells) <= MaxSlots
    <3>1. Len(gs[t].cells) = n + 1 /\ n + 1 <= MaxSlots
      BY <1>2, <2>1, AppendFacts
    <3> QED
      BY <2>1, <2>2, <3>1
  <2>4. ASSUME NEW d \in 1 .. Depth, gs[d].deferred # <<>>
        PROVE  gs[d].used /\ engine = "V8" /\ d > 1
    <3>1. CASE gs[d].deferred = frames[d].deferred
      <4>1. frames[d].deferred # <<>>
        BY <2>4, <3>1
      <4>2. frames[d].used /\ engine = "V8" /\ d > 1
        BY <2>7, <4>1, Zenon
      <4>3. gs[d].used
        BY <2>6, <4>2, Zenon
      <4> QED
        BY <4>2, <4>3
    <3>2. CASE gs[d].deferred # frames[d].deferred
      <4>1. d = t + 1 /\ engine = "V8"
        BY <2>5, <3>2
      <4>2. d \in 1 .. Len(frames)
        BY <1>2
      <4>3. gs[d].used
        BY <3>2, <4>1, <4>2 DEF Grown
      <4>4. d > 1
        BY <1>2, <4>1
      <4> QED
        BY <4>1, <4>3, <4>4
    <3> QED
      BY <3>1, <3>2
  <2> QED
    BY <1>2, <2>1, <2>2, <2>3, <2>4 DEF Bounded
<1> QED
  BY <1>3, <1>4, <1>5

LEMMA HandleFacts ==
  ASSUME FramesInv, NEW h \in locals
  PROVE  h.frame \in 1 .. Depth /\ h.names \in Holdable /\ Resolve(h) \in Holdable
<1>1. frames \in Seq(Frame) /\ h \in Handle
  BY DEF FramesInv, Fits
<1>2. h.frame \in 1 .. Len(frames) /\ h.index \in 1 .. Len(frames[h.frame].cells)
  BY DEF FramesInv, Fits
<1>3. frames[h.frame].cells[h.index] \in Cells
  BY <1>1, <1>2, FrameFacts
<1> QED
  BY <1>1, <1>2, <1>3 DEF Depth, Handle, Resolve, Cells

LEMMA PushKeeps ==
  ASSUME FramesInv, NEW v \in Values, Push(v)  PROVE FramesInv'
<1>1. /\ Idle /\ Depth > 0 /\ HasRoom(Depth) /\ closing = <<>>
      /\ engine' = engine /\ closing' = closing /\ globals' = globals
      /\ \/ /\ frames' = PushTo(frames, Depth, Cell(v, Depth))
            /\ locals' = locals \cup {Naming(Depth, v)}
         \/ frames' = frames /\ locals' = locals
  BY DEF Push, Idle
<1>2. frames \in Seq(Frame) /\ Depth <= MaxDepth /\ Depth = Len(frames)
  BY DEF FramesInv, Fits, Bounded, Depth
<1>3. Depth \in Nat /\ Depth \in 1 .. Depth /\ Depth \in 0 .. MaxDepth
  <2>1. Depth \in Nat
    BY <1>2, LenProperties
  <2> QED
    BY <2>1, <1>1, <1>2, BoundAssumption
<1>4. CASE frames' = frames /\ locals' = locals
  BY <1>1, <1>4 DEF FramesInv
<1>5. CASE /\ frames' = PushTo(frames, Depth, Cell(v, Depth))
           /\ locals' = locals \cup {Naming(Depth, v)}
  <2> DEFINE gs == PushTo(frames, Depth, Cell(v, Depth))
             ms == locals \cup {Naming(Depth, v)}
  <2>1. /\ Cell(v, Depth) \in Cells /\ Cell(v, Depth).at = Depth
        /\ Cell(v, Depth).is = v /\ v \in Holdable
    BY <1>3 DEF Cell, Cells, Holdable
  <2>2. /\ gs \in Seq(Frame) /\ Len(gs) = Depth
        /\ gs[Depth].cells = Append(frames[Depth].cells, Cell(v, Depth))
        /\ gs[Depth].deferred = frames[Depth].deferred /\ gs[Depth].used = frames[Depth].used
        /\ \A e \in 1 .. Depth : e # Depth => gs[e] = frames[e]
    BY <1>2, <1>3, <2>1, PushFacts
  <2>3. ms = locals \cup {Slot(frames, Depth, v)}
    BY DEF Slot, Naming
  <2> HIDE DEF gs, ms
  <2>4. ~(Depth + 1 \in 1 .. Depth) /\ Depth <= Depth
    BY <1>3
  <2>5. /\ \A e \in 1 .. Depth : e # Depth => gs[e].cells = frames[e].cells
        /\ \A e \in 1 .. Depth : gs[e].deferred = frames[e].deferred
        /\ \A e \in 1 .. Depth : frames[e].used => gs[e].used
    BY <2>2
  <2>6. Grown(frames, gs, Depth, Cell(v, Depth), v)
    BY <1>2, <2>1, <2>2, <2>4, <2>5 DEF Grown
  <2>7. Fits(gs, <<>>, ms) /\ Bounded(gs, engine) /\ Sound(gs, <<>>, ms)
    BY <1>1, <1>3, <2>1, <2>3, <2>4, <2>5, <2>6, GrowthKeeps
  <2> QED
    BY <1>1, <1>5, <2>7 DEF FramesInv, gs, ms
<1> QED
  BY <1>1, <1>4, <1>5

(* What holds of the frame an escape goes to.                              *)
LEMMA EscapeFacts ==
  ASSUME FramesInv, NEW d \in 2 .. Depth, NEW h \in locals, MayEscape(d)
  PROVE  /\ Idle /\ closing = <<>> /\ frames \in Seq(Frame) /\ Depth = Len(frames)
         /\ d - 1 \in 1 .. Depth /\ d \in 1 .. Depth /\ (d - 1) + 1 = d /\ d - 1 # d
         /\ HasRoom(d - 1)
         /\ Resolve(h) \in Holdable
         /\ Cell(Resolve(h), d - 1) \in Cells
         /\ Cell(Resolve(h), d - 1).at = d - 1 /\ d - 1 <= d - 1
         /\ Cell(Resolve(h), d - 1).is = Resolve(h)
         /\ Naming(d - 1, Resolve(h)) = Slot(frames, d - 1, Resolve(h))
<1>1. /\ Idle /\ closing = <<>> /\ frames \in Seq(Frame)
      /\ Depth = Len(frames) /\ Depth <= MaxDepth /\ HasRoom(d - 1)
  BY DEF MayEscape, Idle, FramesInv, Fits, Bounded, Depth
<1>2. Depth \in Nat /\ MaxDepth \in Nat
  BY <1>1, LenProperties, BoundAssumption
<1>3. /\ d - 1 \in 1 .. Depth /\ d \in 1 .. Depth /\ (d - 1) + 1 = d
      /\ d - 1 <= d - 1 /\ d - 1 \in 0 .. MaxDepth /\ d - 1 # d
  BY <1>1, <1>2
<1>4. Resolve(h) \in Holdable
  BY HandleFacts
<1>5. /\ Cell(Resolve(h), d - 1) \in Cells /\ Cell(Resolve(h), d - 1).at = d - 1
      /\ Cell(Resolve(h), d - 1).is = Resolve(h)
  BY <1>3, <1>4 DEF Cell, Cells
<1>6. Naming(d - 1, Resolve(h)) = Slot(frames, d - 1, Resolve(h))
  BY DEF Naming, Slot
<1> QED
  BY <1>1, <1>3, <1>4, <1>5, <1>6

LEMMA EscapeCopyKeeps ==
  ASSUME FramesInv, NEW h \in locals, NEW d \in 2 .. Depth, EscapeCopy(d, h)
  PROVE  FramesInv'
<1> DEFINE v == Resolve(h)
           cell == Cell(v, d - 1)
           gs == PushTo(frames, d - 1, cell)
           ms == locals \cup {Naming(d - 1, v)}
<1>1. /\ MayEscape(d)
      /\ engine' = engine /\ closing' = closing /\ globals' = globals
      /\ \/ frames' = gs /\ locals' = ms
         \/ frames' = frames /\ locals' = locals
  BY DEF EscapeCopy
<1>2. /\ Idle /\ closing = <<>> /\ frames \in Seq(Frame) /\ Depth = Len(frames)
      /\ d - 1 \in 1 .. Depth /\ d \in 1 .. Depth /\ (d - 1) + 1 = d /\ d - 1 # d
      /\ HasRoom(d - 1) /\ v \in Holdable
      /\ cell \in Cells /\ cell.at = d - 1 /\ d - 1 <= d - 1 /\ cell.is = v
      /\ Naming(d - 1, v) = Slot(frames, d - 1, v)
  BY <1>1, EscapeFacts
<1> HIDE DEF v, cell
<1>3. CASE frames' = frames /\ locals' = locals
  BY <1>1, <1>3 DEF FramesInv
<1>4. CASE frames' = gs /\ locals' = ms
  <2>1. /\ gs \in Seq(Frame) /\ Len(gs) = Len(frames)
        /\ gs[d - 1].cells = Append(frames[d - 1].cells, cell)
        /\ gs[d - 1].deferred = frames[d - 1].deferred /\ gs[d - 1].used = frames[d - 1].used
        /\ \A e \in 1 .. Len(frames) : e # d - 1 => gs[e] = frames[e]
    BY <1>2, PushFacts
  <2> HIDE DEF gs
  <2>2. /\ \A e \in 1 .. Len(frames) : e # d - 1 => gs[e].cells = frames[e].cells
        /\ \A e \in 1 .. Len(frames) : gs[e].deferred = frames[e].deferred
        /\ \A e \in 1 .. Len(frames) : frames[e].used => gs[e].used
    BY <2>1
  <2>3. Grown(frames, gs, d - 1, cell, v)
    BY <1>2, <2>1, <2>2 DEF Grown
  <2>4. Fits(gs, <<>>, ms) /\ Bounded(gs, engine) /\ Sound(gs, <<>>, ms)
    BY <1>2, <2>2, <2>3, GrowthKeeps
  <2> QED
    BY <1>1, <1>2, <1>4, <2>4 DEF FramesInv
<1> QED
  BY <1>1, <1>3, <1>4

(* The first escape of a frame on V8 spends its V8 scope's one hand-over,  *)
(* and then copies like SpiderMonkey's.                                    *)
LEMMA EscapeFirstKeeps ==
  ASSUME FramesInv, NEW h \in locals, NEW d \in 2 .. Depth, EscapeFirst(d, h)
  PROVE  FramesInv'
<1> DEFINE v == Resolve(h)
           cell == Cell(v, d - 1)
           spent == [frames EXCEPT ![d].used = TRUE]
           gs == PushTo(spent, d - 1, cell)
           ms == locals \cup {Naming(d - 1, v)}
<1>1. /\ MayEscape(d)
      /\ engine' = engine /\ closing' = closing /\ globals' = globals
      /\ \/ frames' = gs /\ locals' = ms
         \/ frames' = spent /\ locals' = locals
  BY DEF EscapeFirst
<1>2. /\ Idle /\ closing = <<>> /\ frames \in Seq(Frame) /\ Depth = Len(frames)
      /\ d - 1 \in 1 .. Depth /\ d \in 1 .. Depth /\ (d - 1) + 1 = d /\ d - 1 # d
      /\ HasRoom(d - 1) /\ v \in Holdable
      /\ cell \in Cells /\ cell.at = d - 1 /\ d - 1 <= d - 1 /\ cell.is = v
      /\ Naming(d - 1, v) = Slot(frames, d - 1, v)
  BY <1>1, EscapeFacts
<1> HIDE DEF v, cell
<1>3. /\ spent \in Seq(Frame) /\ Len(spent) = Len(frames)
      /\ \A e \in 1 .. Len(frames) : /\ spent[e].cells = frames[e].cells
                                   /\ spent[e].deferred = frames[e].deferred
                                   /\ spent[e].used = (e = d \/ frames[e].used)
  BY <1>2, SpendFacts
<1>4. \A e \in 1 .. Len(frames) : frames[e].used => spent[e].used
  BY <1>3
<1>5. \A e \in 1 .. Len(frames) : /\ spent[e].cells = frames[e].cells
                               /\ spent[e].deferred = frames[e].deferred
  BY <1>3
<1> HIDE DEF spent
<1>6. CASE frames' = spent /\ locals' = locals
  <2>1. Fits(frames, <<>>, locals) /\ Bounded(frames, engine) /\ Sound(frames, <<>>, locals)
    BY <1>2 DEF FramesInv
  <2>2. \A x \in locals : /\ x \in Handle /\ x.frame \in 1 .. Len(frames)
                         /\ x.index \in 1 .. Len(frames[x.frame].cells)
    BY <2>1 DEF Fits
  <2>3. Len(frames) \in Nat
    BY <1>2, LenProperties
  <2>4. Sound(spent, <<>>, locals)
    BY <1>3, <1>5, <2>1, <2>2, <2>3, SameSound
  <2>5. <<>> \in Seq(Parked)
    BY EmptySeq
  <2>6. Fits(spent, <<>>, locals)
    BY <1>3, <1>5, <2>2, <2>5 DEF Fits
  <2>7. Bounded(spent, engine)
    <3>1. Len(spent) <= MaxDepth /\ \A x \in 1 .. Len(frames) : Len(frames[x].cells) <= MaxSlots
      BY <1>3, <2>1 DEF Bounded
    <3>2. \A x \in 1 .. Len(frames) :
            frames[x].deferred # <<>> => frames[x].used /\ engine = "V8" /\ x > 1
      BY <2>1, Zenon DEF Bounded
    <3>3. \A x \in 1 .. Len(frames) :
            spent[x].deferred # <<>> => spent[x].used /\ engine = "V8" /\ x > 1
      BY <1>4, <1>5, <3>2, Zenon
    <3>4. \A x \in 1 .. Len(frames) : Len(spent[x].cells) <= MaxSlots
      BY <1>5, <3>1
    <3> QED
      BY <1>3, <3>1, <3>3, <3>4 DEF Bounded
  <2> QED
    BY <1>1, <1>2, <1>6, <2>4, <2>6, <2>7 DEF FramesInv
<1>7. CASE frames' = gs /\ locals' = ms
  <2>0. d - 1 \in 1 .. Len(spent)
    BY <1>2, <1>3
  <2>1. /\ gs \in Seq(Frame) /\ Len(gs) = Len(spent)
        /\ gs[d - 1].cells = Append(spent[d - 1].cells, cell)
        /\ gs[d - 1].deferred = spent[d - 1].deferred /\ gs[d - 1].used = spent[d - 1].used
        /\ \A e \in 1 .. Len(spent) : e # d - 1 => gs[e] = spent[e]
    BY <1>2, <1>3, <2>0, PushFacts
  <2> HIDE DEF gs
  <2>2. /\ gs[d - 1].cells = Append(frames[d - 1].cells, cell)
        /\ \A e \in 1 .. Len(frames) : e # d - 1 => gs[e].cells = frames[e].cells
        /\ \A e \in 1 .. Len(frames) : gs[e].deferred = frames[e].deferred
    BY <1>2, <1>3, <1>5, <2>1
  <2>3. \A e \in 1 .. Len(frames) : frames[e].used => gs[e].used
    BY <1>3, <1>4, <2>1
  <2>4. Grown(frames, gs, d - 1, cell, v)
    BY <1>2, <1>3, <2>1, <2>2, <2>3 DEF Grown
  <2>5. Fits(gs, <<>>, ms) /\ Bounded(gs, engine) /\ Sound(gs, <<>>, ms)
    <3>1. \A e \in 1 .. Depth : gs[e].deferred = frames[e].deferred
      BY <1>2, <2>2
    <3>2. ms \subseteq locals \cup {Slot(frames, d - 1, v)}
      BY <1>2
    <3> HIDE DEF ms
    <3> QED
      BY <1>2, <2>4, <3>1, <3>2, GrowthKeeps
  <2> QED
    BY <1>1, <1>2, <1>7, <2>5 DEF FramesInv
<1> QED
  BY <1>1, <1>6, <1>7

(* A later one holds a slot of the parent and parks the value.             *)
LEMMA EscapeLaterKeeps ==
  ASSUME FramesInv, NEW h \in locals, NEW d \in 2 .. Depth, EscapeLater(d, h)
  PROVE  FramesInv'
<1> DEFINE v == Resolve(h)
           held == PushTo(frames, d - 1, Reserved)
           slot == Naming(d - 1, v)
           entry == [to |-> slot.index, is |-> v]
           gs == [held EXCEPT ![d].deferred = Append(@, entry)]
           ms == locals \cup {slot}
<1>1. /\ MayEscape(d) /\ frames[d].used /\ engine = "V8"
      /\ engine' = engine /\ closing' = closing /\ globals' = globals
      /\ \/ v = Nothing /\ frames' = held /\ locals' = ms
         \/ v # Nothing /\ frames' = gs /\ locals' = ms
         \/ frames' = held /\ locals' = locals
         \/ frames' = frames /\ locals' = locals
  BY DEF EscapeLater
<1>2. /\ Idle /\ closing = <<>> /\ frames \in Seq(Frame) /\ Depth = Len(frames)
      /\ d - 1 \in 1 .. Depth /\ d \in 1 .. Depth /\ (d - 1) + 1 = d /\ d - 1 # d
      /\ HasRoom(d - 1) /\ v \in Holdable
      /\ slot = Slot(frames, d - 1, v)
  BY <1>1, EscapeFacts
<1>3. /\ Reserved \in Cells /\ Reserved.is = Nothing /\ Reserved.at = 0
      /\ Nothing \in Holdable /\ 0 <= d - 1
  <2>1. 0 \in 0 .. MaxDepth
    BY BoundAssumption
  <2>2. 0 <= d - 1
    BY <1>2
  <2> QED
    BY <2>1, <2>2 DEF Reserved, Cell, Cells, Holdable
<1>4. slot.index = Len(frames[d - 1].cells) + 1
  BY DEF Naming
<1>5. Reserved.at <= d - 1
  BY <1>3
<1> HIDE DEF v, slot
<1>6. /\ held \in Seq(Frame) /\ Len(held) = Len(frames)
      /\ held[d - 1].cells = Append(frames[d - 1].cells, Reserved)
      /\ held[d - 1].deferred = frames[d - 1].deferred /\ held[d - 1].used = frames[d - 1].used
      /\ \A e \in 1 .. Len(frames) : e # d - 1 => held[e] = frames[e]
  BY <1>2, <1>3, PushFacts
<1> HIDE DEF held
<1>7. /\ \A e \in 1 .. Len(frames) : e # d - 1 => held[e].cells = frames[e].cells
      /\ \A e \in 1 .. Len(frames) : held[e].deferred = frames[e].deferred
      /\ \A e \in 1 .. Len(frames) : frames[e].used => held[e].used
  BY <1>6
<1>8. Grown(frames, held, d - 1, Reserved, Nothing)
  BY <1>2, <1>3, <1>6, <1>7 DEF Grown
<1>9. ASSUME frames' = held, locals' \subseteq locals \cup {Slot(frames, d - 1, Nothing)}
      PROVE  FramesInv'
  <2>1. \A ls : ls \subseteq locals \cup {Slot(frames, d - 1, Nothing)} =>
          Fits(held, <<>>, ls) /\ Bounded(held, engine) /\ Sound(held, <<>>, ls)
    BY <1>2, <1>3, <1>5, <1>7, <1>8, GrowthKeeps
  <2>2. Fits(held, <<>>, locals') /\ Bounded(held, engine) /\ Sound(held, <<>>, locals')
    BY <2>1, <1>9
  <2> QED
    BY <1>1, <1>2, <1>9, <2>2 DEF FramesInv
<1>10. CASE frames' = frames /\ locals' = locals
  BY <1>1, <1>10 DEF FramesInv
<1>11. CASE v # Nothing /\ frames' = gs /\ locals' = ms
  <2>1. entry \in Parked
    <3>1. v \in Values
      BY <1>2, <1>11 DEF Holdable
    <3>2. Len(frames[d - 1].cells) \in Nat /\ Len(frames[d - 1].cells) < MaxSlots
      BY <1>2, FrameFacts DEF HasRoom
    <3>3. slot.index \in 1 .. MaxSlots
      BY <3>2, <1>4, BoundAssumption
    <3> QED
      BY <3>1, <3>3 DEF Parked
  <2>2. d \in 1 .. Len(held)
    BY <1>2, <1>6
  <2> HIDE DEF entry
  <2>3. /\ gs \in Seq(Frame) /\ Len(gs) = Len(held)
        /\ \A e \in 1 .. Len(held) : /\ gs[e].cells = held[e].cells
                                   /\ gs[e].used = held[e].used
        /\ gs[d].deferred = Append(held[d].deferred, entry)
        /\ \A e \in 1 .. Len(held) : e # d => gs[e] = held[e]
    <3>1. held \in Seq(Frame)
      BY <1>6
    <3> QED
      BY <3>1, <2>1, <2>2, ParkFacts, SMTT(30)
  <2> HIDE DEF gs
  <2>4. /\ gs[d - 1].cells = Append(frames[d - 1].cells, Reserved)
        /\ \A e \in 1 .. Len(frames) : e # d - 1 => gs[e].cells = frames[e].cells
        /\ \A e \in 1 .. Len(frames) : e # d => gs[e].deferred = frames[e].deferred
        /\ gs[d].deferred = Append(frames[d].deferred, entry)
    BY <1>2, <1>6, <1>7, <2>3
  <2>5. \A e \in 1 .. Len(frames) : frames[e].used => gs[e].used
    BY <1>6, <1>7, <2>3
  <2>6. gs[d].used
    BY <1>1, <1>2, <2>5
  <2>7. entry = [to |-> Len(frames[d - 1].cells) + 1, is |-> v]
    BY <1>4 DEF entry
  <2>8. Grown(frames, gs, d - 1, Reserved, v)
    BY <1>2, <1>6, <2>1, <2>3, <2>4, <2>5, <2>6, <2>7 DEF Grown
  <2>9. Fits(gs, <<>>, ms) /\ Bounded(gs, engine) /\ Sound(gs, <<>>, ms)
    BY <1>1, <1>2, <1>3, <1>5, <2>8, GrowthKeeps
  <2> QED
    BY <1>1, <1>2, <1>11, <2>9 DEF FramesInv
<1> HIDE DEF gs, ms
<1>12. \/ v = Nothing /\ frames' = held /\ locals' = ms
       \/ v # Nothing /\ frames' = gs /\ locals' = ms
       \/ frames' = held /\ locals' = locals
       \/ frames' = frames /\ locals' = locals
  BY <1>1, Zenon
<1>13. CASE v = Nothing /\ frames' = held /\ locals' = ms
  BY <1>2, <1>9, <1>13 DEF ms
<1>14. CASE frames' = held /\ locals' = locals
  BY <1>9, <1>14
<1> QED
  BY <1>10, <1>11, <1>12, <1>13, <1>14

LEMMA CloseKeeps ==
  ASSUME FramesInv, CloseFrame  PROVE FramesInv'
<1> DEFINE l == Len(frames)
           c == frames[l].deferred
           ms == {h \in locals : h.frame < l}
<1>1. /\ closing = <<>> /\ l > 0 /\ frames' = Front(frames) /\ closing' = Last(frames).deferred
      /\ locals' = ms /\ engine' = engine /\ globals' = globals
  BY DEF CloseFrame, Idle, Depth, Survivors
<1>2. /\ engine \in Engines /\ globals \in Seq(Values) /\ Fits(frames, <<>>, locals)
      /\ Bounded(frames, engine) /\ Sound(frames, <<>>, locals) /\ frames \in Seq(Frame)
  BY <1>1 DEF FramesInv, Fits
<1>3. /\ Front(frames) \in Seq(Frame) /\ l \in Nat /\ l >= 1
      /\ Len(Front(frames)) = l - 1
      /\ \A d \in 1 .. l - 1 : Front(frames)[d] = frames[d]
  <2>1. frames # <<>>
    BY <1>1, EmptySeq
  <2> QED
    BY <1>2, <2>1, Popped
<1>4. l = 1 => frames[1].deferred = <<>>
  <2>1. 1 \in 1 .. l /\ ~(1 > 1)
    BY <1>3
  <2> QED
    BY <1>2, <2>1 DEF Bounded
<1>5. closing' = c
  BY <1>1 DEF Last
<1>6. Fits(Front(frames), c, ms) /\ Sound(Front(frames), c, ms)
  BY <1>1, <1>2, <1>4, DropFrame
<1>7. Bounded(Front(frames), engine)
  <2>1. \A d \in 1 .. l - 1 : d \in 1 .. l
    BY <1>3
  <2>2. l <= MaxDepth /\ l - 1 <= MaxDepth
    BY <1>2, <1>3, BoundAssumption DEF Bounded
  <2>3. \A d \in 1 .. l : Len(frames[d].cells) <= MaxSlots
    BY <1>2 DEF Bounded
  <2>4. \A d \in 1 .. l : frames[d].deferred # <<>> => frames[d].used /\ engine = "V8" /\ d > 1
    BY <1>2, Zenon DEF Bounded
  <2>5. \A d \in 1 .. l - 1 : Front(frames)[d].deferred # <<>> =>
          Front(frames)[d].used /\ engine = "V8" /\ d > 1
    BY <1>3, <2>1, <2>4, Zenon
  <2>6. \A d \in 1 .. l - 1 : Len(Front(frames)[d].cells) <= MaxSlots
    BY <1>3, <2>1, <2>3
  <2> QED
    BY <1>3, <2>2, <2>5, <2>6 DEF Bounded
<1> QED
  BY <1>1, <1>2, <1>5, <1>6, <1>7 DEF FramesInv

LEMMA ApplyKeeps ==
  ASSUME FramesInv, ApplyDeferredEscapes  PROVE FramesInv'
<1> DEFINE l == Len(frames)
           gs == [frames EXCEPT ![l].cells[Head(closing).to] = Cell(Head(closing).is, l)]
<1>1. /\ closing # <<>> /\ frames' = gs /\ closing' = Tail(closing)
      /\ engine' = engine /\ globals' = globals /\ locals' = locals
  BY DEF ApplyDeferredEscapes, Depth
<1>2. /\ engine \in Engines /\ globals \in Seq(Values) /\ Fits(frames, closing, locals)
      /\ Bounded(frames, engine) /\ Sound(frames, closing, locals) /\ l <= MaxDepth
  BY DEF FramesInv, Bounded
<1>3. /\ Fits(gs, Tail(closing), locals) /\ Sound(gs, Tail(closing), locals)
      /\ Len(gs) = l
      /\ \A d \in 1 .. l : /\ Len(gs[d].cells) = Len(frames[d].cells)
                          /\ gs[d].deferred = frames[d].deferred
                          /\ gs[d].used = frames[d].used
  BY <1>1, <1>2, FillCell
<1> HIDE DEF gs
<1>4. Bounded(gs, engine)
  <2>1. \A d \in 1 .. l : Len(gs[d].cells) <= MaxSlots
    BY <1>2, <1>3 DEF Bounded
  <2>2. \A d \in 1 .. l : frames[d].deferred # <<>> => frames[d].used /\ engine = "V8" /\ d > 1
    BY <1>2, Zenon DEF Bounded
  <2>3. \A d \in 1 .. l : gs[d].deferred # <<>> => gs[d].used /\ engine = "V8" /\ d > 1
    BY <1>3, <2>2, Zenon
  <2> QED
    BY <1>2, <1>3, <2>1, <2>3 DEF Bounded
<1> QED
  BY <1>1, <1>2, <1>3, <1>4 DEF FramesInv

(* What steps on Globals leave of them.                                    *)
LEMMA GlobalKeeps ==
  ASSUME FramesInv, UNCHANGED <<engine, frames, closing, locals>>,
         globals' \in Seq(Values)
  PROVE  FramesInv'
  BY DEF FramesInv

LEMMA MakeGlobalKeeps ==
  ASSUME FramesInv, NEW h \in locals, MakeGlobal(h)  PROVE FramesInv'
<1>1. /\ Resolve(h) # Nothing /\ globals' = Append(globals, Resolve(h))
      /\ UNCHANGED <<engine, frames, closing, locals>>
  BY DEF MakeGlobal
<1>2. Resolve(h) \in Values
  BY <1>1, HandleFacts DEF Holdable
<1>3. globals \in Seq(Values)
  BY DEF FramesInv
<1>4. globals' \in Seq(Values)
  BY <1>1, <1>2, <1>3, AppendFacts
<1> QED
  BY <1>1, <1>4, GlobalKeeps

LEMMA OneGlobalKeeps ==
  ASSUME FramesInv, NEW i \in DOMAIN globals,
         DuplicateGlobal(i) \/ ReleaseGlobal(i) \/ GlobalToSlot(i)
  PROVE  FramesInv'
<1>1. globals \in Seq(Values)
  BY DEF FramesInv
<1>2. Len(globals) \in Nat /\ i \in 1 .. Len(globals) /\ globals[i] \in Values
  BY <1>1, LenProperties, ElementOfSeq
<1>3. CASE DuplicateGlobal(i)
  <2>1. /\ globals' = Append(globals, globals[i])
        /\ UNCHANGED <<engine, frames, closing, locals>>
    BY <1>3 DEF DuplicateGlobal
  <2>2. globals' \in Seq(Values)
    BY <2>1, <1>1, <1>2, AppendFacts
  <2> QED
    BY <2>1, <2>2, GlobalKeeps
<1>4. CASE ReleaseGlobal(i)
  <2> DEFINE s == SubSeq(globals, 1, i - 1)
             t == SubSeq(globals, i + 1, Len(globals))
  <2>1. /\ globals' = s \o t
        /\ UNCHANGED <<engine, frames, closing, locals>>
    BY <1>4 DEF ReleaseGlobal, RemoveAt
  <2>2. s \in Seq(Values)
    <3>1. i - 1 \in 0 .. Len(globals)
      BY <1>2
    <3> QED
      BY <1>1, <3>1, PrefixFacts
  <2>3. t \in Seq(Values)
    <3>1. i + 1 \in Int /\ Len(globals) \in Int
      BY <1>2
    <3>2. \A j \in i + 1 .. Len(globals) : j \in 1 .. Len(globals)
      BY <1>2
    <3>3. \A j \in i + 1 .. Len(globals) : globals[j] \in Values
      BY <3>2, <1>1, ElementOfSeq
    <3> QED
      BY <3>1, <3>3, SubSeqProperties
  <2> HIDE DEF s, t
  <2>4. globals' \in Seq(Values)
    BY <2>1, <2>2, <2>3, ConcatFacts
  <2> QED
    BY <2>1, <2>4, GlobalKeeps
<1>5. CASE GlobalToSlot(i)
  BY <1>2, <1>5, PushKeeps DEF GlobalToSlot
<1> QED
  BY <1>3, <1>4, <1>5

LEMMA NextFramesInv == FramesInv /\ [FramesNext]_frameVars => FramesInv'
<1> SUFFICES ASSUME FramesInv, [FramesNext]_frameVars  PROVE FramesInv'
  OBVIOUS
<1>1. ASSUME NEW e \in BOOLEAN, OpenFrame(e)  PROVE FramesInv'
  BY <1>1, OpenKeeps
<1>2. ASSUME NEW v \in Values, CallFrame(<<v>>) \/ Push(v)  PROVE FramesInv'
  BY <1>2, CallKeeps, PushKeeps
<1>3. ASSUME NEW h \in locals, NEW d \in 2 .. Depth,
             EscapeCopy(d, h) \/ EscapeFirst(d, h) \/ EscapeLater(d, h)
      PROVE  FramesInv'
  BY <1>3, EscapeCopyKeeps, EscapeFirstKeeps, EscapeLaterKeeps
<1>4. ASSUME NEW h \in locals, MakeGlobal(h)  PROVE FramesInv'
  BY <1>4, MakeGlobalKeeps
<1>5. CASE CloseFrame \/ ApplyDeferredEscapes
  BY <1>5, CloseKeeps, ApplyKeeps
<1>6. ASSUME NEW i \in DOMAIN globals,
             DuplicateGlobal(i) \/ ReleaseGlobal(i) \/ GlobalToSlot(i)
      PROVE  FramesInv'
  BY <1>6, OneGlobalKeeps
<1>7. CASE UNCHANGED frameVars
  BY <1>7 DEF FramesInv, frameVars
<1> QED
  BY <1>1, <1>2, <1>3, <1>4, <1>5, <1>6, <1>7 DEF FramesNext

(* Frames, what is parked and the handles agree in every reachable state.  *)
THEOREM FramesInvariance == FramesSpec => []FramesInv
<1>1. FramesInit => FramesInv
  BY InitFramesInv
<1>2. FramesInv /\ [FramesNext]_frameVars => FramesInv'
  BY NextFramesInv
<1> QED
  BY <1>1, <1>2, PTL DEF FramesSpec

-----------------------------------------------------------------------------
(* Handles on a slot are stated of the state; the invariant, of a frame's. *)
LEMMA PendingIsAwaited ==
  ASSUME FramesInv, NEW h \in locals
  PROVE  Pending(h) <=> Awaited(frames, closing, h)
<1>1. /\ frames \in Seq(Frame) /\ closing \in Seq(Parked) /\ Depth = Len(frames)
      /\ h.frame \in 1 .. Depth
  BY HandleFacts DEF FramesInv, Fits, Depth
<1>2. Depth \in Nat /\ DOMAIN closing = 1 .. Len(closing)
  BY <1>1, LenProperties
<1>3. \A d \in 1 .. Depth : DOMAIN frames[d].deferred = 1 .. Len(frames[d].deferred)
  BY <1>1, FrameFacts
<1>4. CASE h.frame = Depth
  <2>1. ParkedFor(frames, closing, h.frame) = closing
    BY <1>1, <1>4 DEF ParkedFor
  <2>2. ~\E d \in 1 .. Depth : d = h.frame + 1
    BY <1>2, <1>4
  <2>3. Pending(h) <=> h.index \in {closing[i].to : i \in DOMAIN closing}
    BY <1>4, <2>2, Zenon DEF Pending
  <2>4. Awaited(frames, closing, h) <=> \E i \in 1 .. Len(closing) : closing[i].to = h.index
    BY <2>1 DEF Awaited
  <2> QED
    BY <1>2, <2>3, <2>4
<1>5. CASE h.frame # Depth
  <2> DEFINE e == h.frame + 1
             ps == frames[e].deferred
  <2>1. ParkedFor(frames, closing, h.frame) = ps
    BY <1>1, <1>5 DEF ParkedFor
  <2>2. e \in 1 .. Depth
    BY <1>1, <1>2, <1>5
  <2> HIDE DEF e
  <2>3. Pending(h) <=> h.index \in {ps[i].to : i \in DOMAIN ps}
    BY <1>5, <2>2, Zenon DEF Pending, e
  <2>4. Awaited(frames, closing, h) <=> \E i \in 1 .. Len(ps) : ps[i].to = h.index
    BY <2>1 DEF Awaited
  <2> QED
    BY <1>3, <2>2, <2>3, <2>4
<1> QED
  BY <1>4, <1>5

(* Every value of the state has the type its run checks.                   *)
THEOREM FramesTypeCorrect == FramesSpec => []FramesTypeOK
<1>1. ASSUME FramesInv  PROVE FramesTypeOK
  <2>1. /\ engine \in Engines /\ globals \in Seq(Values) /\ closing \in Seq(Parked)
        /\ frames \in Seq(Frame) /\ Depth = Len(frames) /\ Depth <= MaxDepth
    BY <1>1 DEF FramesInv, Fits, Bounded, Depth
  <2>2. \A d \in 1 .. Depth :
          /\ frames[d].cells \in Seq([is : Values \cup {Nothing}, at : 0 .. MaxDepth])
          /\ frames[d].deferred \in Seq(Parked)
    BY <2>1, FrameFacts DEF Cells, Holdable
  <2>3. \A d \in 1 .. Depth : Len(frames[d].cells) <= MaxSlots
    BY <1>1, <2>1 DEF FramesInv, Bounded
  <2>4. \A d \in 1 .. Depth :
          frames[d].deferred # <<>> => frames[d].used /\ engine = "V8" /\ d > 1
    BY <1>1, <2>1, Zenon DEF FramesInv, Bounded
  <2>5. ASSUME NEW h \in locals
        PROVE  h.frame <= Depth /\ h.index <= Len(frames[h.frame].cells)
    <3>1. h.frame \in 1 .. Depth /\ h.index \in 1 .. Len(frames[h.frame].cells)
      BY <1>1, <2>1 DEF FramesInv, Fits
    <3>2. Depth \in Nat /\ Len(frames[h.frame].cells) \in Nat
      BY <2>1, <3>1, FrameFacts
    <3> QED
      BY <3>1, <3>2
  <2> QED
    BY <2>1, <2>2, <2>3, <2>4, <2>5 DEF FramesTypeOK
<1> QED
  BY <1>1, FramesInvariance, PTL

(* A handle finds the value it was made for, on both engines, whatever was *)
(* opened, escaped and closed above it and whichever pushes failed, unless *)
(* its slot is still held for an escape.                                   *)
THEOREM HandlesKeepValues == FramesSpec => []HandleKeepsValue
<1>1. ASSUME FramesInv  PROVE HandleKeepsValue
  <2> SUFFICES ASSUME NEW h \in locals, ~Pending(h)  PROVE Resolve(h) = h.names
    BY DEF HandleKeepsValue
  <2>1. ~Awaited(frames, closing, h)
    BY <1>1, PendingIsAwaited
  <2> QED
    BY <1>1, <2>1 DEF FramesInv, Sound, KeepsOK, Resolve
<1> QED
  BY <1>1, FramesInvariance, PTL

(* No slot of V8's points into a scope that closes before its frame does:  *)
(* an escape either takes the scope's one hand-over or goes through a root *)
(* and is written when the parent's scope is innermost again.              *)
THEOREM SlotsOutlive == FramesSpec => []SlotsOutliveScopes
<1>1. ASSUME FramesInv  PROVE SlotsOutliveScopes
  <2> SUFFICES ASSUME NEW d \in 1 .. Depth, NEW c \in ToSet(frames[d].cells)
               PROVE  c.at <= d
    BY DEF SlotsOutliveScopes
  <2>1. frames \in Seq(Frame) /\ Depth = Len(frames)
    BY <1>1 DEF FramesInv, Fits, Depth
  <2>2. DOMAIN frames[d].cells = 1 .. Len(frames[d].cells)
    BY <2>1, FrameFacts
  <2>3. PICK i \in 1 .. Len(frames[d].cells) : c = frames[d].cells[i]
    BY <2>2 DEF ToSet
  <2> QED
    BY <1>1, <2>1, <2>3 DEF FramesInv, Sound, ScopesOK
<1> QED
  BY <1>1, FramesInvariance, PTL

(* What a handle names is rooted in every state a collector may see: by a  *)
(* slot of an open scope or, while its slot is held, by the escape's root. *)
THEOREM ValuesStayRooted == FramesSpec => []NeverUnrooted
<1>1. ASSUME FramesInv  PROVE NeverUnrooted
  <2> SUFFICES ASSUME NEW h \in locals
               PROVE  RootedBySlot(h.names) \/ RootedByEscape(h.names)
    BY DEF NeverUnrooted
  <2>1. /\ frames \in Seq(Frame) /\ Depth = Len(frames) /\ closing \in Seq(Parked)
        /\ h.frame \in 1 .. Depth /\ h.index \in 1 .. Len(frames[h.frame].cells)
    BY <1>1 DEF FramesInv, Fits, Depth
  <2>2. Depth \in Nat
    BY <2>1, LenProperties
  <2>3. CASE ~Awaited(frames, closing, h)
    <3> DEFINE c == frames[h.frame].cells[h.index]
    <3>1. c.is = h.names /\ c.at <= h.frame
      BY <1>1, <2>1, <2>3 DEF FramesInv, Sound, KeepsOK, ScopesOK
    <3>2. c \in ToSet(frames[h.frame].cells) /\ c \in Cells
      BY <2>1, FrameFacts DEF ToSet
    <3> HIDE DEF c
    <3>3. c.at \in Nat
      BY <3>2, BoundAssumption DEF Cells
    <3>4. c.at <= Depth
      BY <2>1, <2>2, <3>1, <3>3
    <3> QED
      BY <2>1, <3>1, <3>2, <3>4 DEF RootedBySlot
  <2>4. CASE Awaited(frames, closing, h)
    <3> DEFINE ps == ParkedFor(frames, closing, h.frame)
    <3>1. PICK i \in 1 .. Len(ps) : ps[i].to = h.index
      BY <2>4 DEF Awaited
    <3>2. ps[i].is = h.names
      BY <1>1, <2>1, <3>1 DEF FramesInv, Sound, PlansOK, PlanOK
    <3>3. h.frame + 1 \in 1 .. Depth + 1 /\ ps = Parks(h.frame + 1)
      <4>1. CASE h.frame = Depth
        <5>1. h.frame + 1 > Depth /\ h.frame + 1 \in 1 .. Depth + 1
          BY <4>1, <2>2
        <5> QED
          BY <4>1, <5>1, <2>1 DEF ParkedFor, Parks
      <4>2. CASE h.frame # Depth
        <5>1. ~(h.frame + 1 > Depth) /\ h.frame + 1 \in 1 .. Depth + 1
          BY <4>2, <2>1, <2>2
        <5> QED
          BY <4>2, <5>1, <2>1 DEF ParkedFor, Parks
      <4> QED
        BY <4>1, <4>2
    <3>4. DOMAIN ps = 1 .. Len(ps)
      <4>1. CASE h.frame = Depth
        BY <4>1, <2>1, LenProperties DEF ParkedFor
      <4>2. CASE h.frame # Depth
        <5>1. h.frame + 1 \in 1 .. Depth
          BY <4>2, <2>1, <2>2
        <5> QED
          BY <4>2, <5>1, <2>1, FrameFacts DEF ParkedFor
      <4> QED
        BY <4>1, <4>2
    <3> HIDE DEF ps
    <3>5. ps[i] \in ToSet(ps)
      BY <3>1, <3>4 DEF ToSet
    <3> QED
      BY <3>2, <3>3, <3>5 DEF RootedByEscape
  <2> QED
    BY <2>3, <2>4
<1> QED
  BY <1>1, FramesInvariance, PTL

-----------------------------------------------------------------------------
(* Exceptions: what is on the thread's stack.                              *)
Something == Throws \cup {None}
PlainScope == [is : {"script", "native"}, void : BOOLEAN]
HandlerScope ==
  [is : {"handler"}, void : BOOLEAN, caught : BOOLEAN, rethrow : BOOLEAN,
   terminated : BOOLEAN, exception : Something, outer : Something, nativeDepth : Nat]
AnyScope == PlainScope \cup HandlerScope

NativesUnder(st, i) == {j \in 1 .. i - 1 : st[j].is = "native"}

(* A handler notices a stop only in a scope that is void by then, and has  *)
(* an exception when it has caught one; what it keeps has been thrown.     *)
HandlerFits(h, th) ==
  /\ h.terminated => h.void
  /\ h.caught /\ ~h.void => h.exception # None
  /\ ~h.caught => h.exception = None /\ ~h.terminated
  /\ {h.exception, h.outer} \subseteq th \cup {None}

(* Scopes above a scope that is not void are not void; a stop in force has *)
(* made all of them void; and a handler knows the natives below it.        *)
Orderly(st, t, th) ==
  /\ st \in Seq(AnyScope)
  /\ \A i, j \in 1 .. Len(st) : i <= j /\ st[j].void => st[i].void
  /\ t => \A i \in 1 .. Len(st) : st[i].void
  /\ \A i \in 1 .. Len(st) :
       st[i].is = "handler" =>
         /\ HandlerFits(st[i], th)
         /\ st[i].nativeDepth = Cardinality(NativesUnder(st, i))

CatchInv ==
  /\ Orderly(stack, terminating, thrown)
  /\ Len(stack) <= MaxScopes
  /\ thrown \subseteq Throws /\ pending \in thrown \cup {None}
  /\ terminating \in BOOLEAN

(* A scope opens, or closes.                                               *)
Opened(st, u, c) ==
  /\ st \in Seq(AnyScope) /\ u \in Seq(AnyScope)
  /\ Len(u) = Len(st) + 1 /\ u[Len(st) + 1] = c
  /\ \A i \in 1 .. Len(st) : u[i] = st[i]

(* Only the innermost scope changes.                                       *)
Changed(st, u, c) ==
  /\ st \in Seq(AnyScope) /\ u \in Seq(AnyScope)
  /\ Len(u) = Len(st) /\ Len(st) > 0 /\ u[Len(st)] = c
  /\ \A i \in 1 .. Len(st) - 1 : u[i] = st[i]

LEMMA OpenedBy ==
  ASSUME NEW st \in Seq(AnyScope), NEW c \in AnyScope
  PROVE  Opened(st, Append(st, c), c)
  BY AppendFacts DEF Opened

LEMMA ClosedBy ==
  ASSUME NEW st \in Seq(AnyScope), st # <<>>
  PROVE  /\ Opened(Front(st), st, Last(st)) /\ Last(st) = st[Len(st)]
         /\ Last(st) \in AnyScope /\ Len(st) \in Nat /\ Len(st) > 0
<1>1. /\ Front(st) \in Seq(AnyScope) /\ Len(st) \in Nat /\ Len(st) >= 1
      /\ Len(Front(st)) = Len(st) - 1
      /\ \A i \in 1 .. Len(st) - 1 : Front(st)[i] = st[i]
      /\ st[Len(st)] \in AnyScope
  BY Popped
<1>2. Last(st) = st[Len(st)]
  BY DEF Last
<1>3. Len(st) = Len(Front(st)) + 1
  BY <1>1
<1> QED
  BY <1>1, <1>2, <1>3 DEF Opened

LEMMA ChangedBy ==
  ASSUME NEW st \in Seq(AnyScope), st # <<>>, NEW c \in AnyScope
  PROVE  Changed(st, Append(Front(st), c), c)
<1> DEFINE w == Front(st)
           u == Append(w, c)
<1>1. /\ w \in Seq(AnyScope) /\ Len(st) \in Nat /\ Len(st) >= 1
      /\ Len(w) = Len(st) - 1
      /\ \A i \in 1 .. Len(st) - 1 : w[i] = st[i]
  BY Popped
<1>2. /\ u \in Seq(AnyScope) /\ Len(u) = Len(w) + 1 /\ u[Len(w) + 1] = c
      /\ \A i \in 1 .. Len(w) : u[i] = w[i]
  BY <1>1, AppendFacts
<1> HIDE DEF w, u
<1>3. Len(u) = Len(st) /\ u[Len(st)] = c /\ \A i \in 1 .. Len(st) - 1 : u[i] = st[i]
  BY <1>1, <1>2
<1>4. Changed(st, u, c)
  BY <1>1, <1>2, <1>3 DEF Changed
<1> QED
  BY <1>4 DEF u, w

LEMMA OrderlyOpened ==
  ASSUME NEW st, NEW u, NEW c, NEW t, NEW th, Orderly(st, t, th), Opened(st, u, c),
         c.void <=> t,
         c.is = "handler" =>
           /\ HandlerFits(c, th)
           /\ c.nativeDepth = Cardinality({i \in DOMAIN st : st[i].is = "native"})
  PROVE  Orderly(u, t, th)
<1> DEFINE n == Len(st)
<1>1. /\ st \in Seq(AnyScope) /\ u \in Seq(AnyScope) /\ n \in Nat /\ DOMAIN st = 1 .. n
      /\ Len(u) = n + 1 /\ u[n + 1] = c /\ \A i \in 1 .. n : u[i] = st[i]
  BY LenProperties DEF Opened
<1>2. /\ \A i, j \in 1 .. n : i <= j /\ st[j].void => st[i].void
      /\ t => \A i \in 1 .. n : st[i].void
      /\ \A i \in 1 .. n :
           st[i].is = "handler" =>
             /\ HandlerFits(st[i], th)
             /\ st[i].nativeDepth = Cardinality(NativesUnder(st, i))
  BY DEF Orderly
<1> HIDE DEF n
<1>3. \A i \in 1 .. n + 1 : i \in 1 .. n \/ i = n + 1
  BY <1>1
<1>4. \A i, j \in 1 .. n + 1 : i <= j /\ u[j].void => u[i].void
  BY <1>1, <1>2, <1>3
<1>5. t => \A i \in 1 .. n + 1 : u[i].void
  BY <1>1, <1>2, <1>3
<1>6. ASSUME NEW i \in 1 .. n + 1, u[i].is = "handler"
      PROVE  /\ HandlerFits(u[i], th)
             /\ u[i].nativeDepth = Cardinality(NativesUnder(u, i))
  <2>1. CASE i \in 1 .. n
    <3>1. NativesUnder(u, i) = NativesUnder(st, i)
      BY <1>1, <2>1 DEF NativesUnder
    <3> QED
      BY <1>1, <1>2, <1>6, <2>1, <3>1
  <2>2. CASE i = n + 1
    <3>1. NativesUnder(u, i) = {k \in 1 .. n : st[k].is = "native"}
      BY <1>1, <2>2 DEF NativesUnder
    <3> QED
      BY <1>1, <1>6, <2>2, <3>1
  <2> QED
    BY <1>3, <2>1, <2>2
<1> QED
  BY <1>1, <1>4, <1>5, <1>6 DEF Orderly

LEMMA OrderlyClosed ==
  ASSUME NEW st, NEW u, NEW c, NEW t, NEW th, Orderly(st, t, th), Opened(u, st, c)
  PROVE  Orderly(u, t, th)
<1> DEFINE n == Len(u)
<1>1. /\ st \in Seq(AnyScope) /\ u \in Seq(AnyScope) /\ n \in Nat
      /\ Len(st) = n + 1 /\ \A i \in 1 .. n : st[i] = u[i]
  BY LenProperties DEF Opened
<1>2. /\ \A i, j \in 1 .. n + 1 : i <= j /\ st[j].void => st[i].void
      /\ t => \A i \in 1 .. n + 1 : st[i].void
      /\ \A i \in 1 .. n + 1 :
           st[i].is = "handler" =>
             /\ HandlerFits(st[i], th)
             /\ st[i].nativeDepth = Cardinality(NativesUnder(st, i))
  BY <1>1 DEF Orderly
<1> HIDE DEF n
<1>3. \A i \in 1 .. n : i \in 1 .. n + 1
  BY <1>1
<1>4. \A i \in 1 .. n : NativesUnder(u, i) = NativesUnder(st, i)
  BY <1>1 DEF NativesUnder
<1>5. /\ \A i, j \in 1 .. n : i <= j /\ u[j].void => u[i].void
      /\ t => \A i \in 1 .. n : u[i].void
  BY <1>1, <1>2, <1>3
<1>6. \A i \in 1 .. n :
        u[i].is = "handler" =>
          /\ HandlerFits(u[i], th)
          /\ u[i].nativeDepth = Cardinality(NativesUnder(u, i))
  BY <1>1, <1>2, <1>3, <1>4
<1> QED
  BY <1>1, <1>5, <1>6 DEF Orderly, n

LEMMA OrderlyChanged ==
  ASSUME NEW st, NEW u, NEW c, NEW t, NEW th, Orderly(st, t, th), Changed(st, u, c),
         st[Len(st)].is = "handler",
         c.void <=> st[Len(st)].void, c.nativeDepth = st[Len(st)].nativeDepth,
         HandlerFits(c, th)
  PROVE  Orderly(u, t, th)
<1> DEFINE n == Len(st)
<1>1. /\ st \in Seq(AnyScope) /\ u \in Seq(AnyScope) /\ n \in Nat /\ n > 0
      /\ Len(u) = n /\ u[n] = c /\ \A i \in 1 .. n - 1 : u[i] = st[i]
  BY LenProperties DEF Changed
<1>2. /\ \A i, j \in 1 .. n : i <= j /\ st[j].void => st[i].void
      /\ t => \A i \in 1 .. n : st[i].void
      /\ \A i \in 1 .. n :
           st[i].is = "handler" =>
             /\ HandlerFits(st[i], th)
             /\ st[i].nativeDepth = Cardinality(NativesUnder(st, i))
  BY DEF Orderly
<1>3. /\ st[n].is = "handler" /\ (c.void <=> st[n].void)
      /\ c.nativeDepth = st[n].nativeDepth
  OBVIOUS
<1> HIDE DEF n
<1>4. \A i \in 1 .. n : i \in 1 .. n - 1 \/ i = n
  BY <1>1
<1>5. \A i \in 1 .. n : u[i].void <=> st[i].void
  BY <1>1, <1>3, <1>4
<1>6. \A i \in 1 .. n : NativesUnder(u, i) = NativesUnder(st, i)
  BY <1>1 DEF NativesUnder
<1>7. /\ \A i, j \in 1 .. n : i <= j /\ u[j].void => u[i].void
      /\ t => \A i \in 1 .. n : u[i].void
  BY <1>2, <1>5
<1>8. ASSUME NEW i \in 1 .. n, u[i].is = "handler"
      PROVE  /\ HandlerFits(u[i], th)
             /\ u[i].nativeDepth = Cardinality(NativesUnder(u, i))
  <2>1. CASE i \in 1 .. n - 1
    BY <1>1, <1>2, <1>6, <1>8, <2>1
  <2>2. CASE i = n
    <3>1. n \in 1 .. n
      BY <1>1
    <3> QED
      BY <1>1, <1>2, <1>3, <1>6, <2>2, <3>1
  <2> QED
    BY <1>4, <2>1, <2>2
<1> QED
  BY <1>1, <1>7, <1>8 DEF Orderly

-----------------------------------------------------------------------------
(* How a stack with p pending looks to the contract.                       *)
TakenAt(st, i) == IF st[i].is = "handler" /\ st[i].caught THEN st[i].exception ELSE None

HasIn(st, p, i) ==
  CASE st[i].void -> None
    [] ~st[i].void /\ i = Len(st) -> IF p # None THEN p ELSE TakenAt(st, i)
    [] OTHER -> IF st[i + 1].is = "handler" /\ st[i + 1].outer # None
                THEN st[i + 1].outer ELSE TakenAt(st, i)

SeenAt(st, p, i) ==
  [is |-> st[i].is, has |-> HasIn(st, p, i), void |-> st[i].void,
   onward |-> st[i].is = "handler" /\ ~st[i].void /\ st[i].rethrow]

Seen(st, p) == [i \in DOMAIN st |-> SeenAt(st, p, i)]

LEMMA HasVoid ==
  ASSUME NEW st, NEW p, NEW i, st[i].void
  PROVE  HasIn(st, p, i) = None
  BY DEF HasIn

LEMMA HasTop ==
  ASSUME NEW st, NEW p, ~st[Len(st)].void
  PROVE  HasIn(st, p, Len(st)) = IF p # None THEN p ELSE TakenAt(st, Len(st))
  BY DEF HasIn

LEMMA HasBelow ==
  ASSUME NEW st, NEW p, NEW i, ~st[i].void, i # Len(st)
  PROVE  HasIn(st, p, i) = IF st[i + 1].is = "handler" /\ st[i + 1].outer # None
                           THEN st[i + 1].outer ELSE TakenAt(st, i)
  BY DEF HasIn

LEMMA SeenFacts ==
  ASSUME NEW st \in Seq(AnyScope), NEW p
  PROVE  /\ DOMAIN Seen(st, p) = 1 .. Len(st) /\ Len(st) \in Nat
         /\ Len(Seen(st, p)) = Len(st)
         /\ \A i \in 1 .. Len(st) : Seen(st, p)[i] = SeenAt(st, p, i)
         /\ \A S : (\A i \in 1 .. Len(st) : SeenAt(st, p, i) \in S) => Seen(st, p) \in Seq(S)
<1>1. Len(st) \in Nat /\ DOMAIN st = 1 .. Len(st)
  BY LenProperties
<1>2. Seen(st, p) = [i \in 1 .. Len(st) |-> SeenAt(st, p, i)]
  BY <1>1 DEF Seen
<1>3. \A S : (\A i \in 1 .. Len(st) : SeenAt(st, p, i) \in S) => Seen(st, p) \in Seq(S)
  BY <1>1, <1>2
<1> QED
  BY <1>1, <1>2, <1>3

(* Two stacks look alike when their scopes do.                             *)
LEMMA SeenAlike ==
  ASSUME NEW st \in Seq(AnyScope), NEW p, NEW u \in Seq(AnyScope), NEW q,
         Len(u) = Len(st), \A i \in 1 .. Len(st) : SeenAt(u, q, i) = SeenAt(st, p, i)
  PROVE  Seen(u, q) = Seen(st, p)
<1>1. Len(st) \in Nat /\ DOMAIN st = 1 .. Len(st) /\ DOMAIN u = 1 .. Len(st)
  BY LenProperties
<1> QED
  BY <1>1 DEF Seen

(* A scope below the innermost one looks the same whatever happens at the  *)
(* top, but for what is parked right above it.                             *)
StillHas(st, p, u, q) == Len(st) > 0 => HasIn(u, q, Len(st)) = HasIn(st, p, Len(st))

LEMMA SeenOpened ==
  ASSUME NEW st, NEW p, NEW u, NEW q, NEW c, Opened(st, u, c), StillHas(st, p, u, q)
  PROVE  Seen(u, q) = Append(Seen(st, p), SeenAt(u, q, Len(u)))
<1> DEFINE n == Len(st)
           s == Seen(st, p)
           e == SeenAt(u, q, n + 1)
           S == {SeenAt(st, p, i) : i \in 1 .. n} \cup {e}
<1>1. /\ st \in Seq(AnyScope) /\ u \in Seq(AnyScope) /\ n \in Nat
      /\ Len(u) = n + 1 /\ \A i \in 1 .. n : u[i] = st[i]
  BY LenProperties DEF Opened
<1>2. /\ Len(s) = n /\ s \in Seq(S) /\ e \in S
      /\ \A i \in 1 .. n : s[i] = SeenAt(st, p, i)
  BY <1>1, SeenFacts
<1>3. /\ DOMAIN Seen(u, q) = 1 .. n + 1
      /\ Len(Seen(u, q)) = n + 1
      /\ \A i \in 1 .. n + 1 : Seen(u, q)[i] = SeenAt(u, q, i)
  BY <1>1, SeenFacts
<1>4. n > 0 => HasIn(u, q, n) = HasIn(st, p, n)
  BY DEF StillHas
<1>5. Len(st) = n
  OBVIOUS
<1> HIDE DEF n
<1>6. ASSUME NEW i \in 1 .. n PROVE SeenAt(u, q, i) = SeenAt(st, p, i)
  <2>1. HasIn(u, q, i) = HasIn(st, p, i)
    <3>1. CASE i = n
      BY <1>1, <1>4, <3>1
    <3>2. CASE i # n
      <4>1. i + 1 \in 1 .. n /\ i # Len(u) /\ i # Len(st)
        BY <1>1, <1>5, <3>2
      <4>2. u[i] = st[i] /\ u[i + 1] = st[i + 1]
        BY <1>1, <4>1
      <4> QED
        BY <4>1, <4>2 DEF HasIn, TakenAt
    <3> QED
      BY <3>1, <3>2
  <2> QED
    BY <1>1, <2>1 DEF SeenAt
<1> HIDE DEF s, e, S
<1>7. /\ Append(s, e) \in Seq(S) /\ Len(Append(s, e)) = n + 1
      /\ \A i \in 1 .. n : Append(s, e)[i] = s[i]
      /\ Append(s, e)[n + 1] = e
  BY <1>2, AppendFacts
<1>8. \A i \in 1 .. n + 1 : i \in 1 .. n \/ i = n + 1
  BY <1>1
<1>9. \A i \in 1 .. n + 1 : SeenAt(u, q, i) \in S
  <2>1. \A i \in 1 .. n : SeenAt(u, q, i) \in S
    BY <1>6 DEF S
  <2>2. SeenAt(u, q, n + 1) \in S
    BY DEF S, e
  <2> QED
    BY <1>8, <2>1, <2>2
<1>10. Seen(u, q) \in Seq(S)
  BY <1>1, <1>9, SeenFacts
<1>11. \A i \in 1 .. n + 1 : Seen(u, q)[i] = Append(s, e)[i]
  <2>1. \A i \in 1 .. n : Seen(u, q)[i] = Append(s, e)[i]
    BY <1>2, <1>3, <1>6, <1>7, <1>8
  <2>2. Seen(u, q)[n + 1] = e
    BY <1>1, <1>3 DEF e
  <2> QED
    BY <1>7, <1>8, <2>1, <2>2
<1>12. Seen(u, q) = Append(s, e)
  BY <1>3, <1>7, <1>10, <1>11, SeqEqual
<1> QED
  BY <1>1, <1>12 DEF s, e

(* Only its innermost scope is seen to change.                             *)
LEMMA SeenChanged ==
  ASSUME NEW st, NEW p, NEW u, NEW q, NEW c, Changed(st, u, c),
         c.is = st[Len(st)].is, c.is = "handler" => c.outer = st[Len(st)].outer
  PROVE  \A i \in 1 .. Len(st) - 1 : SeenAt(u, q, i) = SeenAt(st, p, i)
<1> DEFINE n == Len(st)
<1>1. /\ st \in Seq(AnyScope) /\ n \in Nat /\ n > 0 /\ Len(u) = n /\ u[n] = c
      /\ \A i \in 1 .. n - 1 : u[i] = st[i]
      /\ c.is = st[n].is /\ (c.is = "handler" => c.outer = st[n].outer)
  BY LenProperties DEF Changed
<1>2. Len(st) = n
  OBVIOUS
<1> HIDE DEF n
<1>3. ASSUME NEW i \in 1 .. n - 1 PROVE SeenAt(u, q, i) = SeenAt(st, p, i)
  <2>1. i # Len(u) /\ i # Len(st) /\ i + 1 \in 1 .. n
    BY <1>1, <1>2
  <2>2. u[i] = st[i]
    BY <1>1
  <2>3. /\ u[i + 1].is = st[i + 1].is
        /\ u[i + 1].is = "handler" => u[i + 1].outer = st[i + 1].outer
    <3>1. CASE i + 1 = n
      BY <1>1, <3>1
    <3>2. CASE i + 1 # n
      <4>1. i + 1 \in 1 .. n - 1
        BY <1>1, <2>1, <3>2
      <4> QED
        BY <1>1, <4>1
    <3> QED
      BY <3>1, <3>2
  <2>4. HasIn(u, q, i) = HasIn(st, p, i)
    BY <2>1, <2>2, <2>3 DEF HasIn, TakenAt
  <2> QED
    BY <2>2, <2>4 DEF SeenAt
<1> QED
  BY <1>3 DEF n

LEMMA Retopped ==
  ASSUME NEW S, NEW s \in Seq(S), NEW r \in Seq(S), Len(r) = Len(s), s # <<>>,
         \A i \in 1 .. Len(s) - 1 : r[i] = s[i]
  PROVE  r = Append(Front(s), r[Len(s)])
<1> DEFINE n == Len(s)
           w == Front(s)
           u == Append(w, r[n])
<1>1. /\ w \in Seq(S) /\ n \in Nat /\ n >= 1 /\ Len(w) = n - 1
      /\ \A i \in 1 .. n - 1 : w[i] = s[i]
  BY Popped
<1>2. n \in 1 .. Len(r)
  BY <1>1
<1>3. r[n] \in S
  BY <1>2, ElementOfSeq
<1>4. /\ u \in Seq(S) /\ Len(u) = Len(w) + 1 /\ u[Len(w) + 1] = r[n]
      /\ \A i \in 1 .. Len(w) : u[i] = w[i]
  BY <1>1, <1>3, AppendFacts
<1>5. Len(r) = n /\ \A i \in 1 .. n - 1 : r[i] = s[i]
  OBVIOUS
<1> HIDE DEF n, w, u
<1>6. \A i \in 1 .. n : i \in 1 .. n - 1 \/ i = n
  BY <1>1
<1>7. Len(u) = n /\ \A i \in 1 .. n : r[i] = u[i]
  BY <1>1, <1>4, <1>5, <1>6
<1>8. r = u
  BY <1>4, <1>5, <1>7, SeqEqual
<1> QED
  BY <1>8 DEF u, w, n

LEMMA SeenRetopped ==
  ASSUME NEW st \in Seq(AnyScope), NEW p, NEW u \in Seq(AnyScope), NEW q,
         Len(u) = Len(st), Len(st) > 0,
         \A i \in 1 .. Len(st) - 1 : SeenAt(u, q, i) = SeenAt(st, p, i)
  PROVE  /\ Seen(u, q) = Append(Front(Seen(st, p)), SeenAt(u, q, Len(st)))
         /\ Seen(st, p) # <<>> /\ Last(Seen(st, p)) = SeenAt(st, p, Len(st))
<1> DEFINE n == Len(st)
           s == Seen(st, p)
           r == Seen(u, q)
           S == {SeenAt(st, p, i) : i \in 1 .. n} \cup {SeenAt(u, q, i) : i \in 1 .. n}
<1>1. n \in Nat /\ n > 0 /\ Len(u) = n
  BY LenProperties
<1>2. /\ Len(s) = n /\ s \in Seq(S) /\ \A i \in 1 .. n : s[i] = SeenAt(st, p, i)
  BY <1>1, SeenFacts
<1>3. \A i \in 1 .. Len(u) : SeenAt(u, q, i) \in S
  BY <1>1
<1>4. /\ Len(r) = Len(u) /\ r \in Seq(S) /\ \A i \in 1 .. Len(u) : r[i] = SeenAt(u, q, i)
  <2> HIDE DEF S
  <2> QED
    BY <1>3, SeenFacts
<1>5. \A i \in 1 .. n - 1 : SeenAt(u, q, i) = SeenAt(st, p, i)
  OBVIOUS
<1> HIDE DEF n, s, r, S
<1>6. \A i \in 1 .. n - 1 : i \in 1 .. n
  BY <1>1
<1>7. Len(r) = Len(s) /\ \A i \in 1 .. Len(s) - 1 : r[i] = s[i]
  BY <1>1, <1>2, <1>4, <1>5, <1>6
<1>8. s # <<>>
  BY <1>1, <1>2, EmptySeq
<1>9. r = Append(Front(s), r[Len(s)])
  BY <1>2, <1>4, <1>7, <1>8, Retopped
<1>10. n \in 1 .. n
  BY <1>1
<1>11. r[Len(s)] = SeenAt(u, q, n) /\ Last(s) = SeenAt(st, p, n)
  BY <1>1, <1>2, <1>4, <1>10 DEF Last
<1> QED
  BY <1>8, <1>9, <1>11 DEF r, s, n

LEMMA GiveNone ==
  ASSUME NEW s, NEW e, e = None \/ Last(s).void
  PROVE  Delivery!Give(s, e) = s
  BY DEF Delivery!Give, Delivery!None, None, Delivery!Last, Last, Delivery!Front, Front

LEMMA GiveSome ==
  ASSUME NEW s, NEW e, s # <<>>, ~(e = None \/ Last(s).void)
  PROVE  Delivery!Give(s, e) = Append(Front(s), [Last(s) EXCEPT !.has = e])
  BY DEF Delivery!Give, Delivery!None, None, Delivery!Last, Last, Delivery!Front, Front

(* Closing hands sent on to the scope below, unless it is void.            *)
IsGiven(st, p, u, q, sent) ==
  Len(u) > 0 =>
    HasIn(u, q, Len(u)) = IF sent = None \/ u[Len(u)].void
                          THEN HasIn(st, p, Len(u)) ELSE sent

LEMMA SeenClosed ==
  ASSUME NEW st, NEW p, NEW u, NEW q, NEW c, NEW sent, Opened(u, st, c),
         IsGiven(st, p, u, q, sent)
  PROVE  /\ Seen(u, q) = Delivery!Give(Front(Seen(st, p)), sent)
         /\ Seen(st, p) # <<>> /\ Last(Seen(st, p)) = SeenAt(st, p, Len(st))
<1> DEFINE m == Len(u)
           s == Seen(st, p)
           f == Front(s)
           r == Seen(u, q)
           S == {SeenAt(st, p, i) : i \in 1 .. m + 1} \cup {SeenAt(u, q, i) : i \in 1 .. m}
<1>1. /\ st \in Seq(AnyScope) /\ u \in Seq(AnyScope) /\ m \in Nat
      /\ Len(st) = m + 1 /\ \A i \in 1 .. m : st[i] = u[i]
  BY LenProperties DEF Opened
<1>2. \A i \in 1 .. Len(st) : SeenAt(st, p, i) \in S
  BY <1>1
<1>3. \A i \in 1 .. Len(u) : SeenAt(u, q, i) \in S
  OBVIOUS
<1>4. /\ Len(s) = Len(st) /\ s \in Seq(S) /\ \A i \in 1 .. Len(st) : s[i] = SeenAt(st, p, i)
  <2> HIDE DEF S
  <2> QED
    BY <1>1, <1>2, SeenFacts
<1>5. /\ Len(r) = m /\ r \in Seq(S) /\ \A i \in 1 .. m : r[i] = SeenAt(u, q, i)
  <2> HIDE DEF S
  <2> QED
    BY <1>1, <1>3, SeenFacts
<1>6. m > 0 => HasIn(u, q, m) = IF sent = None \/ u[m].void THEN HasIn(st, p, m) ELSE sent
  BY DEF IsGiven
<1>7. Len(u) = m
  OBVIOUS
<1> HIDE DEF S, m
<1>8. s # <<>>
  BY <1>1, <1>4, EmptySeq
<1>9. /\ f \in Seq(S) /\ Len(f) = m
      /\ \A i \in 1 .. m : f[i] = s[i]
  <2>1. /\ f \in Seq(S) /\ Len(f) = Len(s) - 1 /\ \A i \in 1 .. Len(s) - 1 : f[i] = s[i]
    BY <1>4, <1>8, Popped
  <2>2. Len(s) = m + 1
    BY <1>1, <1>4
  <2> QED
    BY <1>1, <2>1, <2>2
<1>10. Last(s) = SeenAt(st, p, Len(st))
  <2>1. Len(st) \in 1 .. Len(st) /\ Len(s) = Len(st)
    BY <1>1, <1>4
  <2> QED
    BY <1>4, <2>1 DEF Last
<1>11. \A i \in 1 .. m : s[i] = SeenAt(st, p, i)
  BY <1>1, <1>4
<1> HIDE DEF s, r, f
<1>12. ASSUME NEW i \in 1 .. m - 1 PROVE SeenAt(u, q, i) = SeenAt(st, p, i)
  <2>1. i # Len(u) /\ i # Len(st) /\ i + 1 \in 1 .. m /\ i \in 1 .. m
    BY <1>1, <1>7
  <2>2. st[i] = u[i] /\ st[i + 1] = u[i + 1]
    BY <1>1, <2>1
  <2>3. HasIn(u, q, i) = HasIn(st, p, i)
    BY <2>1, <2>2 DEF HasIn, TakenAt
  <2> QED
    BY <2>2, <2>3 DEF SeenAt
<1>13. \A i \in 1 .. m - 1 : i \in 1 .. m
  BY <1>1
<1>14. \A i \in 1 .. m - 1 : r[i] = f[i]
  BY <1>5, <1>9, <1>11, <1>12, <1>13
<1>15. r = Delivery!Give(f, sent)
  <2>1. CASE m = 0
    <3>1. r = <<>> /\ f = <<>>
      BY <1>5, <1>9, <2>1, EmptySeq
    <3> QED
      BY <3>1 DEF Delivery!Give
  <2>2. CASE m > 0
    <3>1. f # <<>> /\ m \in 1 .. m
      BY <1>1, <1>9, <2>2, EmptySeq
    <3>2. r = Append(Front(f), r[Len(f)])
      BY <1>5, <1>9, <1>14, <3>1, Retopped
    <3>3. Last(f) = SeenAt(st, p, m) /\ r[Len(f)] = SeenAt(u, q, m)
      BY <1>5, <1>9, <1>11, <3>1 DEF Last
    <3>4. st[m] = u[m]
      BY <1>1, <3>1
    <3>5. CASE sent = None \/ u[m].void
      <4>1. SeenAt(u, q, m) = SeenAt(st, p, m)
        BY <1>6, <2>2, <3>4, <3>5 DEF SeenAt
      <4>2. r[m] = f[m]
        BY <1>5, <1>9, <1>11, <3>1, <4>1
      <4>3. \A i \in 1 .. m : i \in 1 .. m - 1 \/ i = m
        BY <1>1
      <4>4. \A i \in 1 .. m : r[i] = f[i]
        BY <1>14, <4>2, <4>3
      <4>5. r = f
        BY <1>5, <1>9, <4>4, SeqEqual
      <4>6. Last(f).void <=> u[m].void
        BY <3>3, <3>4 DEF SeenAt
      <4>7. sent = None \/ Last(f).void
        BY <3>5, <4>6
      <4>8. Delivery!Give(f, sent) = f
        BY <4>7, GiveNone
      <4> QED
        BY <4>5, <4>8
    <3>6. CASE ~(sent = None \/ u[m].void)
      <4>1. SeenAt(u, q, m) = [SeenAt(st, p, m) EXCEPT !.has = sent]
        BY <1>6, <2>2, <3>4, <3>6 DEF SeenAt
      <4>2. Last(f).void <=> u[m].void
        BY <3>3, <3>4 DEF SeenAt
      <4>3. f # <<>> /\ ~(sent = None \/ Last(f).void)
        BY <3>1, <3>6, <4>2, <3>3
      <4>4. Delivery!Give(f, sent) = Append(Front(f), [Last(f) EXCEPT !.has = sent])
        BY <4>3, GiveSome
      <4>5. r[Len(f)] = [Last(f) EXCEPT !.has = sent]
        BY <3>3, <4>1
      <4> QED
        BY <3>2, <4>4, <4>5
    <3> QED
      BY <3>5, <3>6
  <2> QED
    BY <1>1, <2>1, <2>2
<1> QED
  BY <1>8, <1>10, <1>15 DEF s, r, f

-----------------------------------------------------------------------------
(* A scope as the contract has it, one field at a time.                    *)
Looks(kind, has, void, onward) ==
  [is |-> kind, has |-> has, void |-> void, onward |-> onward]

LEMMA LooksAre ==
  ASSUME NEW a, NEW b, NEW c, NEW d
  PROVE  /\ Looks(a, b, c, d).is = a /\ Looks(a, b, c, d).has = b
         /\ Looks(a, b, c, d).void = c /\ Looks(a, b, c, d).onward = d
  BY DEF Looks

Yes == TRUE
No == FALSE

LEMMA SetHas ==
  ASSUME NEW a, NEW b, NEW c, NEW d, NEW n
  PROVE  [Looks(a, b, c, d) EXCEPT !.has = n] = Looks(a, n, c, d)
  BY DEF Looks

LEMMA SetVoid ==
  ASSUME NEW a, NEW b, NEW c, NEW d, NEW n
  PROVE  [Looks(a, b, c, d) EXCEPT !.void = n] = Looks(a, b, n, d)
  BY DEF Looks

LEMMA SetOnward ==
  ASSUME NEW a, NEW b, NEW c, NEW d, NEW n
  PROVE  [Looks(a, b, c, d) EXCEPT !.onward = n] = Looks(a, b, c, n)
  BY DEF Looks

Blank(x) == [x EXCEPT !.has = None, !.onward = FALSE]

LEMMA Blanked ==
  ASSUME NEW x, NEW a, NEW b, NEW c, NEW d, x = Looks(a, b, c, d)
  PROVE  Blank(x) = Looks(a, None, c, No)
<1> DEFINE y == [x EXCEPT !.has = None]
<1>1. y = Looks(a, None, c, d)
  BY SetHas
<1>2. Blank(x) = [y EXCEPT !.onward = No]
  BY DEF Blank, No
<1> HIDE DEF y
<1>3. [y EXCEPT !.onward = No] = Looks(a, None, c, No)
  BY <1>1, SetOnward
<1> QED
  BY <1>2, <1>3

LEMMA MadeVoid ==
  ASSUME NEW x, NEW a, NEW b, NEW c, NEW d, x = Looks(a, b, c, d)
  PROVE  Delivery!Void(x) = Looks(a, None, Yes, No)
<1> DEFINE y == [x EXCEPT !.has = None]
           z == [y EXCEPT !.onward = No]
<1>1. y = Looks(a, None, c, d)
  BY SetHas
<1>2. Delivery!Void(x) = [z EXCEPT !.void = Yes]
  BY DEF Delivery!Void, Delivery!None, None, Yes, No
<1> HIDE DEF y
<1>3. z = Looks(a, None, c, No)
  BY <1>1, SetOnward
<1> HIDE DEF z
<1>4. [z EXCEPT !.void = Yes] = Looks(a, None, Yes, No)
  BY <1>3, SetVoid
<1> QED
  BY <1>2, <1>4

(* What of a scope is sent on when it closes.                             *)
OnwardIn(st, i) == st[i].is = "handler" /\ ~st[i].void /\ st[i].rethrow

LEMMA SeenLooks ==
  ASSUME NEW st, NEW p, NEW i
  PROVE  SeenAt(st, p, i) = Looks(st[i].is, HasIn(st, p, i), st[i].void, OnwardIn(st, i))
  BY DEF SeenAt, Looks, OnwardIn

(* A stop makes every scope void, and whatever it held is gone.            *)
Voided(st) == [i \in DOMAIN st |-> [st[i] EXCEPT !.void = TRUE]]

LEMMA OrderlyVoided ==
  ASSUME NEW st, NEW t, NEW th, Orderly(st, t, th)
  PROVE  /\ Orderly(Voided(st), TRUE, th)
         /\ Len(Voided(st)) = Len(st) /\ DOMAIN Voided(st) = DOMAIN st
         /\ \A i \in DOMAIN st : Voided(st)[i].is = st[i].is /\ Voided(st)[i].void
<1> DEFINE n == Len(st)
           u == Voided(st)
<1>1. /\ st \in Seq(AnyScope) /\ n \in Nat /\ DOMAIN st = 1 .. n
      /\ \A i \in 1 .. n : st[i] \in AnyScope
  BY LenProperties, ElementOfSeq DEF Orderly
<1>2. \A i \in 1 .. n :
        st[i].is = "handler" =>
          /\ HandlerFits(st[i], th)
          /\ st[i].nativeDepth = Cardinality(NativesUnder(st, i))
  BY DEF Orderly
<1>3. u = [i \in 1 .. n |-> [st[i] EXCEPT !.void = TRUE]]
  BY <1>1 DEF Voided
<1> HIDE DEF n, u
<1>4. ASSUME NEW i \in 1 .. n
      PROVE  /\ u[i] \in AnyScope /\ u[i].is = st[i].is /\ u[i].void
             /\ st[i].is = "handler" =>
                  /\ u[i].nativeDepth = st[i].nativeDepth
                  /\ HandlerFits(u[i], th)
  <2> DEFINE x == st[i]
             y == [x EXCEPT !.void = TRUE]
  <2>1. x \in AnyScope
    BY <1>1
  <2>2. u[i] = y
    BY <1>3
  <2>3. x.is = "handler" => HandlerFits(x, th)
    BY <1>2
  <2> HIDE DEF x
  <2>4. y \in AnyScope /\ y.is = x.is /\ y.void
    BY <2>1 DEF AnyScope, PlainScope, HandlerScope
  <2>5. ASSUME x.is = "handler"
        PROVE  y.nativeDepth = x.nativeDepth /\ HandlerFits(y, th)
    <3>1. x \in HandlerScope
      BY <2>1, <2>5 DEF AnyScope, PlainScope, HandlerScope
    <3>2. /\ y.nativeDepth = x.nativeDepth /\ y.void /\ y.caught = x.caught
          /\ y.terminated = x.terminated /\ y.exception = x.exception /\ y.outer = x.outer
      BY <3>1 DEF HandlerScope
    <3> QED
      BY <2>3, <2>5, <3>2 DEF HandlerFits
  <2> QED
    BY <2>2, <2>4, <2>5 DEF x
<1>5. u \in Seq(AnyScope) /\ Len(u) = n /\ DOMAIN u = 1 .. n
  <2>1. \A i \in 1 .. n : [st[i] EXCEPT !.void = TRUE] \in AnyScope
    BY <1>3, <1>4
  <2> QED
    BY <1>1, <1>3, <2>1
<1>6. \A i \in 1 .. n : NativesUnder(u, i) = NativesUnder(st, i)
  BY <1>1, <1>4 DEF NativesUnder
<1>7. /\ \A i, j \in 1 .. Len(u) : i <= j /\ u[j].void => u[i].void
      /\ \A i \in 1 .. Len(u) : u[i].void
  BY <1>4, <1>5
<1>8. \A i \in 1 .. Len(u) :
        u[i].is = "handler" =>
          /\ HandlerFits(u[i], th)
          /\ u[i].nativeDepth = Cardinality(NativesUnder(u, i))
  BY <1>2, <1>4, <1>5, <1>6
<1>9. Orderly(u, TRUE, th)
  BY <1>5, <1>7, <1>8 DEF Orderly
<1> QED
  BY <1>1, <1>4, <1>5, <1>9 DEF u, n

LEMMA SeenVoided ==
  ASSUME NEW st, NEW t, NEW th, Orderly(st, t, th), NEW p
  PROVE  Seen(Voided(st), p)
           = [i \in DOMAIN Seen(st, p) |-> Delivery!Void(Seen(st, p)[i])]
<1> DEFINE n == Len(st)
           u == Voided(st)
<1>1. /\ st \in Seq(AnyScope) /\ n \in Nat /\ DOMAIN st = 1 .. n
      /\ DOMAIN Seen(st, p) = 1 .. n
      /\ \A i \in 1 .. n : Seen(st, p)[i] = SeenAt(st, p, i)
  BY LenProperties, SeenFacts DEF Orderly
<1>2. /\ DOMAIN u = 1 .. n
      /\ \A i \in 1 .. n : u[i].is = st[i].is /\ u[i].void
  BY <1>1, OrderlyVoided
<1> HIDE DEF n, u
<1>3. ASSUME NEW i \in 1 .. n PROVE SeenAt(u, p, i) = Delivery!Void(SeenAt(st, p, i))
  <2>1. HasIn(u, p, i) = None
    BY <1>2, HasVoid
  <2>4. u[i].void = TRUE
    <3>1. st[i] \in AnyScope
      BY <1>1, ElementOfSeq DEF n
    <3>2. [st[i] EXCEPT !.void = TRUE].void = TRUE
      BY <3>1 DEF AnyScope, PlainScope, HandlerScope
    <3> QED
      BY <1>1, <3>2 DEF u, Voided
  <2>5. OnwardIn(u, i) = FALSE
    BY <2>4 DEF OnwardIn
  <2>6. u[i].void = Yes /\ OnwardIn(u, i) = No
    BY <2>4, <2>5 DEF Yes, No
  <2>2. SeenAt(u, p, i) = Looks(st[i].is, None, Yes, No)
    BY <1>2, <2>1, <2>6, SeenLooks
  <2>3. Delivery!Void(SeenAt(st, p, i)) = Looks(st[i].is, None, Yes, No)
    BY SeenLooks, MadeVoid
  <2> QED
    BY <2>2, <2>3
<1>4. Seen(u, p) = [i \in 1 .. n |-> SeenAt(u, p, i)]
  BY <1>2 DEF Seen
<1>5. Seen(u, p) = [i \in DOMAIN Seen(st, p) |-> Delivery!Void(Seen(st, p)[i])]
  BY <1>1, <1>3, <1>4
<1> QED
  BY <1>5 DEF u

-----------------------------------------------------------------------------
(* Taking what is pending into a handler.                                  *)
LEMMA ThrownIsSomething ==
  ASSUME CatchInv
  PROVE  /\ thrown \cup {None} \subseteq Something
         /\ None \notin thrown /\ None \notin Throws
         /\ pending \in thrown \cup {None} /\ pending \in Something
         /\ PendingDrained \in thrown \cup {None}
  BY NoneIsNotThrown DEF CatchInv, Something, None, PendingDrained

LEMMA DrainedFacts ==
  ASSUME CatchInv, NEW h \in HandlerScope, HandlerFits(h, thrown), terminating => h.void
  PROVE  /\ Drained(h) \in HandlerScope
         /\ Drained(h).is = h.is /\ Drained(h).void = h.void
         /\ Drained(h).rethrow = h.rethrow /\ Drained(h).outer = h.outer
         /\ Drained(h).nativeDepth = h.nativeDepth
         /\ HandlerFits(Drained(h), thrown)
         /\ ~terminating => Drained(h).terminated = h.terminated
         /\ ~h.void =>
              (IF Drained(h).caught THEN Drained(h).exception ELSE None)
                = (IF pending # None THEN pending ELSE IF h.caught THEN h.exception ELSE None)
<1>1. /\ pending \in Something /\ None \in Something
      /\ pending \in thrown \cup {None} /\ None \notin thrown
  BY ThrownIsSomething DEF Something
<1>2. CASE terminating
  <2> DEFINE d == [h EXCEPT !.caught = TRUE, !.terminated = TRUE, !.exception = None]
  <2>1. Drained(h) = d
    BY <1>2 DEF Drained
  <2>2. /\ d \in HandlerScope
        /\ d.is = h.is /\ d.void = h.void
        /\ d.rethrow = h.rethrow /\ d.outer = h.outer /\ d.nativeDepth = h.nativeDepth
        /\ d.caught = TRUE /\ d.terminated = TRUE /\ d.exception = None
    BY <1>1 DEF HandlerScope
  <2> HIDE DEF d
  <2>3. HandlerFits(d, thrown)
    BY <1>2, <2>2 DEF HandlerFits
  <2> QED
    BY <1>2, <2>1, <2>2, <2>3
<1>3. CASE ~terminating /\ pending = None
  <2>1. Drained(h) = h
    BY <1>3 DEF Drained
  <2> QED
    BY <1>3, <2>1
<1>4. CASE ~terminating /\ pending # None
  <2> DEFINE d == [h EXCEPT !.caught = TRUE, !.exception = pending]
  <2>1. Drained(h) = d
    BY <1>4 DEF Drained
  <2>2. /\ d \in HandlerScope
        /\ d.is = h.is /\ d.void = h.void
        /\ d.rethrow = h.rethrow /\ d.outer = h.outer /\ d.nativeDepth = h.nativeDepth
        /\ d.caught = TRUE /\ d.terminated = h.terminated /\ d.exception = pending
    BY <1>1 DEF HandlerScope
  <2> HIDE DEF d
  <2>3. HandlerFits(d, thrown)
    BY <1>1, <1>4, <2>2 DEF HandlerFits
  <2> QED
    BY <1>4, <2>1, <2>2, <2>3
<1> QED
  BY <1>2, <1>3, <1>4

(* The innermost handler, on top of the stack.                             *)
LEMMA TopHandler ==
  ASSUME CatchInv, InHandler
  PROVE  /\ stack \in Seq(AnyScope) /\ stack # <<>>
         /\ Len(stack) \in Nat /\ Len(stack) > 0
         /\ Last(stack) = stack[Len(stack)] /\ Last(stack) \in HandlerScope
         /\ HandlerFits(Last(stack), thrown)
         /\ terminating => Last(stack).void
<1>1. stack \in Seq(AnyScope) /\ stack # <<>> /\ Last(stack).is = "handler"
  BY DEF CatchInv, Orderly, InHandler
<1>2. /\ Last(stack) = stack[Len(stack)]
      /\ Last(stack) \in AnyScope /\ Len(stack) \in Nat /\ Len(stack) > 0
  BY <1>1, ClosedBy
<1>3. Last(stack) \in HandlerScope
  BY <1>1, <1>2 DEF AnyScope, PlainScope
<1>4. Len(stack) \in 1 .. Len(stack)
  BY <1>2
<1>5. HandlerFits(stack[Len(stack)], thrown) /\ (terminating => stack[Len(stack)].void)
  BY <1>1, <1>2, <1>4 DEF CatchInv, Orderly
<1> QED
  BY <1>1, <1>2, <1>3, <1>5

(* It has taken what was pending, and may have been asked to send it on:   *)
(* the scope has what it had.                                              *)
LEMMA TopTaken ==
  ASSUME CatchInv, InHandler, NEW c \in HandlerScope,
         c.void = Last(stack).void, c.outer = Last(stack).outer,
         c.nativeDepth = Last(stack).nativeDepth,
         c.caught = Drained(Last(stack)).caught,
         c.exception = Drained(Last(stack)).exception,
         HandlerFits(c, thrown)
  PROVE  LET u == Append(Front(stack), c)
         IN /\ Changed(stack, u, c) /\ Orderly(u, terminating, thrown)
            /\ Len(u) = Len(stack) /\ u # <<>>
            /\ \A i \in 1 .. Len(stack) - 1 :
                 SeenAt(u, PendingDrained, i) = SeenAt(stack, pending, i)
            /\ HasIn(u, PendingDrained, Len(stack)) = HasIn(stack, pending, Len(stack))
<1> DEFINE n == Len(stack)
           h == Last(stack)
           u == Append(Front(stack), c)
<1>1. /\ stack \in Seq(AnyScope) /\ stack # <<>> /\ n \in Nat /\ n > 0
      /\ h = stack[n] /\ h \in HandlerScope /\ HandlerFits(h, thrown)
      /\ terminating => h.void
  BY TopHandler
<1>2. h.is = "handler" /\ c.is = "handler"
  BY <1>1 DEF HandlerScope
<1>3. Changed(stack, u, c)
  BY <1>1, ChangedBy DEF AnyScope
<1>4. Orderly(stack, terminating, thrown)
  BY DEF CatchInv
<1>5. Orderly(u, terminating, thrown)
  BY <1>1, <1>2, <1>3, <1>4, OrderlyChanged
<1>6. Len(u) = n /\ u[n] = c /\ u \in Seq(AnyScope)
  BY <1>3 DEF Changed
<1>7. \A i \in 1 .. n - 1 : SeenAt(u, PendingDrained, i) = SeenAt(stack, pending, i)
  BY <1>1, <1>2, <1>3, SeenChanged
<1>8. HasIn(u, PendingDrained, n) = HasIn(stack, pending, n)
  <2>1. CASE h.void
    <3>1. stack[n].void /\ u[n].void
      BY <1>1, <1>6, <2>1
    <3>2. HasIn(u, PendingDrained, n) = None
      BY <3>1, HasVoid
    <3>3. HasIn(stack, pending, n) = None
      BY <3>1, HasVoid
    <3> QED
      BY <3>2, <3>3
  <2>2. CASE ~h.void
    <3>1. PendingDrained = None
      BY <1>1, <2>2 DEF PendingDrained
    <3>2. HasIn(u, PendingDrained, n) = TakenAt(u, n)
      BY <1>6, <2>2, <3>1, HasTop
    <3>3. TakenAt(u, n) = IF c.caught THEN c.exception ELSE None
      BY <1>2, <1>6 DEF TakenAt
    <3>4. HasIn(stack, pending, n) = IF pending # None THEN pending ELSE TakenAt(stack, n)
      BY <1>1, <2>2, HasTop
    <3>5. TakenAt(stack, n) = IF h.caught THEN h.exception ELSE None
      BY <1>1, <1>2 DEF TakenAt
    <3>6. (IF Drained(h).caught THEN Drained(h).exception ELSE None)
            = (IF pending # None THEN pending ELSE IF h.caught THEN h.exception ELSE None)
      BY <1>1, <2>2, DrainedFacts
    <3> HIDE DEF h, n, u
    <3>7. /\ c.caught = Drained(h).caught /\ c.exception = Drained(h).exception
      BY DEF h
    <3> QED
      BY <3>2, <3>3, <3>4, <3>5, <3>6, <3>7
  <2> QED
    BY <2>1, <2>2
<1>9. u # <<>>
  BY <1>1, <1>6, EmptySeq
<1> QED
  BY <1>3, <1>5, <1>6, <1>7, <1>8, <1>9

(* Asking changes nothing in what the scopes have.                         *)
LEMMA TopAsked ==
  ASSUME CatchInv, InHandler
  PROVE  LET u == Append(Front(stack), Drained(Last(stack)))
         IN /\ Orderly(u, terminating, thrown) /\ Len(u) = Len(stack)
            /\ Seen(u, PendingDrained) = Seen(stack, pending)
<1> DEFINE n == Len(stack)
           h == Last(stack)
           c == Drained(h)
           u == Append(Front(stack), c)
<1>1. /\ stack \in Seq(AnyScope) /\ stack # <<>> /\ n \in Nat /\ n > 0
      /\ h = stack[n] /\ h \in HandlerScope /\ HandlerFits(h, thrown)
      /\ terminating => h.void
  BY TopHandler
<1>2. /\ c \in HandlerScope /\ c.is = h.is /\ c.void = h.void /\ c.rethrow = h.rethrow
      /\ c.outer = h.outer /\ c.nativeDepth = h.nativeDepth /\ HandlerFits(c, thrown)
  BY <1>1, DrainedFacts
<1>3. /\ Changed(stack, u, c) /\ Orderly(u, terminating, thrown) /\ Len(u) = n
      /\ \A i \in 1 .. n - 1 : SeenAt(u, PendingDrained, i) = SeenAt(stack, pending, i)
      /\ HasIn(u, PendingDrained, n) = HasIn(stack, pending, n)
  BY <1>2, TopTaken
<1>4. u \in Seq(AnyScope) /\ u[n] = c
  BY <1>3 DEF Changed
<1> HIDE DEF c, u, n, h
<1>5. SeenAt(u, PendingDrained, n) = SeenAt(stack, pending, n)
  BY <1>1, <1>2, <1>3, <1>4 DEF SeenAt
<1>6. \A i \in 1 .. n : i \in 1 .. n - 1 \/ i = n
  BY <1>1
<1>7. \A i \in 1 .. n : SeenAt(u, PendingDrained, i) = SeenAt(stack, pending, i)
  BY <1>3, <1>5, <1>6
<1>8. Seen(u, PendingDrained) = Seen(stack, pending)
  BY <1>1, <1>3, <1>4, <1>7, SeenAlike DEF n
<1> QED
  BY <1>3, <1>8 DEF u, c, h, n

LEMMA UpTo ==
  ASSUME NEW n \in Nat
  PROVE  /\ \A i \in 1 .. n : i \in 1 .. n - 1 \/ i = n
         /\ \A i \in 1 .. n - 1 : i \in 1 .. n /\ i # n
  OBVIOUS

LEMMA InnermostFacts ==
  ASSUME stack \in Seq(AnyScope)
  PROVE  \/ /\ Innermost = 0
            /\ \A i \in 1 .. Len(stack) : stack[i].is # "handler"
         \/ /\ Innermost \in 1 .. Len(stack) /\ stack[Innermost].is = "handler"
            /\ \A i \in 1 .. Len(stack) : stack[i].is = "handler" => i <= Innermost
<1> DEFINE n == Len(stack)
           I == {i \in 1 .. n : stack[i].is = "handler"}
           S == {n - i : i \in I}
<1>1. n \in Nat
  BY LenProperties
<1>2. Innermost = IF I # {} THEN Max(I) ELSE 0
  BY Zenon DEF Innermost, SelectLastInSeq
<1>3. CASE I = {}
  <2>1. Innermost = 0
    BY <1>2, <1>3
  <2> QED
    BY <1>3, <2>1
<1>4. CASE I # {}
  <2>1. S \subseteq Nat /\ S # {}
    BY <1>1, <1>4
  <2>2. PICK s \in S : \A k \in S : s <= k
    <3> HIDE DEF S
    <3> QED
      BY <2>1, LeastNumber
  <2>3. PICK m \in I : s = n - m
    BY <2>2
  <2>4. \A k \in I : m >= k
    <3>1. \A k \in I : n - k \in S
      OBVIOUS
    <3>2. \A k \in I : n - m <= n - k
      BY <2>2, <2>3, <3>1
    <3> QED
      BY <1>1, <2>3, <3>2
  <2>5. Max(I) \in I /\ \A k \in I : Max(I) >= k
    <3> HIDE DEF I
    <3>1. \E x \in I : \A y \in I : x >= y
      BY <2>4
    <3> QED
      BY <3>1, Zenon DEF Max
  <2>6. Innermost = Max(I)
    BY <1>2, <1>4
  <2>7. Innermost \in I /\ \A k \in I : Innermost >= k
    BY <2>5, <2>6
  <2> HIDE DEF n
  <2>8. Innermost \in 1 .. n /\ stack[Innermost].is = "handler"
    BY <2>7
  <2>9. \A i \in 1 .. n : stack[i].is = "handler" => i <= Innermost
    BY <1>1, <2>7, <2>8
  <2> QED
    BY <2>8, <2>9 DEF n
<1> QED
  BY <1>3, <1>4

(* The natives on the stack, and those below its innermost scope.          *)
LEMMA NativeFacts ==
  ASSUME stack \in Seq(AnyScope)
  PROVE  LET A == {i \in DOMAIN stack : stack[i].is = "native"}
         IN /\ DOMAIN stack = 1 .. Len(stack) /\ Len(stack) \in Nat
            /\ NativeDepth = Cardinality(A)
            /\ NativeDepth = 0 => A = {}
            /\ \A i \in 1 .. Len(stack) :
                 /\ NativesUnder(stack, i) \subseteq A /\ i \notin NativesUnder(stack, i)
                 /\ Cardinality(NativesUnder(stack, i)) = NativeDepth
                      => NativesUnder(stack, i) = A
            /\ Len(stack) > 0 /\ stack[Len(stack)].is # "native"
                 => NativesUnder(stack, Len(stack)) = A
<1> DEFINE n == Len(stack)
           A == {i \in DOMAIN stack : stack[i].is = "native"}
<1>1. n \in Nat /\ DOMAIN stack = 1 .. n
  BY LenProperties
<1>2. A \subseteq 1 .. n /\ IsFiniteSet(1 .. n)
  BY <1>1, FS_Interval
<1>3. IsFiniteSet(A)
  <2> HIDE DEF A
  <2> QED
    BY <1>2, FS_Subset
<1>4. NativeDepth = Cardinality(A)
  BY DEF NativeDepth
<1>5. NativeDepth = 0 => A = {}
  <2> HIDE DEF A
  <2> QED
    BY <1>3, <1>4, FS_EmptySet
<1>6. ASSUME NEW i \in 1 .. n
      PROVE  NativesUnder(stack, i) \subseteq A /\ i \notin NativesUnder(stack, i)
  BY <1>1, <1>6 DEF NativesUnder
<1>7. ASSUME NEW i \in 1 .. n, Cardinality(NativesUnder(stack, i)) = NativeDepth
      PROVE  NativesUnder(stack, i) = A
  <2> HIDE DEF A
  <2>1. NativesUnder(stack, i) \in SUBSET A
    BY <1>6
  <2> QED
    BY <1>3, <1>4, <1>7, <2>1, FS_Subset
<1>8. ASSUME n > 0, stack[n].is # "native"
      PROVE  NativesUnder(stack, n) = A
  <2>1. /\ \A i \in 1 .. n : i \in 1 .. n - 1 \/ i = n
        /\ \A i \in 1 .. n - 1 : i \in 1 .. n /\ i # n
    BY <1>1, UpTo
  <2>2. NativesUnder(stack, n) = {j \in 1 .. n - 1 : stack[j].is = "native"}
    BY DEF NativesUnder
  <2>3. A = {j \in 1 .. n : stack[j].is = "native"}
    BY <1>1
  <2> HIDE DEF A, n
  <2> QED
    BY <1>8, <2>1, <2>2, <2>3
<1> QED
  BY <1>1, <1>4, <1>5, <1>6, <1>7, <1>8

(* In host code the innermost scope is a native or a handler, if any.      *)
LEMMA HostTop ==
  ASSUME CatchInv, InHost, stack # <<>>
  PROVE  /\ stack \in Seq(AnyScope) /\ Len(stack) \in Nat /\ Len(stack) > 0
         /\ Last(stack) = stack[Len(stack)]
         /\ Last(stack).is = "native" \/ InHandler
<1>1. stack \in Seq(AnyScope)
  BY DEF CatchInv, Orderly
<1>2. /\ Last(stack) = stack[Len(stack)]
      /\ Last(stack) \in AnyScope /\ Len(stack) \in Nat /\ Len(stack) > 0
  BY <1>1, ClosedBy
<1>3. Last(stack).is \in {"script", "native", "handler"}
  BY <1>2 DEF AnyScope, PlainScope, HandlerScope
<1> QED
  BY <1>1, <1>2, <1>3 DEF InHost, InScript, InHandler

LEMMA OnTop ==
  ASSUME CatchInv, InHandler
  PROVE  [stack EXCEPT ![Len(stack)] = Drained(@)] = Append(Front(stack), Drained(Last(stack)))
<1> DEFINE n == Len(stack)
           c == Drained(Last(stack))
           u == Append(Front(stack), c)
           e == [stack EXCEPT ![n] = Drained(@)]
<1>1. /\ stack \in Seq(AnyScope) /\ stack # <<>> /\ n \in Nat /\ n > 0
      /\ Last(stack) = stack[n] /\ DOMAIN stack = 1 .. n
      /\ Last(stack) \in HandlerScope /\ HandlerFits(Last(stack), thrown)
      /\ terminating => Last(stack).void
  BY TopHandler, LenProperties
<1>2. c \in AnyScope
  BY <1>1, DrainedFacts DEF AnyScope
<1>3. Changed(stack, u, c)
  BY <1>1, <1>2, ChangedBy
<1>4. /\ u \in Seq(AnyScope) /\ Len(u) = n /\ u[n] = c
      /\ \A i \in 1 .. n - 1 : u[i] = stack[i]
  BY <1>3 DEF Changed
<1>5. e = [i \in 1 .. n |-> IF i = n THEN c ELSE stack[i]]
  BY <1>1
<1>6. \A i \in 1 .. n : i \in 1 .. n - 1 \/ i = n
  BY <1>1, UpTo
<1>7. /\ \A i \in 1 .. n : e[i] = u[i]
      /\ DOMAIN u = 1 .. n
  <2>1. DOMAIN u = 1 .. n
    BY <1>4, LenProperties
  <2> HIDE DEF e, u, c, n
  <2>2. \A i \in 1 .. n - 1 : i # n
    BY <1>1
  <2> QED
    BY <1>4, <1>5, <1>6, <2>1, <2>2
<1>8. u = [i \in 1 .. n |-> u[i]]
  <2> HIDE DEF u, n
  <2> QED
    BY <1>4, <1>7
<1> HIDE DEF e, u, n
<1>9. e = u
  BY <1>5, <1>7, <1>8
<1> QED
  BY <1>9 DEF e, u, n

(* An operation that enters a realm.  Nothing it does shows, and nothing   *)
(* stays pending unless a stop is in force or a native without a handler   *)
(* of its own has thrown.                                                  *)
Excused == terminating \/ (stack # <<>> /\ Last(stack).is = "native" /\ pending # None)

LEMMA Catching ==
  ASSUME CatchInv, InHost
  PROVE  LET K == CatchPendingException
         IN /\ Orderly(K.stack, terminating, thrown) /\ Len(K.stack) = Len(stack)
            /\ K.pending \in thrown \cup {None}
            /\ Seen(K.stack, K.pending) = Seen(stack, pending)
            /\ K.pending = None \/ Excused
<1> DEFINE K == CatchPendingException
           n == Len(stack)
           m == Innermost
<1>1. /\ Orderly(stack, terminating, thrown) /\ stack \in Seq(AnyScope) /\ n \in Nat
      /\ pending \in thrown \cup {None}
  BY LenProperties DEF CatchInv, Orderly
<1>2. Now.stack = stack /\ Now.pending = pending
  BY DEF Now
<1>3. ASSUME K = Now, pending = None \/ Excused
      PROVE  /\ Orderly(K.stack, terminating, thrown) /\ Len(K.stack) = n
             /\ K.pending \in thrown \cup {None}
             /\ Seen(K.stack, K.pending) = Seen(stack, pending)
             /\ K.pending = None \/ Excused
  <2> HIDE DEF K
  <2> QED
    BY <1>1, <1>2, <1>3
<1>4. CASE pending = None
  <2>1. K = Now
    BY <1>4 DEF CatchPendingException
  <2> QED
    BY <1>3, <1>4, <2>1
<1>5. CASE pending # None /\ m = 0
  <2>1. K = IF NativeDepth = 0 THEN [Now EXCEPT !.pending = None] ELSE Now
    BY <1>5 DEF CatchPendingException
  <2>2. \A i \in 1 .. n : stack[i].is # "handler"
    <3>1. m \notin 1 .. n
      BY <1>1, <1>5
    <3> QED
      BY <1>1, <3>1, InnermostFacts
  <2>3. stack # <<>> => Last(stack).is = "native" /\ n \in DOMAIN stack /\ Last(stack) = stack[n]
    <3> SUFFICES ASSUME stack # <<>>
                 PROVE  Last(stack).is = "native" /\ n \in DOMAIN stack /\ Last(stack) = stack[n]
      OBVIOUS
    <3>1. n > 0 /\ Last(stack) = stack[n] /\ (Last(stack).is = "native" \/ InHandler)
      BY HostTop
    <3>2. n \in 1 .. n /\ n \in DOMAIN stack
      BY <1>1, <3>1, LenProperties
    <3>3. ~InHandler
      BY <2>2, <3>1, <3>2 DEF InHandler
    <3> QED
      BY <3>1, <3>2, <3>3
  <2>4. CASE NativeDepth = 0
    <3>1. {i \in DOMAIN stack : stack[i].is = "native"} = {}
      BY <1>1, <2>4, NativeFacts
    <3>2. stack = <<>>
      BY <2>3, <3>1
    <3>3. K.stack = stack /\ K.pending = None
      BY <2>1, <2>4 DEF Now
    <3>4. Len(stack) = 0
      BY <3>2
    <3>5. Seen(stack, None) = Seen(stack, pending)
      <4>1. \A i \in 1 .. Len(stack) : SeenAt(stack, None, i) = SeenAt(stack, pending, i)
        BY <3>4
      <4> QED
        BY <1>1, <4>1, SeenAlike
    <3> QED
      BY <1>1, <3>3, <3>5
  <2>5. CASE NativeDepth # 0
    <3>1. K = Now
      BY <2>1, <2>5
    <3>2. stack # <<>>
      <4>1. ASSUME stack = <<>>
            PROVE  {i \in DOMAIN stack : stack[i].is = "native"} = {}
        <5>1. Len(stack) = 0
          BY <4>1
        <5>2. DOMAIN stack = {}
          BY <1>1, <5>1, LenProperties
        <5> QED
          BY <5>2
      <4>2. NativeDepth = Cardinality({i \in DOMAIN stack : stack[i].is = "native"})
        BY DEF NativeDepth
      <4> QED
        BY <2>5, <4>1, <4>2, FS_EmptySet
    <3>3. Excused
      BY <1>5, <2>3, <3>2 DEF Excused
    <3> QED
      BY <1>3, <3>1, <3>3
  <2> QED
    BY <2>4, <2>5
<1>6. CASE pending # None /\ m # 0
  <2>1. K = IF stack[m].nativeDepth = NativeDepth THEN TakenByInnermost ELSE Now
    BY <1>6 DEF CatchPendingException
  <2>2. /\ m \in 1 .. n /\ stack[m].is = "handler"
        /\ \A i \in 1 .. n : stack[i].is = "handler" => i <= m
    BY <1>1, <1>6, InnermostFacts
  <2>3. stack # <<>> /\ n > 0 /\ n \in 1 .. n /\ n \in DOMAIN stack
    BY <1>1, <2>2, EmptySeq, LenProperties
  <2>4. /\ Last(stack) = stack[n] /\ (Last(stack).is = "native" \/ InHandler)
    BY <2>3, HostTop
  <2>5. stack[m].nativeDepth = Cardinality(NativesUnder(stack, m))
    BY <1>1, <2>2 DEF Orderly
  <2>6. CASE stack[m].nativeDepth = NativeDepth
    <3>1. InHandler
      <4>1. SUFFICES ASSUME Last(stack).is = "native" PROVE FALSE
        BY <2>4
      <4>2. n \in {i \in DOMAIN stack : stack[i].is = "native"}
        BY <2>3, <2>4, <4>1
      <4>3. NativesUnder(stack, m) = {i \in DOMAIN stack : stack[i].is = "native"}
        BY <1>1, <2>2, <2>5, <2>6, NativeFacts
      <4>4. n \in 1 .. m - 1
        BY <4>2, <4>3 DEF NativesUnder
      <4> QED
        BY <1>1, <2>2, <4>4
    <3>2. m = n
      <4>1. n <= m
        BY <2>2, <2>3, <2>4, <3>1 DEF InHandler
      <4> QED
        BY <1>1, <2>2, <4>1
    <3>3. K = [stack |-> [stack EXCEPT ![n] = Drained(@)], pending |-> PendingDrained]
      BY <2>1, <2>6, <3>2 DEF TakenByInnermost
    <3>4. K.stack = Append(Front(stack), Drained(Last(stack))) /\ K.pending = PendingDrained
      BY <3>1, <3>3, OnTop
    <3>5. /\ Orderly(K.stack, terminating, thrown) /\ Len(K.stack) = n
          /\ Seen(K.stack, K.pending) = Seen(stack, pending)
      <4> HIDE DEF K
      <4> QED
        BY <3>1, <3>4, TopAsked
    <3>6. PendingDrained \in thrown \cup {None} /\ (PendingDrained = None \/ terminating)
      BY ThrownIsSomething DEF PendingDrained
    <3> QED
      BY <3>4, <3>5, <3>6 DEF Excused
  <2>7. CASE stack[m].nativeDepth # NativeDepth
    <3>1. K = Now
      BY <2>1, <2>7
    <3>2. Last(stack).is = "native"
      <4>1. SUFFICES ASSUME InHandler PROVE FALSE
        BY <2>4
      <4>2. stack[n].is = "handler"
        BY <2>4, <4>1 DEF InHandler
      <4>3. m = n
        BY <1>1, <2>2, <2>3, <4>2
      <4>4. NativesUnder(stack, n) = {i \in DOMAIN stack : stack[i].is = "native"}
        BY <1>1, <2>3, <4>2, NativeFacts
      <4>5. NativeDepth = Cardinality({i \in DOMAIN stack : stack[i].is = "native"})
        BY DEF NativeDepth
      <4> QED
        BY <2>5, <2>7, <4>3, <4>4, <4>5
    <3>3. Excused
      BY <1>6, <2>3, <3>2 DEF Excused
    <3> QED
      BY <1>3, <3>1, <3>3
  <2> QED
    BY <2>6, <2>7
<1> QED
  BY <1>4, <1>5, <1>6

LEMMA ScopesAreSeen ==
  /\ SeenScopes = Seen(stack, pending)
  /\ SeenScopes' = Seen(stack', pending')
<1>1. SeenScopes = Seen(stack, pending)
  BY Zenon DEF SeenScopes, Seen, SeenAt, HasIn, TakenAt, Has, HandlerAt
<1>2. SeenScopes' = Seen(stack', pending')
  BY Zenon DEF SeenScopes, Seen, SeenAt, HasIn, TakenAt, Has, HandlerAt
<1> QED
  BY <1>1, <1>2

(* A scope opens with nothing in it, and the one below keeps what it has.  *)
LEMMA Entering ==
  ASSUME NEW st, NEW p, NEW c \in AnyScope, Orderly(st, terminating, thrown),
         c.void = terminating,
         c.is # "handler" => p = None,
         c.is = "handler" =>
           /\ ~c.caught /\ ~c.rethrow /\ c.outer = p /\ HandlerFits(c, thrown)
           /\ c.nativeDepth = Cardinality({i \in DOMAIN st : st[i].is = "native"})
  PROVE  /\ Orderly(Append(st, c), terminating, thrown)
         /\ Len(Append(st, c)) = Len(st) + 1
         /\ Seen(Append(st, c), None) = Append(Seen(st, p), Delivery!Scope(c.is))
<1> DEFINE n == Len(st)
           u == Append(st, c)
<1>1. st \in Seq(AnyScope) /\ n \in Nat
  BY LenProperties DEF Orderly
<1>2. Opened(st, u, c)
  BY <1>1, OpenedBy
<1>3. /\ Len(u) = n + 1 /\ u[n + 1] = c /\ \A i \in 1 .. n : u[i] = st[i]
  BY <1>2 DEF Opened
<1>4. Orderly(u, terminating, thrown)
  BY <1>2, OrderlyOpened
<1>5. ASSUME n > 0 PROVE HasIn(u, None, n) = HasIn(st, p, n)
  <2>1. u[n] = st[n] /\ n # Len(u)
    BY <1>1, <1>3, <1>5
  <2>2. CASE st[n].void
    BY <2>1, <2>2, HasVoid
  <2>3. CASE ~st[n].void
    <3>1. HasIn(u, None, n) = IF c.is = "handler" /\ c.outer # None
                              THEN c.outer ELSE TakenAt(u, n)
      BY <1>3, <2>1, <2>3, HasBelow
    <3>2. HasIn(st, p, n) = IF p # None THEN p ELSE TakenAt(st, n)
      BY <2>3, HasTop
    <3>3. TakenAt(u, n) = TakenAt(st, n)
      BY <2>1 DEF TakenAt
    <3> HIDE DEF n, u
    <3> QED
      BY <3>1, <3>2, <3>3
  <2> QED
    BY <2>2, <2>3
<1>6. Seen(u, None) = Append(Seen(st, p), SeenAt(u, None, n + 1))
  <2> HIDE DEF u
  <2>1. StillHas(st, p, u, None)
    BY <1>5 DEF StillHas
  <2>2. Seen(u, None) = Append(Seen(st, p), SeenAt(u, None, Len(u)))
    BY <1>2, <2>1, SeenOpened
  <2> QED
    BY <1>3, <2>2
<1>7. SeenAt(u, None, n + 1) = Delivery!Scope(c.is)
  <2>1. HasIn(u, None, n + 1) = None
    <3>1. TakenAt(u, n + 1) = None
      BY <1>3 DEF TakenAt
    <3> QED
      BY <1>3, <3>1 DEF HasIn
  <2>2. OnwardIn(u, n + 1) = No
    BY <1>3 DEF OnwardIn, No
  <2>3. SeenAt(u, None, n + 1) = Looks(c.is, None, terminating, No)
    <3> HIDE DEF u, n
    <3> QED
      BY <1>3, <2>1, <2>2, SeenLooks
  <2>4. Delivery!Scope(c.is) = Looks(c.is, None, terminating, No)
    BY Zenon DEF Delivery!Scope, Delivery!None, None, Looks, No
  <2> QED
    BY <2>3, <2>4
<1> QED
  BY <1>3, <1>4, <1>6, <1>7

LEMMA MoreThrown ==
  ASSUME NEW st, NEW t, NEW th, NEW tt, NEW th2, Orderly(st, t, th),
         th \subseteq th2, tt => t
  PROVE  Orderly(st, tt, th2)
  BY DEF Orderly, HandlerFits

-----------------------------------------------------------------------------
(* A throw: what the innermost scope has, unless it is void.               *)
LEMMA Throwing ==
  ASSUME NEW st \in Seq(AnyScope), NEW p, NEW e, e # None
  PROVE  Seen(st, e) = Delivery!Give(Seen(st, p), e)
<1> DEFINE n == Len(st)
           s == Seen(st, p)
<1>1. n \in Nat
  BY LenProperties
<1>2. CASE st = <<>>
  <2>1. n = 0
    BY <1>2
  <2>2. \A i \in 1 .. Len(st) : SeenAt(st, e, i) = SeenAt(st, p, i)
    BY <2>1
  <2>3. Seen(st, e) = s
    BY <2>2, SeenAlike
  <2>4. s = <<>>
    <3>1. \A i \in 1 .. Len(st) : SeenAt(st, p, i) \in {}
      BY <2>1
    <3>2. s \in Seq({}) /\ Len(s) = 0
      BY <2>1, <3>1, SeenFacts
    <3> QED
      BY <3>2, EmptySeq
  <2> QED
    BY <2>3, <2>4 DEF Delivery!Give
<1>3. CASE st # <<>>
  <2>1. n > 0 /\ st[n] \in AnyScope
    BY <1>3, ClosedBy
  <2>2. Changed(st, st, st[n])
    BY <2>1 DEF Changed
  <2>3. \A i \in 1 .. n - 1 : SeenAt(st, e, i) = SeenAt(st, p, i)
    BY <2>2, SeenChanged
  <2>4. /\ Seen(st, e) = Append(Front(s), SeenAt(st, e, n))
        /\ s # <<>> /\ Last(s) = SeenAt(st, p, n)
    BY <2>1, <2>3, SeenRetopped
  <2>5. CASE st[n].void
    <3>1. SeenAt(st, e, n) = SeenAt(st, p, n)
      BY <2>5, HasVoid DEF SeenAt
    <3>2. \A i \in 1 .. n : i \in 1 .. n - 1 \/ i = n
      BY <1>1, UpTo
    <3>3. \A i \in 1 .. n : SeenAt(st, e, i) = SeenAt(st, p, i)
      BY <2>3, <3>1, <3>2
    <3>4. Seen(st, e) = s
      BY <3>3, SeenAlike
    <3>5. Last(s).void
      BY <2>4, <2>5 DEF SeenAt
    <3> HIDE DEF s
    <3>6. e = None \/ Last(s).void
      BY <3>5
    <3>7. Seen(st, e) = Delivery!Give(s, e)
      BY <3>4, <3>6, GiveNone
    <3> QED
      BY <3>7 DEF s
  <2>6. CASE ~st[n].void
    <3>1. HasIn(st, e, n) = e
      BY <2>6, HasTop
    <3>2. SeenAt(st, e, n) = [SeenAt(st, p, n) EXCEPT !.has = e]
      <4> HIDE DEF n
      <4> QED
        BY <3>1 DEF SeenAt
    <3>3. ~Last(s).void
      BY <2>4, <2>6 DEF SeenAt
    <3> HIDE DEF s, n
    <3>4. Delivery!Give(s, e) = Append(Front(s), [Last(s) EXCEPT !.has = e])
      BY <2>4, <3>3, GiveSome
    <3>5. SeenAt(st, e, n) = [Last(s) EXCEPT !.has = e]
      BY <2>4, <3>2
    <3>6. Seen(st, e) = Delivery!Give(s, e)
      BY <2>4, <3>4, <3>5
    <3> QED
      BY <3>6 DEF s
  <2> QED
    BY <2>5, <2>6
<1> QED
  BY <1>2, <1>3

(* A scope lets go of what it had.                                         *)
LEMMA Consuming ==
  ASSUME NEW st, NEW u, NEW c, NEW p, Changed(st, u, c),
         c.is = st[Len(st)].is, c.void = st[Len(st)].void,
         c.is = "handler" => c.outer = st[Len(st)].outer /\ ~c.caught /\ ~c.rethrow
  PROVE  /\ Seen(u, None) = Append(Front(Seen(st, p)), Blank(Last(Seen(st, p))))
         /\ Seen(st, p) # <<>> /\ Last(Seen(st, p)).is = c.is
<1> DEFINE n == Len(st)
           s == Seen(st, p)
<1>1. /\ st \in Seq(AnyScope) /\ u \in Seq(AnyScope) /\ n \in Nat /\ n > 0
      /\ Len(u) = n /\ u[n] = c
  BY LenProperties DEF Changed
<1>2. \A i \in 1 .. n - 1 : SeenAt(u, None, i) = SeenAt(st, p, i)
  BY SeenChanged
<1>3. /\ Seen(u, None) = Append(Front(s), SeenAt(u, None, n))
      /\ s # <<>> /\ Last(s) = SeenAt(st, p, n)
  BY <1>1, <1>2, SeenRetopped
<1>4. c.is = st[n].is /\ c.void = st[n].void
  OBVIOUS
<1> HIDE DEF n, s
<1>5. SeenAt(u, None, n) = Blank(SeenAt(st, p, n))
  <2>1. TakenAt(u, n) = None
    BY <1>1 DEF TakenAt
  <2>2. HasIn(u, None, n) = None
    BY <1>1, <2>1 DEF HasIn
  <2>3. OnwardIn(u, n) = No
    BY <1>1 DEF OnwardIn, No
  <2>4. SeenAt(u, None, n) = Looks(st[n].is, None, st[n].void, No)
    BY <1>1, <1>4, <2>2, <2>3, SeenLooks
  <2>5. SeenAt(st, p, n) = Looks(st[n].is, HasIn(st, p, n), st[n].void, OnwardIn(st, n))
    BY SeenLooks
  <2> QED
    BY <2>4, <2>5, Blanked
<1>6. SeenAt(st, p, n).is = c.is
  BY <1>4 DEF SeenAt
<1> QED
  BY <1>3, <1>5, <1>6 DEF s

(* What a scope hands to the one below when it closes.                     *)
SentOf(top) == IF top.is # "handler" \/ top.onward THEN top.has ELSE None

(* Script and natives hand on what is pending.                             *)
LEMMA Unwinding ==
  ASSUME NEW st, NEW t, NEW th, NEW u, NEW c, NEW p, Orderly(st, t, th), Opened(u, st, c),
         c.is # "handler"
  PROVE  /\ Seen(st, p) # <<>>
         /\ Seen(u, p) = Delivery!Give(Front(Seen(st, p)), SentOf(Last(Seen(st, p))))
<1> DEFINE m == Len(u)
           n == m + 1
           s == Seen(st, p)
           sent == SentOf(SeenAt(st, p, n))
<1>1. /\ m \in Nat /\ Len(st) = n /\ st[n] = c /\ \A i \in 1 .. m : st[i] = u[i]
  BY LenProperties DEF Opened
<1>2. sent = HasIn(st, p, n)
  BY <1>1 DEF SeenAt, SentOf
<1>3. IsGiven(st, p, u, p, sent)
  <2> SUFFICES ASSUME m > 0
               PROVE  HasIn(u, p, m) = IF sent = None \/ u[m].void
                                       THEN HasIn(st, p, m) ELSE sent
    BY DEF IsGiven
  <2>1. st[m] = u[m] /\ m # Len(st) /\ m \in 1 .. n /\ n \in 1 .. n /\ m <= n
    BY <1>1
  <2>2. CASE u[m].void
    BY <2>1, <2>2, HasVoid
  <2>3. CASE ~u[m].void
    <3>1. ~st[n].void
      BY <1>1, <2>1, <2>3 DEF Orderly
    <3>2. HasIn(st, p, n) = p
      <4>1. TakenAt(st, n) = None
        BY <1>1 DEF TakenAt
      <4> QED
        BY <1>1, <3>1, <4>1, HasTop
    <3>3. HasIn(u, p, m) = IF p # None THEN p ELSE TakenAt(u, m)
      BY <2>3, HasTop
    <3>4. HasIn(st, p, m) = TakenAt(st, m)
      BY <1>1, <2>1, <2>3, HasBelow
    <3>5. TakenAt(st, m) = TakenAt(u, m)
      BY <2>1 DEF TakenAt
    <3> HIDE DEF m, n, sent
    <3> QED
      BY <1>2, <2>3, <3>2, <3>3, <3>4, <3>5
  <2> QED
    BY <2>2, <2>3
<1>4. /\ Seen(u, p) = Delivery!Give(Front(s), sent)
      /\ s # <<>> /\ Last(s) = SeenAt(st, p, n)
  <2> HIDE DEF sent
  <2> QED
    BY <1>1, <1>3, SeenClosed
<1> QED
  BY <1>4

(* A handler closes: what it caught goes on if it was asked to rethrow it, *)
(* and what it had parked is put back if not.                              *)
LEMMA Closing ==
  ASSUME CatchInv, InHandler
  PROVE  LET q == PutBack(Drained(Last(stack)))
             s == Seen(stack, pending)
         IN /\ s # <<>>
            /\ Seen(Front(stack), q) = Delivery!Give(Front(s), SentOf(Last(s)))
            /\ q \in thrown \cup {None}
<1> DEFINE h == Last(stack)
           d == Drained(h)
           q == PutBack(d)
           u == Front(stack)
           m == Len(u)
           n == m + 1
           s == Seen(stack, pending)
           sent == SentOf(SeenAt(stack, pending, n))
<1>1. /\ stack \in Seq(AnyScope) /\ stack # <<>> /\ h = stack[Len(stack)]
      /\ h \in HandlerScope /\ HandlerFits(h, thrown) /\ (terminating => h.void)
  BY TopHandler
<1>2. Opened(u, stack, h)
  BY <1>1, ClosedBy
<1>3. /\ m \in Nat /\ Len(stack) = n /\ stack[n] = h /\ \A i \in 1 .. m : stack[i] = u[i]
  BY <1>2, LenProperties DEF Opened
<1>4. /\ d \in HandlerScope /\ d.void = h.void /\ d.rethrow = h.rethrow /\ d.outer = h.outer
      /\ HandlerFits(d, thrown)
      /\ ~terminating => d.terminated = h.terminated
      /\ ~h.void =>
           (IF d.caught THEN d.exception ELSE None)
             = (IF pending # None THEN pending ELSE IF h.caught THEN h.exception ELSE None)
  BY <1>1, DrainedFacts
<1>5. h.is = "handler"
  BY <1>1 DEF HandlerScope
<1>6. q \in thrown \cup {None}
  <2>1. PendingDrained \in thrown \cup {None}
    BY ThrownIsSomething
  <2>2. d.exception \in thrown \cup {None} /\ d.outer \in thrown \cup {None}
    BY <1>4 DEF HandlerFits
  <2> HIDE DEF d
  <2> QED
    BY <2>1, <2>2 DEF PutBack
<1>7. ASSUME ~h.void
      PROVE  /\ q = IF d.caught /\ d.rethrow THEN d.exception ELSE d.outer
             /\ sent = IF h.rethrow /\ d.caught THEN d.exception ELSE None
             /\ d.caught => d.exception # None
  <2>1. ~terminating /\ ~d.terminated
    BY <1>1, <1>4, <1>7 DEF HandlerFits
  <2>2. q = IF d.caught /\ d.rethrow THEN d.exception ELSE d.outer
    <3> HIDE DEF d
    <3> QED
      BY <2>1 DEF PutBack, SentOn
  <2>3. d.caught => d.exception # None
    BY <1>4, <1>7 DEF HandlerFits
  <2>4. HasIn(stack, pending, n) = IF pending # None THEN pending ELSE TakenAt(stack, n)
    BY <1>3, <1>7, HasTop
  <2>5. TakenAt(stack, n) = IF h.caught THEN h.exception ELSE None
    BY <1>3, <1>5 DEF TakenAt
  <2>6. sent = IF h.rethrow THEN HasIn(stack, pending, n) ELSE None
    BY <1>3, <1>5, <1>7 DEF SeenAt, SentOf
  <2> HIDE DEF d, h, n, sent, q
  <2>7. HasIn(stack, pending, n) = IF d.caught THEN d.exception ELSE None
    BY <1>4, <1>7, <2>4, <2>5
  <2>8. sent = IF h.rethrow /\ d.caught THEN d.exception ELSE None
    BY <2>6, <2>7
  <2> QED
    BY <2>2, <2>3, <2>8
<1>8. ASSUME h.void PROVE sent = None
  <2>1. HasIn(stack, pending, n) = None
    BY <1>3, <1>8, HasVoid
  <2> QED
    BY <1>3, <1>5, <1>8, <2>1 DEF SeenAt, SentOf
<1>9. IsGiven(stack, pending, u, q, sent)
  <2> SUFFICES ASSUME m > 0
               PROVE  HasIn(u, q, m) = IF sent = None \/ u[m].void
                                       THEN HasIn(stack, pending, m) ELSE sent
    BY DEF IsGiven
  <2>1. stack[m] = u[m] /\ m # Len(stack) /\ m \in 1 .. n /\ n \in 1 .. n /\ m <= n
    BY <1>3
  <2>2. CASE u[m].void
    BY <2>1, <2>2, HasVoid
  <2>3. CASE ~u[m].void
    <3>1. ~h.void
      BY <1>3, <2>1, <2>3 DEF CatchInv, Orderly
    <3>2. HasIn(u, q, m) = IF q # None THEN q ELSE TakenAt(u, m)
      BY <2>3, HasTop
    <3>3. HasIn(stack, pending, m) = IF h.outer # None THEN h.outer ELSE TakenAt(stack, m)
      BY <1>3, <1>5, <2>1, <2>3, HasBelow
    <3>4. TakenAt(stack, m) = TakenAt(u, m)
      BY <2>1 DEF TakenAt
    <3>5. /\ q = IF d.caught /\ d.rethrow THEN d.exception ELSE d.outer
          /\ sent = IF h.rethrow /\ d.caught THEN d.exception ELSE None
          /\ d.caught => d.exception # None
      BY <1>7, <3>1
    <3> HIDE DEF m, n, sent, q, d, h, u
    <3>6. d.rethrow = h.rethrow /\ d.outer = h.outer
      BY <1>4
    <3>7. CASE h.rethrow /\ d.caught
      BY <2>3, <3>2, <3>5, <3>6, <3>7
    <3>8. CASE ~(h.rethrow /\ d.caught)
      <4>1. q = h.outer /\ sent = None
        BY <3>5, <3>6, <3>8
      <4> QED
        BY <3>2, <3>3, <3>4, <4>1
    <3> QED
      BY <3>7, <3>8
  <2> QED
    BY <2>2, <2>3
<1>10. /\ Seen(u, q) = Delivery!Give(Front(s), sent)
       /\ s # <<>> /\ Last(s) = SeenAt(stack, pending, n)
  <2> HIDE DEF sent, q, u, h
  <2> QED
    BY <1>2, <1>3, <1>9, SeenClosed
<1> QED
  BY <1>6, <1>10

(* ReThrow marks a scope, unless a stop has made it void.                  *)
LEMMA Rethrowing ==
  ASSUME CatchInv, InHandler
  PROVE  LET c == [Drained(Last(stack)) EXCEPT !.rethrow = TRUE]
             u == Append(Front(stack), c)
             s == Seen(stack, pending)
         IN /\ Orderly(u, terminating, thrown) /\ Len(u) = Len(stack)
            /\ s # <<>> /\ Last(s).is = "handler"
            /\ \/ Last(s).void /\ Seen(u, PendingDrained) = s
               \/ ~Last(s).void /\ Seen(u, PendingDrained)
                                     = Append(Front(s), [Last(s) EXCEPT !.onward = TRUE])
<1> DEFINE n == Len(stack)
           h == Last(stack)
           d == Drained(h)
           c == [d EXCEPT !.rethrow = TRUE]
           u == Append(Front(stack), c)
           s == Seen(stack, pending)
<1>1. /\ stack \in Seq(AnyScope) /\ stack # <<>> /\ n \in Nat /\ n > 0 /\ h = stack[n]
      /\ h \in HandlerScope /\ HandlerFits(h, thrown) /\ (terminating => h.void)
  BY TopHandler
<1>2. /\ d \in HandlerScope /\ d.void = h.void /\ d.outer = h.outer
      /\ d.nativeDepth = h.nativeDepth /\ HandlerFits(d, thrown)
  BY <1>1, DrainedFacts
<1>3. h.is = "handler"
  BY <1>1 DEF HandlerScope
<1> HIDE DEF d
<1>4. /\ c \in HandlerScope /\ c.is = "handler" /\ c.void = d.void /\ c.outer = d.outer
      /\ c.nativeDepth = d.nativeDepth /\ c.caught = d.caught /\ c.exception = d.exception
      /\ c.terminated = d.terminated /\ c.rethrow = TRUE
  BY <1>2 DEF HandlerScope
<1>5. HandlerFits(c, thrown)
  <2> HIDE DEF c
  <2> QED
    BY <1>2, <1>4 DEF HandlerFits
<1> HIDE DEF c
<1>6. /\ Changed(stack, u, c) /\ Orderly(u, terminating, thrown) /\ Len(u) = n
      /\ \A i \in 1 .. n - 1 : SeenAt(u, PendingDrained, i) = SeenAt(stack, pending, i)
      /\ HasIn(u, PendingDrained, n) = HasIn(stack, pending, n)
  BY <1>2, <1>4, <1>5, TopTaken DEF d
<1>7. u \in Seq(AnyScope) /\ u[n] = c
  BY <1>6 DEF Changed
<1>8. /\ Seen(u, PendingDrained) = Append(Front(s), SeenAt(u, PendingDrained, n))
      /\ s # <<>> /\ Last(s) = SeenAt(stack, pending, n)
  <2> HIDE DEF u
  <2> QED
    BY <1>1, <1>6, <1>7, SeenRetopped
<1>9. Last(s).is = "handler" /\ Last(s).void = h.void
  BY <1>1, <1>3, <1>8 DEF SeenAt
<1>10. u[n].is = h.is /\ u[n].void = h.void /\ u[n].rethrow = TRUE
  BY <1>2, <1>3, <1>4, <1>7
<1> HIDE DEF u, h, n
<1>11. CASE h.void
  <2>1. OnwardIn(u, n) = No /\ OnwardIn(stack, n) = No
    BY <1>1, <1>10, <1>11 DEF OnwardIn, No
  <2>2. SeenAt(u, PendingDrained, n) = SeenAt(stack, pending, n)
    BY <1>1, <1>6, <1>10, <2>1, SeenLooks
  <2>3. \A i \in 1 .. n : i \in 1 .. n - 1 \/ i = n
    BY <1>1, UpTo
  <2>4. \A i \in 1 .. n : SeenAt(u, PendingDrained, i) = SeenAt(stack, pending, i)
    BY <1>6, <2>2, <2>3
  <2>5. Seen(u, PendingDrained) = s
    BY <1>1, <1>6, <1>7, <2>4, SeenAlike DEF n
  <2> QED
    BY <1>6, <1>8, <1>9, <1>11, <2>5 DEF u, h, n, c, d
<1>12. CASE ~h.void
  <2>1. OnwardIn(u, n) = Yes
    BY <1>3, <1>10, <1>12 DEF OnwardIn, Yes
  <2>2. SeenAt(u, PendingDrained, n) = Looks(h.is, HasIn(stack, pending, n), h.void, Yes)
    BY <1>6, <1>10, <2>1, SeenLooks
  <2>3. SeenAt(stack, pending, n)
          = Looks(h.is, HasIn(stack, pending, n), h.void, OnwardIn(stack, n))
    BY <1>1, SeenLooks
  <2>4. SeenAt(u, PendingDrained, n) = [Last(s) EXCEPT !.onward = Yes]
    BY <1>8, <2>2, <2>3, SetOnward
  <2>5. Seen(u, PendingDrained) = Append(Front(s), [Last(s) EXCEPT !.onward = TRUE])
    BY <1>8, <2>4 DEF Yes
  <2> QED
    BY <1>6, <1>8, <1>9, <1>12, <2>5 DEF u, h, n, c, d
<1> QED
  BY <1>11, <1>12

-----------------------------------------------------------------------------
(* The steps of the contract, over what the scopes are seen to have.       *)
Permitted == [Delivery!Next]_Delivery!vars

LEMMA Stutters ==
  ASSUME Seen(stack', pending') = Seen(stack, pending), UNCHANGED <<thrown, terminating>>
  PROVE  Permitted
<1>1. SeenScopes' = SeenScopes
  BY ScopesAreSeen
<1> QED
  BY <1>1, Zenon DEF Permitted, Delivery!vars

LEMMA Enters ==
  ASSUME NEW kind \in {"script", "native", "handler"},
         Seen(stack', pending') = Append(Seen(stack, pending), Delivery!Scope(kind)),
         UNCHANGED <<thrown, terminating>>
  PROVE  Permitted
<1>1. SeenScopes' = Append(SeenScopes, Delivery!Scope(kind))
  BY ScopesAreSeen
<1>2. Delivery!Enter(kind)
  BY <1>1, Zenon DEF Delivery!Enter
<1> QED
  BY <1>2, Zenon DEF Permitted, Delivery!Next

LEMMA Leaves ==
  ASSUME Seen(stack, pending) # <<>>,
         Seen(stack', pending')
           = Delivery!Give(Front(Seen(stack, pending)), SentOf(Last(Seen(stack, pending)))),
         UNCHANGED <<thrown, terminating>>
  PROVE  Permitted
<1>1. /\ SeenScopes # <<>>
      /\ SeenScopes' = Delivery!Give(Front(SeenScopes), SentOf(Last(SeenScopes)))
  BY ScopesAreSeen
<1>2. Delivery!Leave
  BY <1>1, Zenon DEF Delivery!Leave, SentOf, Delivery!None, None, Delivery!Last, Last,
                     Delivery!Front, Front
<1> QED
  BY <1>2, Zenon DEF Permitted, Delivery!Next

LEMMA Consumes ==
  ASSUME Seen(stack, pending) # <<>>, Last(Seen(stack, pending)).is # "native",
         Seen(stack', pending')
           = Append(Front(Seen(stack, pending)), Blank(Last(Seen(stack, pending)))),
         UNCHANGED <<thrown, terminating>>
  PROVE  Permitted
<1>1. /\ SeenScopes # <<>> /\ Last(SeenScopes).is # "native"
      /\ SeenScopes' = Append(Front(SeenScopes), Blank(Last(SeenScopes)))
  BY ScopesAreSeen
<1>2. Delivery!Consume
  BY <1>1, Zenon DEF Delivery!Consume, Blank, Delivery!None, None, Delivery!Last, Last,
                     Delivery!Front, Front
<1> QED
  BY <1>2, Zenon DEF Permitted, Delivery!Next

LEMMA Rethrows ==
  ASSUME Seen(stack, pending) # <<>>, Last(Seen(stack, pending)).is = "handler",
         ~Last(Seen(stack, pending)).void,
         Seen(stack', pending')
           = Append(Front(Seen(stack, pending)),
                    [Last(Seen(stack, pending)) EXCEPT !.onward = TRUE]),
         UNCHANGED <<thrown, terminating>>
  PROVE  Permitted
<1>1. /\ SeenScopes # <<>> /\ Last(SeenScopes).is = "handler" /\ ~Last(SeenScopes).void
      /\ SeenScopes' = Append(Front(SeenScopes), [Last(SeenScopes) EXCEPT !.onward = TRUE])
  BY ScopesAreSeen
<1>2. Delivery!ReThrow
  BY <1>1, Zenon DEF Delivery!ReThrow, Delivery!Last, Last, Delivery!Front, Front
<1> QED
  BY <1>2, Zenon DEF Permitted, Delivery!Next

LEMMA Throwables ==
  ASSUME NEW e \in Throws, e \notin thrown, thrown' = thrown \cup {e},
         Seen(stack', pending') = Delivery!Give(Seen(stack, pending), e),
         UNCHANGED terminating
  PROVE  Permitted
<1>1. SeenScopes' = Delivery!Give(SeenScopes, e)
  BY ScopesAreSeen
<1>2. Delivery!Throw(e)
  BY <1>1, Zenon DEF Delivery!Throw
<1> QED
  BY <1>2, Zenon DEF Permitted, Delivery!Next

LEMMA StillCatchInv ==
  ASSUME Orderly(stack', terminating', thrown'), Len(stack') <= MaxScopes,
         thrown' \subseteq Throws, pending' \in thrown' \cup {None}, terminating' \in BOOLEAN
  PROVE  CatchInv'
  BY DEF CatchInv

(* One step of the backend: the invariant stays, and the contract allows it. *)
KeepsPromise == CatchInv' /\ Permitted

LEMMA ThrowKeeps ==
  ASSUME CatchInv, NEW e \in Throws, Throw(e) \/ ScriptThrows(e)
  PROVE  KeepsPromise
<1>1. /\ stack' = stack /\ terminating' = terminating
      /\ e \notin thrown /\ thrown' = thrown \cup {e} /\ pending' = e
  BY DEF Throw, ScriptThrows
<1>2. /\ stack \in Seq(AnyScope) /\ Orderly(stack, terminating, thrown)
      /\ Len(stack) <= MaxScopes /\ thrown \subseteq Throws /\ terminating \in BOOLEAN
  BY DEF CatchInv, Orderly
<1>3. Orderly(stack, terminating, thrown')
  BY <1>1, <1>2, MoreThrown
<1>4. CatchInv'
  BY <1>1, <1>2, <1>3, StillCatchInv
<1>5. e # None
  BY ThrownIsSomething
<1>6. Seen(stack', pending') = Delivery!Give(Seen(stack, pending), e)
  BY <1>1, <1>2, <1>5, Throwing
<1>7. Permitted
  BY <1>1, <1>6, Throwables
<1> QED
  BY <1>4, <1>7 DEF KeepsPromise

LEMMA OperationKeeps ==
  ASSUME CatchInv, Operation
  PROVE  KeepsPromise
<1> DEFINE K == CatchPendingException
<1>1. /\ InHost /\ stack' = K.stack /\ pending' = K.pending
      /\ terminating' = terminating /\ thrown' = thrown
  BY DEF Operation
<1>2. /\ Orderly(K.stack, terminating, thrown) /\ Len(K.stack) = Len(stack)
      /\ K.pending \in thrown \cup {None}
      /\ Seen(K.stack, K.pending) = Seen(stack, pending)
  BY <1>1, Catching
<1> HIDE DEF K
<1>3. CatchInv'
  BY <1>1, <1>2, StillCatchInv DEF CatchInv
<1>4. Permitted
  BY <1>1, <1>2, Stutters
<1> QED
  BY <1>3, <1>4 DEF KeepsPromise

LEMMA ScopeFacts ==
  ASSUME NEW kind \in {"script", "native"}, terminating \in BOOLEAN
  PROVE  /\ Scope(kind) \in AnyScope /\ Scope(kind).is = kind /\ Scope(kind).void = terminating
         /\ kind # "handler"
<1>1. Scope(kind) \in PlainScope
  BY DEF Scope, PlainScope
<1>2. Scope(kind).is = kind
  BY DEF Scope
<1>3. Scope(kind).void = terminating
  BY Zenon DEF Scope
<1> QED
  BY <1>1, <1>2, <1>3 DEF AnyScope

LEMMA CallFunctionKeeps ==
  ASSUME CatchInv, CallFunction
  PROVE  KeepsPromise /\ pending' = None
<1> DEFINE K == CatchPendingException
           c == Scope("script")
<1>1. /\ InHost /\ RoomForScope /\ ~Excused
      /\ stack' = Append(K.stack, c) /\ pending' = K.pending
      /\ terminating' = terminating /\ thrown' = thrown
  BY DEF CallFunction, Excused
<1>2. /\ Orderly(K.stack, terminating, thrown) /\ Len(K.stack) = Len(stack)
      /\ Seen(K.stack, K.pending) = Seen(stack, pending)
      /\ K.pending = None
  BY <1>1, Catching
<1>3. /\ c \in AnyScope /\ c.is = "script" /\ c.void = terminating
  BY ScopeFacts DEF CatchInv
<1> HIDE DEF K, c
<1>4. /\ Orderly(stack', terminating, thrown) /\ Len(stack') = Len(stack) + 1
      /\ Seen(stack', None) = Append(Seen(K.stack, K.pending), Delivery!Scope("script"))
  <2>1. c.is # "handler"
    BY <1>3
  <2> QED
    BY <1>1, <1>2, <1>3, <2>1, Entering
<1>5. Len(stack') <= MaxScopes
  <2>1. Len(stack) \in Nat
    BY LenProperties DEF CatchInv, Orderly
  <2> QED
    BY <1>1, <1>4, <2>1, ScopesAssumption DEF RoomForScope
<1>6. CatchInv'
  BY <1>1, <1>2, <1>4, <1>5, StillCatchInv DEF CatchInv
<1>7. Permitted
  BY <1>1, <1>2, <1>4, Enters
<1> QED
  BY <1>1, <1>2, <1>6, <1>7 DEF KeepsPromise

LEMMA CallNativeKeeps ==
  ASSUME CatchInv, CallNative
  PROVE  KeepsPromise
<1> DEFINE c == Scope("native")
<1>1. /\ RoomForScope /\ pending = None /\ pending' = None
      /\ stack' = Append(stack, c)
      /\ terminating' = terminating /\ thrown' = thrown
  BY DEF CallNative
<1>2. Orderly(stack, terminating, thrown)
  BY DEF CatchInv
<1>3. /\ c \in AnyScope /\ c.is = "native" /\ c.void = terminating
  BY ScopeFacts DEF CatchInv
<1> HIDE DEF c
<1>4. /\ Orderly(stack', terminating, thrown) /\ Len(stack') = Len(stack) + 1
      /\ Seen(stack', None) = Append(Seen(stack, pending), Delivery!Scope("native"))
  <2>1. c.is # "handler"
    BY <1>3
  <2> QED
    BY <1>1, <1>2, <1>3, <2>1, Entering
<1>5. Len(stack') <= MaxScopes
  <2>1. Len(stack) \in Nat
    BY LenProperties DEF CatchInv, Orderly
  <2> QED
    BY <1>1, <1>4, <2>1, ScopesAssumption DEF RoomForScope
<1>6. CatchInv'
  BY <1>1, <1>4, <1>5, StillCatchInv DEF CatchInv
<1>7. Permitted
  BY <1>1, <1>4, Enters
<1> QED
  BY <1>6, <1>7 DEF KeepsPromise

LEMMA EnteringHandler ==
  ASSUME NEW st, NEW p, NEW c \in AnyScope, Orderly(st, terminating, thrown),
         c.void = terminating, c.is = "handler",
         ~c.caught, ~c.rethrow, c.outer = p, HandlerFits(c, thrown),
         c.nativeDepth = Cardinality({i \in DOMAIN st : st[i].is = "native"})
  PROVE  /\ Orderly(Append(st, c), terminating, thrown)
         /\ Len(Append(st, c)) = Len(st) + 1
         /\ Seen(Append(st, c), None) = Append(Seen(st, p), Delivery!Scope(c.is))
BY Entering

LEMMA TryCatchOpenKeeps ==
  ASSUME CatchInv, TryCatchOpen
  PROVE  KeepsPromise
<1> DEFINE c == Handler(pending)
<1>1. /\ RoomForScope /\ pending' = None
      /\ stack' = Append(stack, c)
      /\ terminating' = terminating /\ thrown' = thrown
  BY DEF TryCatchOpen
<1>2. /\ Orderly(stack, terminating, thrown) /\ stack \in Seq(AnyScope)
      /\ pending \in thrown \cup {None} /\ terminating \in BOOLEAN
  BY DEF CatchInv, Orderly
<1>3. NativeDepth = Cardinality({i \in DOMAIN stack : stack[i].is = "native"})
  BY DEF NativeDepth
<1>4. NativeDepth \in Nat
  <2>1. {i \in DOMAIN stack : stack[i].is = "native"} \in SUBSET (1 .. Len(stack))
    BY <1>2, LenProperties
  <2>2. IsFiniteSet(1 .. Len(stack))
    BY <1>2, LenProperties, FS_Interval
  <2>3. IsFiniteSet({i \in DOMAIN stack : stack[i].is = "native"})
    BY <2>1, <2>2, FS_Subset
  <2> QED
    BY <1>3, <2>3, FS_CardinalityType
<1>5. c \in HandlerScope
  <2>1. pending \in Something /\ None \in Something
    BY ThrownIsSomething DEF Something
  <2> QED
    BY <1>2, <1>4, <2>1 DEF Handler, HandlerScope
<1>6. c.void = terminating
  BY Zenon DEF Handler
<1>7. /\ c.is = "handler" /\ c.caught = FALSE /\ c.rethrow = FALSE /\ c.terminated = FALSE
      /\ c.exception = None /\ c.outer = pending /\ c.nativeDepth = NativeDepth
  BY DEF Handler
<1> HIDE DEF c
<1>8. HandlerFits(c, thrown)
  BY <1>2, <1>7 DEF HandlerFits
<1>9. c \in AnyScope
  BY <1>5 DEF AnyScope
<1>10. /\ Orderly(stack', terminating, thrown) /\ Len(stack') = Len(stack) + 1
       /\ Seen(stack', None) = Append(Seen(stack, pending), Delivery!Scope("handler"))
  <2>1. c.nativeDepth = Cardinality({i \in DOMAIN stack : stack[i].is = "native"})
    BY <1>3, <1>7
  <2>2. ~c.caught /\ ~c.rethrow /\ c.is = "handler" /\ c.outer = pending
    BY <1>7
  <2>3. Orderly(stack, terminating, thrown)
    BY <1>2
  <2>4. /\ Orderly(Append(stack, c), terminating, thrown)
        /\ Len(Append(stack, c)) = Len(stack) + 1
        /\ Seen(Append(stack, c), None) = Append(Seen(stack, pending), Delivery!Scope(c.is))
    BY <1>6, <1>8, <1>9, <2>1, <2>2, <2>3, EnteringHandler
  <2> QED
    BY <1>1, <2>2, <2>4
<1>11. Len(stack') <= MaxScopes
  <2>1. Len(stack) \in Nat
    BY <1>2, LenProperties
  <2> QED
    BY <1>1, <1>10, <2>1, ScopesAssumption DEF RoomForScope
<1>12. CatchInv'
  BY <1>1, <1>10, <1>11, StillCatchInv DEF CatchInv
<1>13. Permitted
  BY <1>1, <1>10, Enters
<1> QED
  BY <1>12, <1>13 DEF KeepsPromise

LEMMA PoppedFits ==
  ASSUME CatchInv, stack # <<>>
  PROVE  /\ Opened(Front(stack), stack, Last(stack)) /\ Orderly(stack, terminating, thrown)
         /\ Orderly(Front(stack), terminating, thrown) /\ Len(Front(stack)) <= MaxScopes
         /\ Len(Front(stack)) < Len(stack)
<1>1. Orderly(stack, terminating, thrown) /\ stack \in Seq(AnyScope) /\ Len(stack) <= MaxScopes
  BY DEF CatchInv, Orderly
<1>2. Opened(Front(stack), stack, Last(stack))
  BY <1>1, ClosedBy
<1>3. Orderly(Front(stack), terminating, thrown)
  BY <1>1, <1>2, OrderlyClosed
<1>4. Len(stack) \in Nat /\ Len(Front(stack)) = Len(stack) - 1
  BY <1>1, Popped
<1> QED
  BY <1>1, <1>2, <1>3, <1>4, ScopesAssumption

LEMMA UnwindKeeps ==
  ASSUME CatchInv, NativeReturns \/ ScriptEnds
  PROVE  KeepsPromise /\ Len(stack') < Len(stack)
<1>1. /\ stack # <<>> /\ Last(stack).is # "handler"
      /\ stack' = Front(stack) /\ pending' = pending
      /\ terminating' = terminating /\ thrown' = thrown
  BY DEF NativeReturns, ScriptEnds, InScript
<1>2. /\ Opened(Front(stack), stack, Last(stack)) /\ Orderly(stack, terminating, thrown)
      /\ Orderly(Front(stack), terminating, thrown) /\ Len(Front(stack)) <= MaxScopes
      /\ Len(Front(stack)) < Len(stack)
  BY <1>1, PoppedFits
<1>3. CatchInv'
  BY <1>1, <1>2, StillCatchInv DEF CatchInv
<1>4. /\ Seen(stack, pending) # <<>>
      /\ Seen(stack', pending')
           = Delivery!Give(Front(Seen(stack, pending)), SentOf(Last(Seen(stack, pending))))
  BY <1>1, <1>2, Unwinding
<1>5. Permitted
  BY <1>1, <1>4, Leaves
<1> QED
  BY <1>1, <1>2, <1>3, <1>5 DEF KeepsPromise

LEMMA TryCatchCloseKeeps ==
  ASSUME CatchInv, TryCatchClose
  PROVE  KeepsPromise /\ Len(stack') < Len(stack)
<1>1. /\ InHandler /\ stack # <<>>
      /\ stack' = Front(stack) /\ pending' = PutBack(Drained(Last(stack)))
      /\ terminating' = terminating /\ thrown' = thrown
  BY DEF TryCatchClose, InHandler
<1>2. /\ Orderly(Front(stack), terminating, thrown) /\ Len(Front(stack)) <= MaxScopes
      /\ Len(Front(stack)) < Len(stack)
  BY <1>1, PoppedFits
<1>3. /\ Seen(stack, pending) # <<>>
      /\ Seen(stack', pending')
           = Delivery!Give(Front(Seen(stack, pending)), SentOf(Last(Seen(stack, pending))))
      /\ pending' \in thrown \cup {None}
  BY <1>1, Closing
<1>4. CatchInv'
  BY <1>1, <1>2, <1>3, StillCatchInv DEF CatchInv
<1>5. Permitted
  BY <1>1, <1>3, Leaves
<1> QED
  BY <1>1, <1>2, <1>4, <1>5 DEF KeepsPromise

LEMMA AskKeeps ==
  ASSUME CatchInv, TryCatchAsked
  PROVE  KeepsPromise /\ Len(stack') = Len(stack)
<1> DEFINE u == Append(Front(stack), Drained(Last(stack)))
<1>1. /\ InHandler /\ stack' = u /\ pending' = PendingDrained
      /\ terminating' = terminating /\ thrown' = thrown
  BY DEF TryCatchAsked
<1>2. /\ Orderly(u, terminating, thrown) /\ Len(u) = Len(stack)
      /\ Seen(u, PendingDrained) = Seen(stack, pending)
  BY <1>1, TopAsked
<1>3. PendingDrained \in thrown \cup {None}
  BY ThrownIsSomething
<1> HIDE DEF u
<1>4. CatchInv'
  BY <1>1, <1>2, <1>3, StillCatchInv DEF CatchInv
<1>5. Permitted
  BY <1>1, <1>2, Stutters
<1> QED
  BY <1>1, <1>2, <1>4, <1>5 DEF KeepsPromise

LEMMA ReThrowKeeps ==
  ASSUME CatchInv, TryCatchReThrow
  PROVE  KeepsPromise /\ Len(stack') = Len(stack)
<1> DEFINE u == Append(Front(stack), [Drained(Last(stack)) EXCEPT !.rethrow = TRUE])
           s == Seen(stack, pending)
<1>1. /\ InHandler /\ stack' = u /\ pending' = PendingDrained
      /\ terminating' = terminating /\ thrown' = thrown
  BY DEF TryCatchReThrow
<1>2. /\ Orderly(u, terminating, thrown) /\ Len(u) = Len(stack)
      /\ s # <<>> /\ Last(s).is = "handler"
      /\ \/ Last(s).void /\ Seen(u, PendingDrained) = s
         \/ ~Last(s).void /\ Seen(u, PendingDrained)
                               = Append(Front(s), [Last(s) EXCEPT !.onward = TRUE])
  BY <1>1, Rethrowing
<1>3. PendingDrained \in thrown \cup {None}
  BY ThrownIsSomething
<1> HIDE DEF u
<1>4. CatchInv'
  BY <1>1, <1>2, <1>3, StillCatchInv DEF CatchInv
<1>5. CASE Last(s).void /\ Seen(u, PendingDrained) = s
  <2>1. Permitted
    BY <1>1, <1>5, Stutters
  <2> QED
    BY <1>1, <1>2, <1>4, <2>1 DEF KeepsPromise
<1>6. CASE ~Last(s).void /\ Seen(u, PendingDrained)
                              = Append(Front(s), [Last(s) EXCEPT !.onward = TRUE])
  <2>1. Permitted
    BY <1>1, <1>2, <1>6, Rethrows
  <2> QED
    BY <1>1, <1>2, <1>4, <2>1 DEF KeepsPromise
<1> QED
  BY <1>2, <1>5, <1>6

LEMMA ResetKeeps ==
  ASSUME CatchInv, TryCatchReset
  PROVE  KeepsPromise /\ Len(stack') = Len(stack)
<1> DEFINE n == Len(stack)
           h == Last(stack)
           c == [h EXCEPT !.caught = FALSE, !.rethrow = FALSE, !.exception = None]
           u == Append(Front(stack), c)
           s == Seen(stack, pending)
<1>1. /\ InHandler /\ ~h.terminated /\ stack' = u /\ pending' = None
      /\ terminating' = terminating /\ thrown' = thrown
  BY DEF TryCatchReset
<1>2. /\ stack \in Seq(AnyScope) /\ stack # <<>> /\ h = stack[n]
      /\ h \in HandlerScope /\ HandlerFits(h, thrown)
  BY <1>1, TopHandler
<1>3. None \in Something
  BY DEF Something
<1> HIDE DEF h
<1>4. /\ c \in HandlerScope /\ c.is = "handler" /\ h.is = "handler"
      /\ c.void = h.void /\ c.outer = h.outer /\ c.nativeDepth = h.nativeDepth
      /\ c.caught = FALSE /\ c.rethrow = FALSE /\ c.exception = None
      /\ c.terminated = h.terminated
  BY <1>2, <1>3 DEF HandlerScope
<1> HIDE DEF c
<1>5. HandlerFits(c, thrown)
  BY <1>1, <1>2, <1>4 DEF HandlerFits
<1>6. Changed(stack, u, c)
  <2>1. c \in AnyScope
    BY <1>4 DEF AnyScope
  <2> QED
    BY <1>2, <2>1, ChangedBy
<1>7. Len(u) = n
  BY <1>6 DEF Changed
<1> HIDE DEF u
<1>8. Orderly(u, terminating, thrown)
  <2>1. Orderly(stack, terminating, thrown)
    BY DEF CatchInv
  <2>2. /\ stack[Len(stack)].is = "handler"
        /\ c.void <=> stack[Len(stack)].void
        /\ c.nativeDepth = stack[Len(stack)].nativeDepth
    BY <1>2, <1>4
  <2> QED
    BY <1>5, <1>6, <2>1, <2>2, OrderlyChanged
<1>9. CatchInv'
  BY <1>1, <1>7, <1>8, StillCatchInv DEF CatchInv
<1>10. /\ Seen(u, None) = Append(Front(s), Blank(Last(s)))
       /\ s # <<>> /\ Last(s).is = c.is
  <2>1. /\ c.is = stack[Len(stack)].is /\ c.void = stack[Len(stack)].void
        /\ c.is = "handler" => c.outer = stack[Len(stack)].outer /\ ~c.caught /\ ~c.rethrow
    BY <1>2, <1>4
  <2> QED
    BY <1>6, <2>1, Consuming
<1>11. Permitted
  <2>1. Last(s).is # "native"
    BY <1>4, <1>10
  <2> QED
    BY <1>1, <1>10, <2>1, Consumes
<1> QED
  BY <1>1, <1>7, <1>9, <1>11 DEF KeepsPromise

LEMMA ScriptCatchesKeeps ==
  ASSUME CatchInv, ScriptCatches
  PROVE  KeepsPromise
<1> DEFINE n == Len(stack)
           c == Last(stack)
           s == Seen(stack, pending)
<1>1. /\ stack # <<>> /\ c.is = "script" /\ stack' = stack /\ pending' = None
      /\ terminating' = terminating /\ thrown' = thrown
  BY DEF ScriptCatches, InScript
<1>2. Orderly(stack, terminating, thrown) /\ stack \in Seq(AnyScope)
  BY DEF CatchInv, Orderly
<1>3. c = stack[n] /\ n \in Nat /\ n > 0
  BY <1>1, <1>2, ClosedBy
<1>4. Changed(stack, stack, c)
  BY <1>2, <1>3 DEF Changed
<1> HIDE DEF c
<1>5. CatchInv'
  BY <1>1, <1>2, StillCatchInv DEF CatchInv
<1>6. /\ Seen(stack, None) = Append(Front(s), Blank(Last(s)))
      /\ s # <<>> /\ Last(s).is = c.is
  <2>1. c.is # "handler"
    BY <1>1
  <2> QED
    BY <1>3, <1>4, <2>1, Consuming
<1>7. Permitted
  <2>1. Last(s).is # "native"
    BY <1>1, <1>6
  <2> QED
    BY <1>1, <1>6, <2>1, Consumes
<1> QED
  BY <1>5, <1>7 DEF KeepsPromise

LEMMA TerminateKeeps ==
  ASSUME CatchInv, TerminateExecution
  PROVE  KeepsPromise /\ Len(stack') = Len(stack)
<1>1. /\ stack' = Voided(stack) /\ terminating' = TRUE
      /\ pending' = pending /\ thrown' = thrown
  BY DEF TerminateExecution, Voided
<1>2. Orderly(stack, terminating, thrown)
  BY DEF CatchInv
<1>3. Orderly(Voided(stack), TRUE, thrown) /\ Len(Voided(stack)) = Len(stack)
  BY <1>2, OrderlyVoided
<1>4. CatchInv'
  BY <1>1, <1>3 DEF CatchInv
<1>5. Seen(stack', pending')
        = [i \in DOMAIN Seen(stack, pending) |-> Delivery!Void(Seen(stack, pending)[i])]
  BY <1>1, <1>2, SeenVoided
<1>6. SeenScopes' = [i \in DOMAIN SeenScopes |-> Delivery!Void(SeenScopes[i])]
  BY <1>5, ScopesAreSeen, Zenon
<1>7. Delivery!Stop
  BY <1>1, <1>6, Zenon DEF Delivery!Stop
<1>8. Permitted
  BY <1>7, Zenon DEF Permitted, Delivery!Next
<1> QED
  BY <1>1, <1>3, <1>4, <1>8 DEF KeepsPromise

LEMMA CancelKeeps ==
  ASSUME CatchInv, CancelTerminateExecution
  PROVE  KeepsPromise
<1>1. /\ stack' = stack /\ terminating' = FALSE /\ pending' = pending /\ thrown' = thrown
  BY DEF CancelTerminateExecution
<1>2. Orderly(stack, FALSE, thrown)
  BY MoreThrown DEF CatchInv
<1>3. CatchInv'
  BY <1>1, <1>2 DEF CatchInv
<1>4. SeenScopes' = SeenScopes
  BY <1>1, ScopesAreSeen
<1>5. Delivery!Cancel
  BY <1>1, <1>4, Zenon DEF Delivery!Cancel
<1>6. Permitted
  BY <1>5, Zenon DEF Permitted, Delivery!Next
<1> QED
  BY <1>3, <1>6 DEF KeepsPromise

LEMMA InitCatchInv ==
  ASSUME TryCatchInit
  PROVE  CatchInv /\ Delivery!Init
<1>1. stack = <<>> /\ pending = None /\ terminating = FALSE /\ thrown = {} /\ Len(stack) = 0
  BY DEF TryCatchInit
<1>2. stack \in Seq(AnyScope)
  BY <1>1
<1>3. Orderly(stack, terminating, thrown)
  BY <1>1, <1>2 DEF Orderly
<1>4. CatchInv
  <2>1. Len(stack) <= MaxScopes
    BY <1>1, ScopesAssumption
  <2>2. thrown \subseteq Throws /\ pending \in thrown \cup {None}
    BY <1>1
  <2>3. terminating \in BOOLEAN
    BY <1>1
  <2> QED
    BY <1>3, <2>1, <2>2, <2>3 DEF CatchInv
<1>5. SeenScopes = <<>>
  <2>1. \A i \in 1 .. Len(stack) : SeenAt(stack, pending, i) \in {}
    BY <1>1
  <2>2. Seen(stack, pending) \in Seq({}) /\ Len(Seen(stack, pending)) = 0
    BY <1>1, <1>2, <2>1, SeenFacts
  <2> QED
    BY <2>2, EmptySeq, ScopesAreSeen
<1>6. Delivery!Init
  BY <1>1, <1>5 DEF Delivery!Init
<1> QED
  BY <1>4, <1>6

(* What entering cleanly asks of one step.                                 *)
Clean == ~InScript /\ InScript' /\ Len(stack') > Len(stack) => pending' = None

LEMMA NextKeeps ==
  ASSUME CatchInv, [TryCatchNext]_tryCatchVars
  PROVE  KeepsPromise /\ Clean
<1>1. Len(stack) \in Nat
  BY LenProperties DEF CatchInv, Orderly
<1>2. ASSUME NEW e \in Throws, Throw(e) \/ ScriptThrows(e) PROVE KeepsPromise /\ Clean
  <2>1. stack' = stack
    BY <1>2 DEF Throw, ScriptThrows
  <2> QED
    BY <1>1, <1>2, <2>1, ThrowKeeps DEF Clean
<1>3. CASE Operation
  <2>1. Len(stack') = Len(stack)
    BY <1>3, Catching DEF Operation
  <2> QED
    BY <1>1, <1>3, <2>1, OperationKeeps DEF Clean
<1>4. CASE CallFunction
  BY <1>4, CallFunctionKeeps DEF Clean
<1>5. CASE NativeReturns \/ ScriptEnds
  <2>1. KeepsPromise /\ Len(stack') < Len(stack)
    BY <1>5, UnwindKeeps
  <2>2. Len(stack') \in Nat
    BY <2>1, LenProperties DEF KeepsPromise, CatchInv, Orderly
  <2> QED
    BY <1>1, <2>1, <2>2 DEF Clean
<1>6. CASE ScriptCatches
  <2>1. stack' = stack
    BY <1>6 DEF ScriptCatches
  <2> QED
    BY <1>1, <1>6, <2>1, ScriptCatchesKeeps DEF Clean
<1>7. CASE CallNative
  <2>1. InScript
    BY <1>7 DEF CallNative
  <2> QED
    BY <1>7, <2>1, CallNativeKeeps DEF Clean
<1>8. CASE TryCatchOpen
  <2>1. pending' = None
    BY <1>8 DEF TryCatchOpen
  <2> QED
    BY <1>8, <2>1, TryCatchOpenKeeps DEF Clean
<1>9. CASE TryCatchAsked
  BY <1>1, <1>9, AskKeeps DEF Clean
<1>10. CASE TryCatchReThrow
  BY <1>1, <1>10, ReThrowKeeps DEF Clean
<1>11. CASE TryCatchReset
  BY <1>1, <1>11, ResetKeeps DEF Clean
<1>12. CASE TryCatchClose
  <2>1. KeepsPromise /\ Len(stack') < Len(stack)
    BY <1>12, TryCatchCloseKeeps
  <2>2. Len(stack') \in Nat
    BY <2>1, LenProperties DEF KeepsPromise, CatchInv, Orderly
  <2> QED
    BY <1>1, <2>1, <2>2 DEF Clean
<1>13. CASE TerminateExecution
  BY <1>1, <1>13, TerminateKeeps DEF Clean
<1>14. CASE CancelTerminateExecution
  <2>1. stack' = stack
    BY <1>14 DEF CancelTerminateExecution
  <2> QED
    BY <1>1, <1>14, <2>1, CancelKeeps DEF Clean
<1>15. CASE UNCHANGED tryCatchVars
  <2>1. /\ stack' = stack /\ pending' = pending /\ terminating' = terminating
        /\ thrown' = thrown
    BY <1>15 DEF tryCatchVars
  <2>2. CatchInv'
    BY <2>1 DEF CatchInv
  <2>3. Permitted
    BY <2>1, Stutters
  <2> QED
    BY <1>1, <2>1, <2>2, <2>3 DEF KeepsPromise, Clean
<1> QED
  BY <1>2, <1>3, <1>4, <1>5, <1>6, <1>7, <1>8, <1>9, <1>10, <1>11, <1>12, <1>13, <1>14, <1>15
  DEF TryCatchNext

-----------------------------------------------------------------------------
(* Scopes that are not void lie above none that is, handlers know how many *)
(* natives are below them, and what a handler or the context holds was     *)
(* thrown.                                                                 *)
THEOREM CatchInvariance == TryCatchSpec => []CatchInv
<1>1. TryCatchInit => CatchInv
  BY InitCatchInv
<1>2. CatchInv /\ [TryCatchNext]_tryCatchVars => CatchInv'
  BY NextKeeps DEF KeepsPromise
<1> QED
  BY <1>1, <1>2, PTL DEF TryCatchSpec

(* A handler keeps what has been thrown, and nothing else.                 *)
THEOREM TryCatchTypeCorrect == TryCatchSpec => []TryCatchTypeOK
<1>1. CatchInv => TryCatchTypeOK
  <2> SUFFICES ASSUME CatchInv PROVE TryCatchTypeOK
    OBVIOUS
  <2>1. DOMAIN stack = 1 .. Len(stack)
    BY LenProperties DEF CatchInv, Orderly
  <2> QED
    BY <2>1 DEF CatchInv, Orderly, HandlerFits, TryCatchTypeOK, HandlerAt
<1> QED
  BY <1>1, CatchInvariance, PTL

(* Script is never entered with an exception pending on the context.       *)
THEOREM ScriptEnteredClean == TryCatchSpec => EnteredClean
<1>1. CatchInv /\ [TryCatchNext]_tryCatchVars => [Clean]_tryCatchVars
  BY NextKeeps
<1> QED
  BY <1>1, CatchInvariance, PTL DEF TryCatchSpec, EnteredClean, Clean

(* Taking an exception late looks like catching it at once: every step of  *)
(* the backend is one the contract of unibind/exception.h allows.          *)
THEOREM ExceptionsAreDelivered == TryCatchSpec => DeliveryOK
<1>1. TryCatchInit => Delivery!Init
  BY InitCatchInv
<1>2. CatchInv /\ [TryCatchNext]_tryCatchVars => [Delivery!Next]_Delivery!vars
  BY NextKeeps DEF KeepsPromise, Permitted
<1> QED
  BY <1>1, <1>2, CatchInvariance, PTL DEF TryCatchSpec, DeliveryOK, Delivery!Spec

=============================================================================
