------------------------------ MODULE Templates -------------------------------
(***************************************************************************)
(* Templates: what an embedder declares once and every realm is given.     *)
(*                                                                         *)
(* A template's shape (its class name, its parent, its handlers) is fixed  *)
(* when it, or a template that instantiates it, is first instantiated: V8  *)
(* ends the process on a later change, so both backends seal the template  *)
(* and everything it reaches, and ignore the call.  Members may be added   *)
(* at any time and reach what is instantiated afterwards.                  *)
(*                                                                         *)
(* On V8 the engine instantiates.  On SpiderMonkey the backend does, one   *)
(* fallible step after another, recursively, with per-realm caches of the  *)
(* constructors, of the functions members share and of a model instance;   *)
(* the recursion is `stack` here, each of its frames one call in progress. *)
(***************************************************************************)
EXTENDS Engine, Integers, Sequences, SequencesExt

CONSTANTS
  Fns,         \* function templates the embedder makes
  Classes,     \* those of them that belong to a Class<T>
  Objs,        \* object templates it makes
  OnDemand,    \* the function templates' own that it asks for
  Realms,
  Ancestry,    \* pairs <<child, parent>> it may pass to Inherit
  Nests,       \* pairs <<template, value>> it may pass to Set
  Plain,       \* pairs <<template, kind>>: members it may declare besides
  Shaped,      \* templates whose class name or handlers it may set
  MaxMembers,  \* bound on members declared, on all templates together
  MaxShapes,   \* bound on changes of class names and handlers, likewise
  MaxFailures  \* bound on failed instantiations

ASSUME TemplatesBounds ==
  MaxMembers \in Nat /\ MaxShapes \in Nat /\ MaxFailures \in Nat

(* A template is named by what it is and whose it is.                      *)
F(f) == <<"function", f>>
Prototype(f) == <<"prototype", f>>
Instance(f) == <<"instance", f>>
ObjectTemplates == {<<"object", o>> : o \in Objs} \cup OnDemand
T == ObjectTemplates \cup {F(f) : f \in Fns}
Nothing == <<"nothing", "nothing">>
NoParent == "no parent"

(* A chain of parents ends, and so does one of object templates set on one *)
(* another: neither engine could instantiate it otherwise.                 *)
ASSUME EndingAssumption ==
  /\ Classes \subseteq Fns
  /\ OnDemand \subseteq UNION {{Prototype(f), Instance(f)} : f \in Fns}
  /\ Ancestry \subseteq Fns \X Fns /\ Nests \subseteq T \X T
  /\ Plain \subseteq T \X {"constant", "method", "symbol method", "accessor"}
  /\ Shaped \subseteq T
  /\ \A S \in (SUBSET Fns) \ {{}} : \E f \in S : \A g \in S : <<f, g>> \notin Ancestry
  /\ \A S \in (SUBSET ObjectTemplates) \ {{}} :
       \E s \in S : \A t \in S : <<s, t>> \notin Nests

VARIABLES
  made,     \* templates that exist: the two of a function come on demand
  sealed,   \* TemplateRec::sealed
  parent,   \* TemplateRec::parent
  shape,    \* which class name and handlers, by number
  entries,  \* TemplateRec::entries, in order
  used,     \* templates the engine, or a realm, has built something from
  ctor,     \* each realm's cached constructors
  builds,   \* how many constructor functions each template has had in a realm
  shared,   \* how many entries each cached array of functions was made for
  model,    \* and each cached model instance; -1 for none
  stack,    \* the instantiation in progress, outermost call first
  failures  \* instantiations that failed

declared == <<made, sealed, parent, shape, entries>>
caches == <<ctor, builds, shared, model>>
vars == <<engine, declared, used, caches, stack, failures>>

-----------------------------------------------------------------------------
Entry(kind, child) == [kind |-> kind, child |-> child]
PlainKinds == {"constant", "method", "symbol method", "accessor"}
EntryKinds == PlainKinds \cup {"child"}
Works == {"materialise", "instance", "apply"}
Stages == {"start", "make", "store", "own", "stamp", "modelled", "entries",
           "finish"}

(* One call in progress: what it works on, how far it has come, the next   *)
(* entry and how many members its target has been given.                   *)
Frame(work, t, r) ==
  [work |-> work, tpl |-> t, realm |-> r, at |-> "start", n |-> 0, got |-> 0]

(* Stored without a prototype yet, or over one of an earlier build's.       *)
CtorStates == {"none", "half stored", "mixed", "building", "whole", "torn"}

TypeOK ==
  /\ engine \in {"V8", "SpiderMonkey"}
  /\ made \subseteq T /\ sealed \subseteq T /\ used \subseteq T
  /\ parent \in [Fns -> Fns \cup {NoParent}]
  /\ shape \in [T -> Nat]
  /\ entries \in [T -> Seq([kind : EntryKinds, child : T \cup {Nothing}])]
  /\ ctor \in [Realms -> [Fns -> CtorStates]]
  /\ builds \in [Realms -> [Fns -> Nat]]
  /\ shared \in [Realms -> [T -> Nat]]
  /\ model \in [Realms -> [T -> Nat \cup {-1}]]
  /\ stack \in Seq([work : Works, tpl : T, realm : Realms, at : Stages,
                    n : Nat, got : Nat])
  /\ failures \in 0 .. MaxFailures

Init ==
  /\ engine \in Engines
  /\ made = T \ OnDemand
  /\ sealed = {} /\ used = {}
  /\ parent = [f \in Fns |-> NoParent]
  /\ shape = [t \in T |-> 0] /\ entries = [t \in T |-> <<>>]
  /\ ctor = [r \in Realms |-> [f \in Fns |-> "none"]]
  /\ builds = [r \in Realms |-> [f \in Fns |-> 0]]
  /\ shared = [r \in Realms |-> [t \in T |-> 0]]
  /\ model = [r \in Realms |-> [t \in T |-> -1]]
  /\ stack = <<>> /\ failures = 0

Idle == stack = <<>>

-----------------------------------------------------------------------------
(* Sealing.  What a template instantiates with itself: the function        *)
(* template it belongs to, a function template's parent and the two it     *)
(* owns, and what was set on it as a member.                               *)
Children(t) == {entries[t][i].child : i \in 1 .. Len(entries[t])} \ {Nothing}

Reaches(t) ==
  Children(t) \cup
   (CASE t[1] = "function" ->
           (made \cap {Prototype(t[2]), Instance(t[2])})
             \cup {F(p) : p \in {parent[t[2]]} \ {NoParent}}
      [] t[1] \in {"prototype", "instance"} -> {F(t[2])}
      [] OTHER -> {})

(* Mutant: what its own templates reach is not sealed.                     *)
SealItsOwn(t) == sealed \cup {t} \cup Reaches(t)

(* The recursion stops where it meets a template that is sealed already.   *)
Seal(t) ==
  LET reaches == [s \in T |-> Reaches(s)]
  IN {s \in T : \A C \in SUBSET (T \ sealed) :
        /\ t \in C \cup sealed
        /\ \A c \in C : reaches[c] \subseteq C \cup sealed
        => s \in C \cup sealed}

-----------------------------------------------------------------------------
(* Declaring.                                                              *)
Members == FoldFunction(LAMBDA s, n : n + Len(s), 0, entries)
Shapes == FoldFunction(LAMBDA s, n : n + s, 0, shape)

AddEntry(t, e) ==
  /\ Idle /\ t \in made /\ Members < MaxMembers
  /\ e.kind # "child" => <<t, e.kind>> \in Plain
  /\ entries' = [entries EXCEPT ![t] = Append(@, e)]
  /\ UNCHANGED <<engine, made, parent, shape, used, caches, stack, failures>>

TemplateSetConstant(t) == AddEntry(t, Entry("constant", Nothing)) /\ UNCHANGED sealed
TemplateSetMethod(t) == AddEntry(t, Entry("method", Nothing)) /\ UNCHANGED sealed
TemplateSetSymbolMethod(t) ==
  AddEntry(t, Entry("symbol method", Nothing)) /\ UNCHANGED sealed
TemplateSetAccessor(t) == AddEntry(t, Entry("accessor", Nothing)) /\ UNCHANGED sealed

(* A template set on one that is sealed will be instantiated with it from  *)
(* now on.                                                                 *)
TemplateSetTemplate(t, value) ==
  /\ <<t, value>> \in Nests /\ value \in made
  /\ AddEntry(t, Entry("child", value))
  /\ sealed' = IF t \in sealed THEN Seal(value) ELSE sealed

TemplateNew(f, t) ==
  /\ Idle /\ t \in OnDemand \ made
  /\ made' = made \cup {t}
  /\ sealed' = IF F(f) \in sealed THEN sealed \cup {t} ELSE sealed
  /\ UNCHANGED <<engine, parent, shape, entries, used, caches, stack, failures>>

TemplatePrototype(f) == TemplateNew(f, Prototype(f))
TemplateInstance(f) == TemplateNew(f, Instance(f))

(* A function template's class name, an object template's handlers.        *)
(* Mutant: the seal is not asked about.                                    *)
SetShapeLate(t) ==
  /\ Idle /\ t \in Shaped \cap made /\ Shapes < MaxShapes
  /\ shape' = [shape EXCEPT ![t] = @ + 1]
  /\ UNCHANGED <<engine, made, sealed, parent, entries, used, caches, stack,
                 failures>>

SetShape(t) ==
  /\ Idle /\ t \in (Shaped \cap made) \ sealed /\ Shapes < MaxShapes
  /\ shape' = [shape EXCEPT ![t] = @ + 1]
  /\ UNCHANGED <<engine, made, sealed, parent, entries, used, caches, stack,
                 failures>>

TemplateInherit(child, p) ==
  /\ Idle /\ F(child) \notin sealed /\ <<child, p>> \in Ancestry
  /\ parent' = [parent EXCEPT ![child] = p]
  /\ UNCHANGED <<engine, made, sealed, shape, entries, used, caches, stack,
                 failures>>

-----------------------------------------------------------------------------
(* Instantiating on V8: the engine publishes, at most, the template, what  *)
(* constructs it, and on from there.                                       *)
Publishes(t) ==
  LET reaches == [s \in T |-> Reaches(s)]
  IN {s \in T : \A C \in SUBSET T :
        t \in C /\ (\A c \in C : reaches[c] \subseteq C) => s \in C}

EngineInstantiates(t) ==
  /\ engine = "V8" /\ Idle /\ t \in made
  /\ sealed' = Seal(t)
  /\ used' = used \cup Publishes(t)
  /\ UNCHANGED <<engine, made, parent, shape, entries, caches, stack, failures>>

-----------------------------------------------------------------------------
(* Instantiating on SpiderMonkey.                                          *)
Top == Last(stack)
Working(work, at) ==
  stack # <<>> /\ Top.work = work /\ Top.at = at
Advanced(frame) == Append(Front(stack), frame)
Calling(frame, callee) == Append(Advanced(frame), callee)
Moved(at) == [Top EXCEPT !.at = at]

(* A call that returns hands its caller what its target was given.         *)
Returned ==
  IF Len(stack) = 1 THEN <<>>
  ELSE LET caller == stack[Len(stack) - 1]
       IN Append(Front(Front(stack)),
                 IF Top.work = "apply" THEN [caller EXCEPT !.got = Top.got] ELSE caller)

Owner(t) == t[2]
InstanceOf(t) == t[1] \in {"function", "instance"}

(* Everything in progress gives up; what was cached stays cached.          *)
Torn ==
  [r \in Realms |-> [f \in Fns |->
    IF \E i \in 1 .. Len(stack) :
         /\ stack[i].work = "materialise" /\ stack[i].at \in {"own", "finish"}
         /\ stack[i].realm = r /\ stack[i].tpl = F(f)
    THEN "torn" ELSE ctor[r][f]]]

GiveUp ==
  /\ stack' = <<>> /\ ctor' = Torn
  /\ UNCHANGED <<engine, declared, used, builds, shared, model>>

Fail ==
  /\ ~Idle /\ failures < MaxFailures
  /\ failures' = failures + 1
  /\ GiveUp

TemplateGetFunction(f, r) ==
  /\ engine = "SpiderMonkey" /\ Idle
  /\ stack' = <<Frame("materialise", F(f), r)>>
  /\ UNCHANGED <<engine, declared, used, caches, failures>>

TemplateNewInstance(t, r) ==
  /\ engine = "SpiderMonkey" /\ Idle /\ t \in made
  /\ stack' = <<Frame("instance", t, r)>>
  /\ UNCHANGED <<engine, declared, used, caches, failures>>

(* Mutant: only a finished constructor is found in the cache.              *)
CachedWhenWhole ==
  LET c == ctor[Top.realm][Owner(Top.tpl)] IN IF c = "building" THEN "none" ELSE c
Cached == ctor[Top.realm][Owner(Top.tpl)]

(* Materialise: a cached constructor is the answer, but one with no        *)
(* prototype in the cache is refused.                                      *)
MaterialiseStart ==
  /\ Working("materialise", "start")
  /\ sealed' = Seal(Top.tpl)
  /\ CASE Cached = "none" ->
            stack' = LET p == parent[Owner(Top.tpl)]
                     IN IF p = NoParent THEN Advanced(Moved("make"))
                        ELSE Calling(Moved("make"),
                                     Frame("materialise", F(p), Top.realm))
       [] Cached = "half stored" -> stack' = <<>>
       [] OTHER -> stack' = Returned
  /\ ctor' = IF Cached = "half stored" THEN Torn ELSE ctor
  /\ UNCHANGED <<engine, made, parent, shape, entries, used, builds, shared,
                 model, failures>>

(* The function is stored, and its prototype next: while the parent was    *)
(* materialised another may have been, whose prototype is there already.   *)
MaterialiseMake ==
  /\ Working("materialise", "make")
  /\ ctor' = [ctor EXCEPT ![Top.realm][Owner(Top.tpl)] =
                IF @ = "none" THEN "half stored" ELSE "mixed"]
  /\ builds' = [builds EXCEPT ![Top.realm][Owner(Top.tpl)] = @ + 1]
  /\ used' = used \cup {Top.tpl}
  /\ stack' = Advanced(Moved("store"))
  /\ UNCHANGED <<engine, declared, shared, model, failures>>

(* Stored before its members are defined, for they may mention it.         *)
MaterialiseStore ==
  /\ Working("materialise", "store")
  /\ ctor' = [ctor EXCEPT ![Top.realm][Owner(Top.tpl)] = "building"]
  /\ LET p == Prototype(Owner(Top.tpl))
     IN IF p \in made
        THEN /\ stack' = Calling(Moved("own"), Frame("apply", p, Top.realm))
             /\ used' = used \cup {p}
        ELSE stack' = Advanced(Moved("own")) /\ UNCHANGED used
  /\ UNCHANGED <<engine, declared, builds, shared, model, failures>>

MaterialiseOwn ==
  /\ Working("materialise", "own")
  /\ stack' = Calling(Moved("finish"), Frame("apply", Top.tpl, Top.realm))
  /\ UNCHANGED <<engine, declared, used, caches, failures>>

(* Mutant: the constructor is not in the cache afterwards.                 *)
MaterialiseForgets ==
  /\ Working("materialise", "finish")
  /\ ctor' = [ctor EXCEPT ![Top.realm][Owner(Top.tpl)] = "none"]
  /\ stack' = Returned
  /\ UNCHANGED <<engine, declared, used, builds, shared, model, failures>>

MaterialiseFinish ==
  /\ Working("materialise", "finish")
  /\ ctor' = [ctor EXCEPT ![Top.realm][Owner(Top.tpl)] = "whole"]
  /\ stack' = Returned
  /\ UNCHANGED <<engine, declared, used, builds, shared, model, failures>>

(* ApplyEntries: the realm's shared functions first, made again whole when *)
(* they were made for another number of entries; then entry after entry.   *)
IsShared(entry) == entry.kind \in {"method", "accessor"}
HasSharedFunctions(t) == \E i \in 1 .. Len(entries[t]) : IsShared(entries[t][i])

SharedFunctions(r, t) == Len(entries[t])

ApplyStart ==
  /\ Working("apply", "start")
  /\ shared' = IF HasSharedFunctions(Top.tpl)
               THEN [shared EXCEPT ![Top.realm][Top.tpl] =
                       SharedFunctions(Top.realm, Top.tpl)]
               ELSE shared
  /\ stack' = Advanced(Moved("entries"))
  /\ UNCHANGED <<engine, declared, used, ctor, builds, model, failures>>

ApplyEntry ==
  /\ Working("apply", "entries") /\ Top.n < Len(entries[Top.tpl])
  /\ LET entry == entries[Top.tpl][Top.n + 1]
         given == ~IsShared(entry) \/ Top.n < shared[Top.realm][Top.tpl]
         next == [Top EXCEPT !.n = @ + 1, !.got = IF given THEN @ + 1 ELSE @]
         work == IF entry.child[1] = "function" THEN "materialise" ELSE "instance"
     IN stack' = IF entry.kind = "child"
                 THEN Calling(next, Frame(work, entry.child, Top.realm))
                 ELSE Advanced(next)
  /\ UNCHANGED <<engine, declared, used, caches, failures>>

ApplyDone ==
  /\ Working("apply", "entries") /\ Top.n = Len(entries[Top.tpl])
  /\ stack' = Returned
  /\ UNCHANGED <<engine, declared, used, caches, failures>>

(* NewInstanceOf: a function template's instance has the shape of its      *)
(* instance template, if it has one; an instance template's has the        *)
(* prototype of its function template.                                     *)
ShapeOf(t) == IF t[1] = "function" THEN Instance(Owner(t)) ELSE t

InstanceStart ==
  /\ Working("instance", "start")
  /\ sealed' = Seal(Top.tpl)
  /\ stack' = IF InstanceOf(Top.tpl)
              THEN Calling(Moved("make"),
                           Frame("materialise", F(Owner(Top.tpl)), Top.realm))
              ELSE Advanced(Moved("make"))
  /\ UNCHANGED <<engine, made, parent, shape, entries, used, caches, failures>>

(* A class's instances are stamped from a model when they all come out the *)
(* same: not an intercepted one, a subclass's, or one with nested objects. *)
CanStampFromModel(s) == \A i \in 1 .. Len(entries[s]) : entries[s][i].kind # "child"
Stamps(t) ==
  InstanceOf(t) /\ Owner(t) \in Classes /\ CanStampFromModel(ShapeOf(t))

InstanceMake ==
  /\ Working("instance", "make")
  /\ LET s == ShapeOf(Top.tpl)
     IN IF s \notin made
        THEN stack' = Advanced(Moved("finish")) /\ UNCHANGED used
        ELSE /\ used' = used \cup {s}
             /\ \/ /\ Stamps(Top.tpl)
                   /\ stack' = Advanced(Moved("stamp"))
                \/ stack' = Calling(Moved("finish"), Frame("apply", s, Top.realm))
  /\ UNCHANGED <<engine, declared, caches, failures>>

(* Mutant: a model is used whatever was declared since.                    *)
AnyModel(r, s) == model[r][s] >= 0
ModelFor(r, s) == model[r][s] = Len(entries[s])

InstanceStamp ==
  /\ Working("instance", "stamp")
  /\ LET s == ShapeOf(Top.tpl)
     IN stack' = IF ModelFor(Top.realm, s)
                 THEN Advanced([Top EXCEPT !.at = "finish",
                                           !.got = model[Top.realm][s]])
                 ELSE Calling(Moved("modelled"), Frame("apply", s, Top.realm))
  /\ UNCHANGED <<engine, declared, used, caches, failures>>

InstanceModelled ==
  /\ Working("instance", "modelled")
  /\ model' = [model EXCEPT ![Top.realm][ShapeOf(Top.tpl)] = Top.got]
  /\ stack' = Advanced(Moved("finish"))
  /\ UNCHANGED <<engine, declared, used, ctor, builds, shared, failures>>

InstanceFinish ==
  /\ Working("instance", "finish")
  /\ stack' = Returned
  /\ UNCHANGED <<engine, declared, used, caches, failures>>

-----------------------------------------------------------------------------
Declaring ==
  \/ \E t \in T : TemplateSetConstant(t) \/ TemplateSetMethod(t)
  \/ \E t \in T : TemplateSetSymbolMethod(t) \/ TemplateSetAccessor(t)
  \/ \E t, value \in T : TemplateSetTemplate(t, value)
  \/ \E f \in Fns : TemplatePrototype(f) \/ TemplateInstance(f)
  \/ \E t \in T : SetShape(t)
  \/ \E f, p \in Fns : TemplateInherit(f, p)

Calls ==
  \/ \E t \in T : EngineInstantiates(t)
  \/ \E f \in Fns, r \in Realms : TemplateGetFunction(f, r)
  \/ \E t \in T, r \in Realms : TemplateNewInstance(t, r)

Step ==
  \/ MaterialiseStart \/ MaterialiseMake \/ MaterialiseStore
  \/ MaterialiseOwn \/ MaterialiseFinish
  \/ ApplyStart \/ ApplyEntry \/ ApplyDone
  \/ InstanceStart \/ InstanceMake \/ InstanceStamp \/ InstanceModelled
  \/ InstanceFinish

Next == Declaring \/ Calls \/ Step \/ Fail

Spec == Init /\ [][Next]_vars
-----------------------------------------------------------------------------
(* Whatever anything was built from is sealed, and so is what comes with   *)
(* it, although Seal does not look behind a template that is sealed.       *)
UsedIsSealed ==
  /\ used \subseteq sealed
  /\ \A t \in sealed : Reaches(t) \subseteq sealed

(* A shape, once something has been built from it or could come to be      *)
(* built with it, never changes: every realm's objects have the same one,  *)
(* and V8 is never asked to change a template it has published.            *)
ShapeIsFixed ==
  [][/\ \A t \in used : shape'[t] = shape[t]
     /\ \A f \in Fns : F(f) \in used => parent'[f] = parent[f]]_vars

(* What is finished has every member declared by then, however it came by  *)
(* them: replayed, from functions cached for fewer members, or stamped     *)
(* from a model made before some were declared.                            *)
FinishedIsWhole ==
  \A i \in 1 .. Len(stack) :
    LET fr == stack[i]
        t == IF fr.work = "instance" THEN ShapeOf(fr.tpl) ELSE fr.tpl
    IN fr.at = "finish" /\ i = Len(stack) =>
         fr.got = IF t \in made THEN Len(entries[t]) ELSE 0

(* A realm makes one constructor of a template: a second only when the     *)
(* template's parent has it, however far down, among its members, for the  *)
(* parent is instantiated before the constructor is stored.                *)
OneConstructor ==
  \A r \in Realms, f \in Fns :
    builds[r][f] > 1 =>
      \E g \in Fns : parent[f] = g /\ F(f) \in Publishes(F(g))

(* A constructor that could not be finished is not handed out: a later     *)
(* request is refused, as when its prototype could not be stored.  Refuted *)
(* by any failure once both are stored, or one of a second constructor's   *)
(* prototype with the first one's in the cache.                            *)
NoHalfConstructor ==
  \A r \in Realms, f \in Fns :
    ctor[r][f] # "torn" /\ (Idle => ctor[r][f] # "mixed")

(* Templates that mention themselves, in any way the rules of declaring    *)
(* allow, are instantiated all the same: no constructor's members are      *)
(* defined inside their own defining, and an object template's are only    *)
(* when a constructor began in between, which happens once.                *)
Defining(i) == stack[i].work = "materialise" /\ stack[i].at \in {"own", "finish"}

NoEndlessNesting ==
  \A i, j \in 1 .. Len(stack) :
    i < j /\ stack[i].work = stack[j].work /\ stack[i].tpl = stack[j].tpl =>
      /\ ~(Defining(i) /\ Defining(j))
      /\ stack[i].work = "apply" => \E k \in i .. j : Defining(k)

=============================================================================
