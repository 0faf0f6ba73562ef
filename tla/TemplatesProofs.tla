---------------------------- MODULE TemplatesProofs ----------------------------
(***************************************************************************)
(* Proofs about sealing and about the recursion that instantiates, for any *)
(* templates, any rules of declaring them, any realms and any number of    *)
(* members, on both backends.                                              *)
(***************************************************************************)
EXTENDS Templates, QueueLemmas

-----------------------------------------------------------------------------
(* The calls in progress.  A constructor is materialised of a function     *)
(* template, and a call that is past its first step has sealed what it     *)
(* works on.                                                               *)
Frames == [work : Works, tpl : T, realm : Realms, at : Stages, n : Nat, got : Nat]

Sound(seals) ==
  {fr \in Frames :
     /\ fr.work = "materialise" => fr.tpl[1] = "function"
     /\ fr.work # "apply" /\ fr.at # "start" => fr.tpl \in seals
     /\ fr.at \in {"stamp", "modelled"} => ShapeOf(fr.tpl) \in T}

StackOK == stack \in Seq(Sound(sealed))

(* A member that is a template names one; nothing was declared on one that *)
(* does not exist yet.                                                     *)
EntriesOK ==
  \A t \in T :
    /\ \A i \in 1 .. Len(entries[t]) :
         entries[t][i].kind = "child" => entries[t][i].child \in T
    /\ t \notin made => entries[t] = <<>>

IInv ==
  /\ TypeOK
  /\ EntriesOK
  /\ StackOK
  /\ UsedIsSealed

-----------------------------------------------------------------------------
(* Names.                                                                  *)
LEMMA Names ==
  /\ \A f \in Fns : F(f) \in T
  /\ \A t \in T : /\ t[1] = "function" => t[2] \in Fns /\ t = F(t[2])
                  /\ t[1] = "instance" => t[2] \in Fns /\ t = Instance(t[2])
                  /\ t[1] = "prototype" => t[2] \in Fns
                  /\ t[1] \in {"function", "instance", "prototype", "object"}
  /\ OnDemand \subseteq T /\ Nothing \notin T
<1>1. \A f \in Fns : F(f) \in T
  BY DEF T
<1>2. ASSUME NEW t \in OnDemand
      PROVE  \E f \in Fns : t = <<"prototype", f>> \/ t = <<"instance", f>>
  <2>1. PICK f \in Fns : t \in {Prototype(f), Instance(f)}
    BY EndingAssumption
  <2> QED
    BY <2>1 DEF Prototype, Instance
<1>3. ASSUME NEW t \in T
      PROVE  \/ \E f \in Fns : t = <<"function", f>>
             \/ \E f \in Fns : t = <<"prototype", f>> \/ t = <<"instance", f>>
             \/ \E o \in Objs : t = <<"object", o>>
  BY <1>2 DEF T, ObjectTemplates, F
<1>4. ASSUME NEW t \in T
      PROVE  /\ t[1] = "function" => t[2] \in Fns /\ t = F(t[2])
             /\ t[1] = "instance" => t[2] \in Fns /\ t = Instance(t[2])
             /\ t[1] = "prototype" => t[2] \in Fns
             /\ t[1] \in {"function", "instance", "prototype", "object"}
  BY <1>3 DEF F, Instance
<1>5. Nothing \notin T
  BY <1>4 DEF Nothing
<1>6. OnDemand \subseteq T
  BY DEF T, ObjectTemplates
<1> QED
  BY <1>1, <1>4, <1>5, <1>6

(* What a template reaches is a template.                                  *)
LEMMA ReachesType == ASSUME TypeOK, NEW t \in T PROVE Reaches(t) \subseteq T
<1>1. Children(t) \subseteq T
  <2>1. entries[t] \in Seq([kind : EntryKinds, child : T \cup {Nothing}])
    BY DEF TypeOK
  <2>2. \A i \in 1 .. Len(entries[t]) :
          entries[t][i] \in [kind : EntryKinds, child : T \cup {Nothing}]
    BY <2>1, ElementOfSeq
  <2> QED
    BY <2>2 DEF Children
<1>2. \A p \in {parent[t[2]]} \ {NoParent} : t[1] = "function" => F(p) \in T
  <2> SUFFICES ASSUME t[1] = "function", parent[t[2]] # NoParent
               PROVE  F(parent[t[2]]) \in T
    OBVIOUS
  <2>1. t[2] \in Fns
    BY Names
  <2>2. parent[t[2]] \in Fns
    BY <2>1 DEF TypeOK
  <2> QED
    BY <2>2, Names
<1>3. t[1] \in {"prototype", "instance"} => F(t[2]) \in T
  BY Names
<1>4. made \subseteq T
  BY DEF TypeOK
<1> QED
  BY <1>1, <1>2, <1>3, <1>4 DEF Reaches

(* Sealing adds, seals what it was asked to, and leaves nothing that a     *)
(* sealed template reaches behind.                                         *)
LEMMA SealFacts ==
  ASSUME TypeOK, UsedIsSealed, NEW t \in T
  PROVE  /\ t \in Seal(t) /\ sealed \subseteq Seal(t) /\ Seal(t) \subseteq T
         /\ \A s \in Seal(t) : Reaches(s) \subseteq Seal(t)
<1> DEFINE Closes(C) == /\ t \in C \cup sealed
                        /\ \A c \in C : Reaches(c) \subseteq C \cup sealed
<1>1. Seal(t) = {s \in T : \A C \in SUBSET (T \ sealed) : Closes(C) => s \in C \cup sealed}
  <2>1. \A C \in SUBSET (T \ sealed) : \A c \in C : [s \in T |-> Reaches(s)][c] = Reaches(c)
    OBVIOUS
  <2> QED
    BY <2>1 DEF Seal
<1>2. sealed \subseteq T
  BY DEF TypeOK
<1>3. ASSUME NEW s \in Seal(t), NEW x \in Reaches(s) PROVE x \in Seal(t)
  <2>1. x \in T /\ s \in T
    BY <1>1, <1>3, ReachesType
  <2>2. ASSUME NEW C \in SUBSET (T \ sealed), Closes(C) PROVE x \in C \cup sealed
    BY <1>1, <1>3, <2>2 DEF UsedIsSealed
  <2> QED
    BY <1>1, <2>1, <2>2
<1> QED
  BY <1>1, <1>2, <1>3

(* What V8 publishes is what sealing seals, at most.                       *)
LEMMA PublishedIsSealed ==
  ASSUME TypeOK, UsedIsSealed, NEW t \in T
  PROVE  Publishes(t) \subseteq Seal(t)
<1> DEFINE C == Seal(t)
<1>1. C \in SUBSET T /\ t \in C /\ \A c \in C : Reaches(c) \subseteq C
  BY SealFacts
<1> HIDE DEF C
<1>2. \A c \in C : [s \in T |-> Reaches(s)][c] \subseteq C
  BY <1>1
<1> QED
  BY <1>1, <1>2 DEF Publishes, C

LEMMA InitIInv == Init => IInv
<1> SUFFICES ASSUME Init PROVE IInv
  OBVIOUS
<1>1. TypeOK
  <2>1. stack \in Seq(Frames)
    BY EmptySeq DEF Init
  <2>2. entries \in [T -> Seq([kind : EntryKinds, child : T \cup {Nothing}])]
    BY EmptySeq DEF Init
  <2>3. made \subseteq T /\ engine \in {"V8", "SpiderMonkey"} /\ failures \in 0 .. MaxFailures
    BY EngineAssumption, TemplatesBounds DEF Init
  <2>4. /\ parent \in [Fns -> Fns \cup {NoParent}] /\ shape \in [T -> Nat]
        /\ sealed \subseteq T /\ used \subseteq T
    BY DEF Init
  <2>5. /\ ctor \in [Realms -> [Fns -> CtorStates]]
        /\ builds \in [Realms -> [Fns -> Nat]]
        /\ shared \in [Realms -> [T -> Nat]]
        /\ model \in [Realms -> [T -> Nat \cup {-1}]]
    BY DEF Init, CtorStates
  <2> QED
    BY <2>1, <2>2, <2>3, <2>4, <2>5 DEF TypeOK, Frames
<1>2. EntriesOK /\ UsedIsSealed
  BY EmptySeq DEF Init, EntriesOK, UsedIsSealed
<1>3. StackOK
  BY EmptySeq DEF Init, StackOK
<1> QED
  BY <1>1, <1>2, <1>3 DEF IInv

-----------------------------------------------------------------------------
(* Declaring.                                                              *)
(* A change that leaves what is reached from what is sealed alone.         *)
LEMMA EntryAdded ==
  ASSUME IInv, NEW t \in T, NEW e \in [kind : EntryKinds, child : T \cup {Nothing}],
         e.kind = "child" => e.child \in T, AddEntry(t, e)
  PROVE  /\ entries' \in [T -> Seq([kind : EntryKinds, child : T \cup {Nothing}])]
         /\ EntriesOK'
         /\ \A s \in T \ {t} : Reaches(s)' = Reaches(s)
         /\ Reaches(t)' = Reaches(t) \cup ({e.child} \ {Nothing})
<1> DEFINE Es == [kind : EntryKinds, child : T \cup {Nothing}]
           n == Len(entries[t])
<1>1. /\ entries \in [T -> Seq(Es)] /\ t \in made
      /\ entries' = [entries EXCEPT ![t] = Append(@, e)]
      /\ made' = made /\ parent' = parent
  BY DEF IInv, TypeOK, AddEntry
<1>2. entries[t] \in Seq(Es) /\ e \in Es
  BY <1>1
<1> HIDE DEF Es
<1>3. /\ entries'[t] \in Seq(Es) /\ Len(entries'[t]) = n + 1 /\ n \in Nat
      /\ entries'[t][n + 1] = e
      /\ \A i \in 1 .. n : entries'[t][i] = entries[t][i]
  BY <1>1, <1>2, AppendFacts, LenProperties
<1>4. \A s \in T \ {t} : entries'[s] = entries[s]
  BY <1>1
<1> HIDE DEF n
<1>5. Children(t)' = Children(t) \cup ({e.child} \ {Nothing})
  <2>1. \A i : i \in 1 .. n + 1 <=> i \in 1 .. n \/ i = n + 1
    BY <1>3
  <2>2. Children(t) = {entries[t][i].child : i \in 1 .. n} \ {Nothing}
    BY DEF Children, n
  <2>3. Children(t)' = {entries'[t][i].child : i \in 1 .. n + 1} \ {Nothing}
    BY <1>3 DEF Children
  <2>4. ASSUME NEW x
        PROVE  (\E i \in 1 .. n + 1 : x = entries'[t][i].child)
                 <=> (\E i \in 1 .. n : x = entries[t][i].child) \/ x = e.child
    BY <1>3, <2>1
  <2> QED
    BY <2>2, <2>3, <2>4
<1>6. \A s \in T \ {t} : Children(s)' = Children(s)
  BY <1>4 DEF Children
<1>7. \A s \in T \ {t} : Reaches(s)' = Reaches(s)
  BY <1>1, <1>6 DEF Reaches
<1>8. Reaches(t)' = Reaches(t) \cup ({e.child} \ {Nothing})
  BY <1>1, <1>5 DEF Reaches
<1>9. entries' \in [T -> Seq(Es)]
  BY <1>1, <1>3, <1>4
<1>10. EntriesOK'
  <2>1. \A i \in 1 .. Len(entries'[t]) :
          entries'[t][i].kind = "child" => entries'[t][i].child \in T
    BY <1>3 DEF n, IInv, EntriesOK
  <2> QED
    BY <1>1, <1>4, <2>1 DEF IInv, EntriesOK
<1> QED
  BY <1>7, <1>8, <1>9, <1>10 DEF Es

(* Everything a declaration leaves alone.                                  *)
LEMMA Declared ==
  ASSUME IInv, UNCHANGED <<engine, used, caches, stack, failures>>,
         made' \subseteq T, sealed \subseteq sealed', sealed' \subseteq T,
         parent' \in [Fns -> Fns \cup {NoParent}], shape' \in [T -> Nat],
         entries' \in [T -> Seq([kind : EntryKinds, child : T \cup {Nothing}])],
         EntriesOK',
         \A s \in sealed' : Reaches(s)' \subseteq sealed'
  PROVE  IInv'
<1>1. TypeOK'
  BY DEF IInv, TypeOK, caches
<1>2. Sound(sealed) \subseteq Sound(sealed)'
  BY DEF Sound
<1>3. StackOK'
  <2>1. \A i \in 1 .. Len(stack) : stack[i] \in Sound(sealed)'
    BY <1>2, ElementOfSeq DEF IInv, StackOK
  <2> QED
    BY <2>1 DEF IInv, StackOK
<1> QED
  BY <1>1, <1>3 DEF IInv, UsedIsSealed

LEMMA DeclaringIInv == ASSUME IInv, Declaring PROVE IInv'
<1>0. /\ TypeOK /\ EntriesOK /\ UsedIsSealed
      /\ sealed \subseteq T /\ made \subseteq T
      /\ parent \in [Fns -> Fns \cup {NoParent}] /\ shape \in [T -> Nat]
      /\ entries \in [T -> Seq([kind : EntryKinds, child : T \cup {Nothing}])]
  BY DEF IInv, TypeOK
<1>s. \A s \in sealed : s \in T /\ Reaches(s) \subseteq sealed
  BY <1>0 DEF UsedIsSealed
<1>1. ASSUME NEW t \in T, NEW kind \in PlainKinds, AddEntry(t, Entry(kind, Nothing)),
             UNCHANGED sealed
      PROVE  IInv'
  <2> DEFINE e == Entry(kind, Nothing)
  <2>1. /\ e \in [kind : EntryKinds, child : T \cup {Nothing}]
        /\ e.kind # "child" /\ e.child = Nothing
    BY DEF Entry, EntryKinds, PlainKinds
  <2> HIDE DEF e
  <2>2. AddEntry(t, e)
    BY <1>1 DEF e
  <2>3. \A s \in T : Reaches(s)' = Reaches(s)
    BY <2>1, <2>2, EntryAdded
  <2>4. /\ UNCHANGED <<engine, used, caches, stack, failures, made, parent, shape>>
        /\ sealed' = sealed
    BY <1>1, <2>2 DEF AddEntry
  <2>5. \A s \in sealed' : Reaches(s)' \subseteq sealed'
    BY <2>3, <2>4, <1>s
  <2>6. /\ entries' \in [T -> Seq([kind : EntryKinds, child : T \cup {Nothing}])]
        /\ EntriesOK'
    BY <2>1, <2>2, EntryAdded
  <2> QED
    BY <2>4, <2>5, <2>6, <1>0, Declared
<1>2. ASSUME NEW t \in T, NEW value \in T, TemplateSetTemplate(t, value) PROVE IInv'
  <2> DEFINE e == Entry("child", value)
  <2>1. /\ e \in [kind : EntryKinds, child : T \cup {Nothing}]
        /\ e.child = value /\ value # Nothing
    BY Names DEF Entry, EntryKinds
  <2> HIDE DEF e
  <2>2. AddEntry(t, e) /\ sealed' = IF t \in sealed THEN Seal(value) ELSE sealed
    BY <1>2 DEF TemplateSetTemplate, e
  <2>3. /\ \A s \in T \ {t} : Reaches(s)' = Reaches(s)
        /\ Reaches(t)' = Reaches(t) \cup {value}
        /\ entries' \in [T -> Seq([kind : EntryKinds, child : T \cup {Nothing}])]
        /\ EntriesOK'
    <3>1. {e.child} \ {Nothing} = {value} /\ e.child \in T
      BY <2>1
    <3> QED
      BY <2>1, <2>2, <3>1, EntryAdded
  <2>4. UNCHANGED <<engine, used, caches, stack, failures, made, parent, shape>>
    BY <2>2 DEF AddEntry
  <2>5. /\ sealed \subseteq sealed' /\ sealed' \subseteq T
        /\ \A s \in sealed' : Reaches(s) \subseteq sealed'
        /\ t \in sealed' => value \in sealed'
    BY <2>2, <1>0, <1>s, SealFacts
  <2>6. \A s \in sealed' : Reaches(s)' \subseteq sealed'
    BY <2>3, <2>5
  <2> QED
    BY <2>3, <2>4, <2>5, <2>6, <1>0, Declared
<1>3. ASSUME NEW f \in Fns, NEW t, t \in {Prototype(f), Instance(f)}, TemplateNew(f, t)
      PROVE  IInv'
  <2>1. /\ t \in T /\ t \notin made /\ made' = made \cup {t}
        /\ sealed' = IF F(f) \in sealed THEN sealed \cup {t} ELSE sealed
        /\ UNCHANGED <<engine, parent, shape, entries, used, caches, stack, failures>>
    BY <1>3, Names DEF TemplateNew
  <2>2. t[1] \in {"prototype", "instance"} /\ t[2] = f /\ F(f) \in T
    BY <1>3, Names DEF Prototype, Instance
  <2>3. \A s \in T : Children(s)' = Children(s)
    BY <2>1 DEF Children
  <2>4. \A s \in T \ {F(f)} : Reaches(s)' = Reaches(s)
    <3> SUFFICES ASSUME NEW s \in T \ {F(f)} PROVE Reaches(s)' = Reaches(s)
      OBVIOUS
    <3>1. s[1] = "function" => t \notin {Prototype(s[2]), Instance(s[2])}
      <4> SUFFICES ASSUME s[1] = "function" PROVE s[2] # f
        BY <1>3, <2>2 DEF Prototype, Instance
      <4> QED
        BY Names
    <3> QED
      BY <2>1, <2>3, <3>1 DEF Reaches
  <2>5. Reaches(F(f))' \subseteq Reaches(F(f)) \cup {t}
    <3>1. F(f)[1] = "function" /\ F(f)[2] = f
      BY DEF F
    <3>2. Children(F(f))' = Children(F(f))
      BY <2>2, <2>3
    <3>3. /\ Reaches(F(f)) = Children(F(f)) \cup (made \cap {Prototype(f), Instance(f)})
                               \cup {F(p) : p \in {parent[f]} \ {NoParent}}
          /\ Reaches(F(f))' = Children(F(f)) \cup (made' \cap {Prototype(f), Instance(f)})
                                \cup {F(p) : p \in {parent[f]} \ {NoParent}}
      BY <2>1, <3>1, <3>2 DEF Reaches
    <3> QED
      BY <2>1, <3>3
  <2>6. Reaches(t)' = {F(f)}
    <3>1. Children(t)' = {}
      BY <2>1, <1>0, EmptySeq DEF Children, EntriesOK
    <3> QED
      BY <3>1, <2>2 DEF Reaches
  <2>7. sealed \subseteq sealed' /\ sealed' \subseteq T
    BY <2>1, <1>0
  <2>8. ASSUME NEW s \in sealed' PROVE Reaches(s)' \subseteq sealed'
    <3>1. CASE s = t
      <4>1. F(f) # t
        BY <2>2 DEF F
      <4>2. CASE F(f) \in sealed
        BY <2>6, <2>7, <3>1, <4>2
      <4>3. CASE F(f) \notin sealed
        <5>1. t \in sealed
          BY <2>1, <3>1, <4>3, <2>8
        <5>2. Reaches(t)' = Reaches(t)
          BY <2>1, <2>4, <4>1
        <5> QED
          BY <5>1, <5>2, <1>s, <2>7, <3>1
      <4> QED
        BY <4>2, <4>3
    <3>2. CASE s = F(f) /\ s # t
      BY <3>2, <2>1, <2>5, <2>8, <1>s
    <3>3. CASE s # F(f) /\ s # t
      <4>1. s \in sealed
        BY <3>3, <2>1, <2>8
      <4> QED
        BY <4>1, <3>3, <2>4, <2>7, <1>s
    <3> QED
      BY <3>1, <3>2, <3>3
  <2>9. EntriesOK'
    BY <2>1, <1>0 DEF EntriesOK
  <2> QED
    BY <2>1, <2>7, <2>8, <2>9, <1>0, Declared
<1>4. ASSUME NEW t \in T, SetShape(t) PROVE IInv'
  <2>1. /\ UNCHANGED <<engine, used, caches, stack, failures, made, sealed, parent,
                       entries>>
        /\ shape' \in [T -> Nat]
    BY <1>4, <1>0 DEF SetShape
  <2>2. \A s \in T : Reaches(s)' = Reaches(s)
    BY <2>1 DEF Reaches, Children
  <2>3. EntriesOK'
    BY <2>1, <1>0 DEF EntriesOK
  <2> QED
    BY <2>1, <2>2, <2>3, <1>0, <1>s, Declared
<1>5. ASSUME NEW f \in Fns, NEW p \in Fns, TemplateInherit(f, p) PROVE IInv'
  <2>1. /\ UNCHANGED <<engine, used, caches, stack, failures, made, sealed, shape,
                       entries>>
        /\ parent' = [parent EXCEPT ![f] = p] /\ F(f) \notin sealed
    BY <1>5 DEF TemplateInherit
  <2>2. ASSUME NEW s \in sealed PROVE Reaches(s)' = Reaches(s)
    <3>1. s[1] = "function" => s[2] \in Fns /\ s[2] # f
      BY <2>1, <2>2, <1>0, Names
    <3>2. s[1] = "function" => parent'[s[2]] = parent[s[2]]
      BY <2>1, <3>1, <1>0
    <3> QED
      BY <2>1, <3>2 DEF Reaches, Children
  <2>3. EntriesOK'
    BY <2>1, <1>0 DEF EntriesOK
  <2>4. parent' \in [Fns -> Fns \cup {NoParent}]
    BY <2>1, <1>0
  <2> QED
    BY <2>1, <2>2, <2>3, <2>4, <1>0, <1>s, Declared
<1>6. ASSUME NEW t \in T,
             \/ TemplateSetConstant(t) \/ TemplateSetMethod(t)
             \/ TemplateSetSymbolMethod(t) \/ TemplateSetAccessor(t)
      PROVE  IInv'
  BY <1>6, <1>1 DEF TemplateSetConstant, TemplateSetMethod, TemplateSetSymbolMethod,
     TemplateSetAccessor, PlainKinds
<1>7. ASSUME NEW f \in Fns, TemplatePrototype(f) \/ TemplateInstance(f) PROVE IInv'
  BY <1>7, <1>3 DEF TemplatePrototype, TemplateInstance
<1> QED
  BY <1>2, <1>4, <1>5, <1>6, <1>7 DEF Declaring

-----------------------------------------------------------------------------
(* The calls in progress, from one step to the next.                       *)
LEMMA SeqWider ==
  ASSUME NEW A, NEW B, A \subseteq B, NEW s \in Seq(A)
  PROVE  s \in Seq(B)
<1>1. \A i \in 1 .. Len(s) : s[i] \in B
  BY ElementOfSeq
<1> QED
  BY <1>1

LEMMA SoundGrows ==
  ASSUME NEW S, NEW S2, S \subseteq S2, NEW s \in Seq(Sound(S))
  PROVE  s \in Seq(Sound(S2))
<1>1. Sound(S) \subseteq Sound(S2)
  BY DEF Sound
<1> QED
  BY <1>1, SeqWider

LEMMA StackMoves ==
  ASSUME NEW B, stack \in Seq(B), stack # <<>>
  PROVE  /\ Top \in B
         /\ \A frame \in B : Advanced(frame) \in Seq(B)
         /\ \A frame, callee \in B : Calling(frame, callee) \in Seq(B)
<1>1. Front(stack) \in Seq(B) /\ stack[Len(stack)] \in B
  BY Popped
<1>2. \A frame \in B : Advanced(frame) \in Seq(B)
  BY <1>1, AppendFacts DEF Advanced
<1>3. \A frame, callee \in B : Calling(frame, callee) \in Seq(B)
  <2> SUFFICES ASSUME NEW frame \in B, NEW callee \in B
               PROVE  Calling(frame, callee) \in Seq(B)
    OBVIOUS
  <2> DEFINE s == Advanced(frame)
  <2>1. s \in Seq(B)
    BY <1>2
  <2> HIDE DEF s
  <2>2. Append(s, callee) \in Seq(B)
    BY <2>1, AppendFacts
  <2> QED
    BY <2>2 DEF Calling, s
<1> QED
  BY <1>1, <1>2, <1>3 DEF Top, Last

LEMMA ReturnedOK ==
  ASSUME NEW S, stack \in Seq(Sound(S)), stack # <<>>
  PROVE  Returned \in Seq(Sound(S))
<1>1. CASE Len(stack) = 1
  BY <1>1, EmptySeq DEF Returned
<1>2. CASE Len(stack) # 1
  <2> DEFINE B == Sound(S)
             s == Front(stack)
             caller == stack[Len(stack) - 1]
             back == IF Top.work = "apply" THEN [caller EXCEPT !.got = Top.got] ELSE caller
  <2>1. /\ s \in Seq(B) /\ Len(s) = Len(stack) - 1 /\ Len(stack) \in Nat
        /\ Len(stack) >= 1 /\ Top \in B
    BY Popped DEF Top, Last
  <2>2. caller \in B
    BY <2>1, <1>2, ElementOfSeq
  <2>3. back \in B
    <3>1. [caller EXCEPT !.got = Top.got] \in B
      BY <2>1, <2>2 DEF Sound, Frames
    <3> QED
      BY <3>1, <2>2
  <2> HIDE DEF B, back
  <2>4. s # <<>>
    BY <2>1, <1>2, EmptySeq
  <2> HIDE DEF s
  <2>5. Front(s) \in Seq(B)
    BY <2>1, <2>4, Popped
  <2>6. Append(Front(s), back) \in Seq(B)
    BY <2>3, <2>5, AppendFacts
  <2> QED
    BY <2>6, <1>2 DEF Returned, B, s, back
<1> QED
  BY <1>1, <1>2

(* A step of a call changes no declaration, and seals at most.             *)
LEMMA Stepped ==
  ASSUME IInv, UNCHANGED <<engine, made, parent, shape, entries>>,
         sealed' = sealed \/ (\E t \in T : sealed' = Seal(t)),
         used' \subseteq sealed',
         ctor' \in [Realms -> [Fns -> CtorStates]],
         builds' \in [Realms -> [Fns -> Nat]],
         shared' \in [Realms -> [T -> Nat]],
         model' \in [Realms -> [T -> Nat \cup {-1}]],
         failures' \in 0 .. MaxFailures,
         stack' \in Seq(Sound(sealed'))
  PROVE  IInv'
<1>1. /\ \A s \in sealed' : Reaches(s) \subseteq sealed'
      /\ sealed' \subseteq T
  BY SealFacts DEF IInv, TypeOK, UsedIsSealed
<1>2. \A s \in sealed' : Reaches(s)' \subseteq sealed'
  <2>1. \A s : Reaches(s)' = Reaches(s)
    BY DEF Reaches, Children
  <2> QED
    BY <1>1, <2>1
<1>3. UsedIsSealed'
  BY <1>2 DEF UsedIsSealed
<1>4. stack' \in Seq(Frames)
  <2>1. Sound(sealed') \subseteq Frames
    BY DEF Sound
  <2> QED
    BY <2>1, SeqWider
<1>5. TypeOK'
  <2>1. used' \subseteq T
    BY <1>1
  <2> QED
    BY <1>1, <1>4, <2>1 DEF IInv, TypeOK, Frames
<1>6. EntriesOK'
  BY DEF IInv, EntriesOK
<1>7. StackOK'
  BY DEF StackOK
<1> QED
  BY <1>3, <1>5, <1>6, <1>7 DEF IInv

(* Frames a step makes.                                                    *)
LEMMA NewFrame ==
  ASSUME NEW work \in Works, NEW t \in T, NEW r \in Realms,
         work = "materialise" => t[1] = "function", NEW S
  PROVE  Frame(work, t, r) \in Sound(S)
  BY DEF Frame, Sound, Frames, Stages

LEMMA MovedFrame ==
  ASSUME NEW S, Top \in Sound(S), NEW at \in Stages,
         Top.work # "apply" => Top.tpl \in S,
         at \in {"stamp", "modelled"} => ShapeOf(Top.tpl) \in T
  PROVE  Moved(at) \in Sound(S)
  BY DEF Moved, Sound, Frames

(* What was being built is torn, and everything else as it was.            *)
LEMMA TornType ==
  ASSUME ctor \in [Realms -> [Fns -> CtorStates]]
  PROVE  Torn \in [Realms -> [Fns -> CtorStates]]
<1> DEFINE States == CtorStates
           Value(r, f) ==
             IF \E i \in 1 .. Len(stack) :
                  /\ stack[i].work = "materialise" /\ stack[i].at \in {"own", "finish"}
                  /\ stack[i].realm = r /\ stack[i].tpl = F(f)
             THEN "torn" ELSE ctor[r][f]
<1>1. \A r \in Realms, f \in Fns : ctor[r][f] \in States
  OBVIOUS
<1>2. "torn" \in States
  BY DEF CtorStates
<1>3. Torn = [r \in Realms |-> [f \in Fns |-> Value(r, f)]]
  BY DEF Torn
<1> HIDE DEF States
<1>4. \A r \in Realms, f \in Fns : Value(r, f) \in States
  BY <1>1, <1>2
<1> HIDE DEF Value
<1>5. \A r \in Realms : [f \in Fns |-> Value(r, f)] \in [Fns -> States]
  BY <1>4
<1> QED
  BY <1>3, <1>5 DEF States

LEMMA StepIInv == ASSUME IInv, Step PROVE IInv'
<1>0. /\ TypeOK /\ UsedIsSealed /\ EntriesOK
      /\ stack \in Seq(Sound(sealed))
      /\ ctor \in [Realms -> [Fns -> CtorStates]]
      /\ builds \in [Realms -> [Fns -> Nat]]
      /\ shared \in [Realms -> [T -> Nat]]
      /\ model \in [Realms -> [T -> Nat \cup {-1}]]
      /\ failures \in 0 .. MaxFailures
      /\ parent \in [Fns -> Fns \cup {NoParent}]
      /\ used \subseteq sealed /\ sealed \subseteq T
  BY DEF IInv, TypeOK, UsedIsSealed, StackOK
<1>1. stack # <<>>
  BY DEF Step, MaterialiseStart, MaterialiseMake, MaterialiseStore, MaterialiseOwn,
     MaterialiseFinish, ApplyStart, ApplyEntry, ApplyDone, InstanceStart, InstanceMake,
     InstanceStamp, InstanceModelled, InstanceFinish, Working
<1>t. /\ Top \in Sound(sealed)
      /\ Top.work \in Works /\ Top.tpl \in T /\ Top.realm \in Realms
      /\ Top.at \in Stages /\ Top.n \in Nat /\ Top.got \in Nat
      /\ Top.work = "materialise" => Top.tpl[1] = "function"
      /\ Top.work # "apply" /\ Top.at # "start" => Top.tpl \in sealed
      /\ Top.at \in {"stamp", "modelled"} => ShapeOf(Top.tpl) \in T
  <2>1. Top \in Sound(sealed)
    BY <1>0, <1>1, StackMoves
  <2> QED
    BY <2>1 DEF Sound, Frames
<1>o. Top.tpl[1] = "function" \/ InstanceOf(Top.tpl) =>
        Owner(Top.tpl) \in Fns /\ F(Owner(Top.tpl)) \in T
  BY <1>t, Names DEF Owner, InstanceOf
<1>f. \A f \in Fns : F(f)[1] = "function"
  BY DEF F
<1>m. /\ \A frame \in Sound(sealed) : Advanced(frame) \in Seq(Sound(sealed))
      /\ \A frame, callee \in Sound(sealed) : Calling(frame, callee) \in Seq(Sound(sealed))
      /\ Returned \in Seq(Sound(sealed))
      /\ <<>> \in Seq(Sound(sealed))
  BY <1>0, <1>1, StackMoves, ReturnedOK, EmptySeq
<1>s. /\ Seal(Top.tpl) \subseteq T /\ sealed \subseteq Seal(Top.tpl)
      /\ Top.tpl \in Seal(Top.tpl)
      /\ stack \in Seq(Sound(Seal(Top.tpl)))
      /\ Top \in Sound(Seal(Top.tpl))
  <2>1. /\ Seal(Top.tpl) \subseteq T /\ sealed \subseteq Seal(Top.tpl)
        /\ Top.tpl \in Seal(Top.tpl)
    BY <1>0, <1>t, SealFacts
  <2>2. stack \in Seq(Sound(Seal(Top.tpl)))
    BY <2>1, <1>0, SoundGrows
  <2> QED
    BY <2>1, <2>2, <1>1, StackMoves
<1>2. CASE MaterialiseStart
  <2> DEFINE S == Seal(Top.tpl)
  <2>1. /\ \A frame \in Sound(S) : Advanced(frame) \in Seq(Sound(S))
        /\ \A frame, callee \in Sound(S) : Calling(frame, callee) \in Seq(Sound(S))
        /\ Returned \in Seq(Sound(S)) /\ <<>> \in Seq(Sound(S))
    BY <1>s, <1>1, StackMoves, ReturnedOK, EmptySeq
  <2>2. /\ Top.work = "materialise" /\ sealed' = S
        /\ UNCHANGED <<engine, made, parent, shape, entries, used, builds, shared,
                       model, failures>>
        /\ ctor' = ctor \/ ctor' = Torn
    BY <1>2 DEF MaterialiseStart, Working
  <2>3. Moved("make") \in Sound(S)
    BY <1>s, MovedFrame DEF Stages
  <2>4. ASSUME parent[Owner(Top.tpl)] # NoParent
        PROVE  Frame("materialise", F(parent[Owner(Top.tpl)]), Top.realm) \in Sound(S)
    <3>1. parent[Owner(Top.tpl)] \in Fns
      BY <2>4, <2>2, <1>0, <1>t, <1>o
    <3> QED
      BY <3>1, <1>t, <1>f, Names, NewFrame DEF Works
  <2> HIDE DEF S
  <2>5. stack' \in Seq(Sound(S))
    BY <1>2, <2>1, <2>3, <2>4 DEF MaterialiseStart
  <2>6. ctor' \in [Realms -> [Fns -> CtorStates]]
    BY <2>2, <1>0, TornType
  <2>7. used' \subseteq sealed' /\ \E t \in T : sealed' = Seal(t)
    BY <2>2, <1>0, <1>s, <1>t DEF S
  <2> QED
    BY <2>2, <2>5, <2>6, <2>7, <1>0, Stepped
<1>3. CASE MaterialiseMake
  <2>1. Top.work = "materialise" /\ Top.tpl \in sealed /\ Owner(Top.tpl) \in Fns
    BY <1>3, <1>t, <1>o DEF MaterialiseMake, Working
  <2>2. Moved("store") \in Sound(sealed)
    BY <2>1, <1>t, MovedFrame DEF Stages
  <2>3. /\ stack' \in Seq(Sound(sealed)) /\ used' \subseteq sealed
        /\ UNCHANGED <<engine, made, parent, shape, entries, sealed, shared, model,
                       failures>>
    BY <1>3, <2>1, <2>2, <1>m, <1>0 DEF MaterialiseMake, declared
  <2>4. ctor' \in [Realms -> [Fns -> CtorStates]]
    BY <1>3, <2>1, <1>t, <1>0 DEF MaterialiseMake, CtorStates
  <2>5. builds' \in [Realms -> [Fns -> Nat]]
    <3> DEFINE own == builds[Top.realm]
               more == [own EXCEPT ![Owner(Top.tpl)] = @ + 1]
    <3>1. own \in [Fns -> Nat]
      BY <1>t, <1>0
    <3>2. more \in [Fns -> Nat]
      <4> HIDE DEF own
      <4> QED
        BY <3>1, <2>1
    <3>3. builds' = [builds EXCEPT ![Top.realm] = more]
      BY <1>3 DEF MaterialiseMake
    <3> HIDE DEF more
    <3> QED
      BY <3>2, <3>3, <1>t, <1>0
  <2> QED
    BY <2>3, <2>4, <2>5, <1>0, Stepped
<1>4. CASE MaterialiseStore
  <2>1. /\ Top.work = "materialise" /\ Top.tpl \in sealed /\ Owner(Top.tpl) \in Fns
        /\ Top.tpl[1] = "function"
    BY <1>4, <1>t, <1>o DEF MaterialiseStore, Working
  <2> DEFINE p == Prototype(Owner(Top.tpl))
  <2>2. Moved("own") \in Sound(sealed)
    BY <2>1, <1>t, MovedFrame DEF Stages
  <2>3. p \in made => p \in sealed
    BY <2>1, <1>0 DEF UsedIsSealed, Reaches, Owner
  <2>4. p \in made => Frame("apply", p, Top.realm) \in Sound(sealed)
    BY <2>3, <1>0, <1>t, NewFrame DEF Works
  <2>5. /\ stack' \in Seq(Sound(sealed)) /\ used' \subseteq sealed
    BY <1>4, <2>2, <2>3, <2>4, <1>m, <1>0 DEF MaterialiseStore
  <2>6. ctor' \in [Realms -> [Fns -> CtorStates]]
    BY <1>4, <2>1, <1>t, <1>0 DEF MaterialiseStore, CtorStates
  <2> QED
    BY <1>4, <2>5, <2>6, <1>0, Stepped DEF MaterialiseStore, declared
<1>5. CASE MaterialiseOwn
  <2>1. Moved("finish") \in Sound(sealed)
    BY <1>5, <1>t, MovedFrame DEF MaterialiseOwn, Working, Stages
  <2>2. Frame("apply", Top.tpl, Top.realm) \in Sound(sealed)
    BY <1>t, NewFrame DEF Works
  <2>3. stack' \in Seq(Sound(sealed))
    BY <1>5, <2>1, <2>2, <1>m DEF MaterialiseOwn
  <2> QED
    BY <1>5, <2>3, <1>0, Stepped DEF MaterialiseOwn, declared, caches
<1>6. CASE MaterialiseFinish
  <2>1. Top.work = "materialise" /\ Owner(Top.tpl) \in Fns
    BY <1>6, <1>t, <1>o DEF MaterialiseFinish, Working
  <2>2. ctor' \in [Realms -> [Fns -> CtorStates]]
    BY <1>6, <2>1, <1>t, <1>0 DEF MaterialiseFinish, CtorStates
  <2> QED
    BY <1>6, <2>2, <1>m, <1>0, Stepped DEF MaterialiseFinish, declared
<1>7. CASE ApplyStart
  <2>1. Top.work = "apply"
    BY <1>7 DEF ApplyStart, Working
  <2>2. Moved("entries") \in Sound(sealed)
    BY <2>1, <1>t, MovedFrame DEF Stages
  <2>3. Len(entries[Top.tpl]) \in Nat
    BY <1>0, <1>t, LenProperties DEF TypeOK
  <2>4. shared' \in [Realms -> [T -> Nat]]
    BY <1>7, <2>3, <1>0, <1>t DEF ApplyStart, SharedFunctions
  <2> QED
    BY <1>7, <2>2, <2>4, <1>m, <1>0, Stepped DEF ApplyStart, declared
<1>8. CASE ApplyEntry
  <2>1. Top.work = "apply"
    BY <1>8 DEF ApplyEntry, Working
  <2> DEFINE entry == entries[Top.tpl][Top.n + 1]
             work == IF entry.child[1] = "function" THEN "materialise" ELSE "instance"
  <2>2. PICK next \in {[Top EXCEPT !.n = @ + 1, !.got = @ + 1],
                       [Top EXCEPT !.n = @ + 1, !.got = @]} :
          stack' = IF entry.kind = "child"
                   THEN Calling(next, Frame(work, entry.child, Top.realm))
                   ELSE Advanced(next)
    <3> DEFINE given == ~IsShared(entry) \/ Top.n < shared[Top.realm][Top.tpl]
               next == [Top EXCEPT !.n = @ + 1, !.got = IF given THEN @ + 1 ELSE @]
    <3>1. stack' = IF entry.kind = "child"
                   THEN Calling(next, Frame(work, entry.child, Top.realm))
                   ELSE Advanced(next)
      BY <1>8 DEF ApplyEntry
    <3>2. next \in {[Top EXCEPT !.n = @ + 1, !.got = @ + 1],
                    [Top EXCEPT !.n = @ + 1, !.got = @]}
      BY Zenon
    <3> HIDE DEF next
    <3> QED
      BY <3>1, <3>2
  <2>3. next \in Sound(sealed)
    <3>1. Top.at = "entries"
      BY <1>8 DEF ApplyEntry, Working
    <3>2. ASSUME NEW n \in Nat, NEW got \in Nat
          PROVE  [Top EXCEPT !.n = n, !.got = got] \in Sound(sealed)
      <4> DEFINE fr == [Top EXCEPT !.n = n, !.got = got]
      <4>1. Top \in Frames /\ Top \in Sound(sealed)
        BY <2>1, <1>t DEF Sound
      <4>2. fr \in Frames /\ fr.work = Top.work /\ fr.tpl = Top.tpl /\ fr.at = Top.at
        BY <4>1 DEF Frames
      <4> HIDE DEF fr
      <4>3. fr \in Sound(sealed)
        BY <4>1, <4>2, <3>1 DEF Sound
      <4> QED
        BY <4>3 DEF fr
    <3>3. Top.n + 1 \in Nat /\ Top.got + 1 \in Nat
      BY <1>t
    <3>4. /\ [Top EXCEPT !.n = Top.n + 1, !.got = Top.got + 1] \in Sound(sealed)
          /\ [Top EXCEPT !.n = Top.n + 1, !.got = Top.got] \in Sound(sealed)
      BY <3>2, <3>3, <1>t
    <3> QED
      BY <2>2, <3>4
  <2>4. Top.n + 1 \in 1 .. Len(entries[Top.tpl])
    <3>1. Top.n < Len(entries[Top.tpl])
      BY <1>8 DEF ApplyEntry
    <3>2. Len(entries[Top.tpl]) \in Nat
      BY <1>0, <1>t, LenProperties DEF TypeOK
    <3> HIDE DEF entry
    <3> QED
      BY <3>1, <3>2, <1>t
  <2>5. entry.kind = "child" => entry.child \in T
    BY <2>4, <1>t, <1>0 DEF EntriesOK
  <2>6. entry.kind = "child" => Frame(work, entry.child, Top.realm) \in Sound(sealed)
    BY <2>5, <1>t, NewFrame DEF Works
  <2> HIDE DEF entry, work
  <2>7. stack' \in Seq(Sound(sealed))
    BY <2>2, <2>3, <2>6, <1>m
  <2> QED
    BY <1>8, <2>7, <1>0, Stepped DEF ApplyEntry, declared, caches
<1>9. CASE ApplyDone \/ InstanceFinish
  <2>1. /\ stack' \in Seq(Sound(sealed))
        /\ UNCHANGED <<engine, declared, used, caches, failures>>
    BY <1>9, <1>m DEF ApplyDone, InstanceFinish
  <2> QED
    BY <2>1, <1>0, Stepped DEF declared, caches
<1>10. CASE InstanceStart
  <2> DEFINE S == Seal(Top.tpl)
  <2>1. /\ \A frame \in Sound(S) : Advanced(frame) \in Seq(Sound(S))
        /\ \A frame, callee \in Sound(S) : Calling(frame, callee) \in Seq(Sound(S))
    BY <1>s, <1>1, StackMoves
  <2>2. Moved("make") \in Sound(S)
    BY <1>s, MovedFrame DEF Stages
  <2>3. InstanceOf(Top.tpl) => Frame("materialise", F(Owner(Top.tpl)), Top.realm) \in Sound(S)
    BY <1>o, <1>f, <1>t, NewFrame DEF Works
  <2> HIDE DEF S
  <2>4. stack' \in Seq(Sound(S)) /\ sealed' = S
    BY <1>10, <2>1, <2>2, <2>3 DEF InstanceStart, S
  <2>5. used' \subseteq sealed' /\ \E t \in T : sealed' = Seal(t)
    BY <1>10, <2>4, <1>0, <1>s, <1>t DEF InstanceStart, S
  <2> QED
    BY <1>10, <2>4, <2>5, <1>0, Stepped DEF InstanceStart, caches
<1>11. CASE InstanceMake
  <2> DEFINE s == ShapeOf(Top.tpl)
  <2>1. Top.tpl \in sealed /\ Top.work = "instance"
    BY <1>11, <1>t DEF InstanceMake, Working
  <2>2. s \in made => s \in sealed
    BY <2>1, <1>0 DEF UsedIsSealed, Reaches, Owner, ShapeOf
  <2>3. /\ Moved("finish") \in Sound(sealed)
        /\ s \in made => Moved("stamp") \in Sound(sealed)
    <3>1. made \subseteq T
      BY <1>0 DEF TypeOK
    <3> QED
      BY <2>1, <3>1, <1>t, MovedFrame DEF Stages
  <2>4. s \in made => Frame("apply", s, Top.realm) \in Sound(sealed)
    BY <2>2, <1>0, <1>t, NewFrame DEF Works
  <2> HIDE DEF s
  <2>5. stack' \in Seq(Sound(sealed)) /\ used' \subseteq sealed
    BY <1>11, <2>2, <2>3, <2>4, <1>m, <1>0 DEF InstanceMake, s
  <2> QED
    BY <1>11, <2>5, <1>0, Stepped DEF InstanceMake, declared, caches
<1>12. CASE InstanceStamp
  <2> DEFINE s == ShapeOf(Top.tpl)
  <2>1. Top.tpl \in sealed /\ Top.work = "instance"
    BY <1>12, <1>t DEF InstanceStamp, Working
  <2>s. s \in T /\ Top.at = "stamp"
    BY <1>12, <1>t DEF InstanceStamp, Working
  <2> HIDE DEF s
  <2>2. CASE ModelFor(Top.realm, s)
    <3> DEFINE frame == [Top EXCEPT !.at = "finish", !.got = model[Top.realm][s]]
    <3>1. model[Top.realm][s] \in Nat
      BY <2>2, <2>s, <1>0, LenProperties DEF ModelFor, TypeOK
    <3>2. frame \in Sound(sealed)
      BY <2>1, <3>1, <1>t DEF Sound, Frames, Stages
    <3> HIDE DEF frame
    <3>3. stack' \in Seq(Sound(sealed))
      BY <1>12, <2>2, <3>2, <1>m DEF InstanceStamp, frame, s
    <3> QED
      BY <1>12, <3>3, <1>0, Stepped DEF InstanceStamp, declared, caches
  <2>3. CASE ~ModelFor(Top.realm, s)
    <3>1. Moved("modelled") \in Sound(sealed)
      BY <2>1, <2>s, <1>t, MovedFrame DEF Stages, s
    <3>2. Frame("apply", s, Top.realm) \in Sound(sealed)
      BY <2>s, <1>t, NewFrame DEF Works
    <3>3. stack' \in Seq(Sound(sealed))
      BY <1>12, <2>3, <3>1, <3>2, <1>m DEF InstanceStamp, s
    <3> QED
      BY <1>12, <3>3, <1>0, Stepped DEF InstanceStamp, declared, caches
  <2> QED
    BY <2>2, <2>3
<1>13. CASE InstanceModelled
  <2>1. Top.tpl \in sealed /\ ShapeOf(Top.tpl) \in T
    BY <1>13, <1>t DEF InstanceModelled, Working
  <2>2. Moved("finish") \in Sound(sealed)
    BY <2>1, <1>t, MovedFrame DEF Stages
  <2>3. model' \in [Realms -> [T -> Nat \cup {-1}]]
    BY <1>13, <2>1, <1>t, <1>0 DEF InstanceModelled
  <2> QED
    BY <1>13, <2>2, <2>3, <1>m, <1>0, Stepped DEF InstanceModelled, declared
<1> QED
  BY <1>2, <1>3, <1>4, <1>5, <1>6, <1>7, <1>8, <1>9, <1>10, <1>11, <1>12, <1>13 DEF Step

LEMMA CallsIInv == ASSUME IInv, Calls PROVE IInv'
<1>0. /\ TypeOK /\ UsedIsSealed
      /\ ctor \in [Realms -> [Fns -> CtorStates]]
      /\ builds \in [Realms -> [Fns -> Nat]]
      /\ shared \in [Realms -> [T -> Nat]]
      /\ model \in [Realms -> [T -> Nat \cup {-1}]]
      /\ failures \in 0 .. MaxFailures
      /\ used \subseteq sealed /\ stack \in Seq(Sound(sealed))
  BY DEF IInv, TypeOK, UsedIsSealed, StackOK
<1>1. ASSUME NEW t \in T, EngineInstantiates(t) PROVE IInv'
  <2>1. /\ sealed' = Seal(t) /\ used' = used \cup Publishes(t)
        /\ UNCHANGED <<engine, made, parent, shape, entries, ctor, builds, shared,
                       model, stack, failures>>
    BY <1>1 DEF EngineInstantiates, caches
  <2>2. sealed \subseteq Seal(t) /\ Publishes(t) \subseteq Seal(t)
    BY <1>0, SealFacts, PublishedIsSealed
  <2>3. stack \in Seq(Sound(Seal(t)))
    BY <2>2, <1>0, SoundGrows
  <2>4. used' \subseteq sealed' /\ stack' \in Seq(Sound(sealed'))
    BY <2>1, <2>2, <2>3, <1>0
  <2> QED
    BY <2>1, <2>4, <1>0, Stepped
<1>2. ASSUME NEW work \in {"materialise", "instance"}, NEW t \in T, NEW r \in Realms,
             work = "materialise" => t[1] = "function",
             stack' = <<Frame(work, t, r)>>,
             UNCHANGED <<engine, declared, used, caches, failures>>
      PROVE  IInv'
  <2>1. Frame(work, t, r) \in Sound(sealed)
    BY <1>2, NewFrame DEF Works
  <2>2. stack' \in Seq(Sound(sealed))
    BY <1>2, <2>1
  <2> QED
    BY <1>2, <2>2, <1>0, Stepped DEF declared, caches
<1>3. ASSUME NEW f \in Fns, NEW r \in Realms, TemplateGetFunction(f, r) PROVE IInv'
  <2>1. F(f) \in T /\ F(f)[1] = "function"
    BY Names DEF F
  <2> QED
    BY <1>2, <1>3, <2>1 DEF TemplateGetFunction
<1>4. ASSUME NEW t \in T, NEW r \in Realms, TemplateNewInstance(t, r) PROVE IInv'
  BY <1>2, <1>4 DEF TemplateNewInstance
<1> QED
  BY <1>1, <1>3, <1>4 DEF Calls

LEMMA FailIInv == ASSUME IInv, Fail PROVE IInv'
<1>1. /\ stack' = <<>> /\ ctor' = Torn /\ failures' = failures + 1
      /\ failures < MaxFailures
      /\ UNCHANGED <<engine, made, sealed, parent, shape, entries, used, builds,
                     shared, model>>
  BY DEF Fail, GiveUp, declared
<1>2. /\ ctor' \in [Realms -> [Fns -> CtorStates]]
  BY <1>1, TornType DEF IInv, TypeOK
<1>3. failures' \in 0 .. MaxFailures
  <2>1. failures \in 0 .. MaxFailures
    BY DEF IInv, TypeOK
  <2>2. MaxFailures \in Nat
    BY TemplatesBounds
  <2> QED
    BY <1>1, <2>1, <2>2
<1>4. stack' \in Seq(Sound(sealed'))
  BY <1>1, EmptySeq
<1>5. /\ builds' \in [Realms -> [Fns -> Nat]] /\ shared' \in [Realms -> [T -> Nat]]
      /\ model' \in [Realms -> [T -> Nat \cup {-1}]] /\ used' \subseteq sealed'
  BY <1>1 DEF IInv, TypeOK, UsedIsSealed
<1> QED
  BY <1>1, <1>2, <1>3, <1>4, <1>5, Stepped

LEMMA NextIInv == ASSUME IInv, [Next]_vars PROVE IInv'
<1>1. CASE UNCHANGED vars
  BY <1>1, Stepped DEF vars, declared, caches, IInv, TypeOK, UsedIsSealed, StackOK
<1> QED
  BY <1>1, DeclaringIInv, CallsIInv, StepIInv, FailIInv DEF Next

-----------------------------------------------------------------------------
(* The inductive invariant holds for any templates, rules of declaring     *)
(* them, realms and bounds, on either backend.                             *)
THEOREM Invariance == Spec => []IInv
<1>1. Init => IInv
  BY InitIInv
<1>2. IInv /\ [Next]_vars => IInv'
  BY NextIInv
<1> QED
  BY <1>1, <1>2, PTL DEF Spec

(* Every cache, flag, list of members and call in progress stays in its    *)
(* type.                                                                   *)
THEOREM TypeCorrect == Spec => []TypeOK
<1>1. IInv => TypeOK
  BY DEF IInv
<1> QED
  BY <1>1, Invariance, PTL

(* What anything was built from is sealed, with all that comes with it:    *)
(* the recursion of Seal that stops at what is sealed leaves nothing out,  *)
(* neither of what SpiderMonkey's backend goes on to instantiate, step by  *)
(* step, nor of what V8 publishes.                                         *)
THEOREM SealedBeforeUse == Spec => []UsedIsSealed
<1>1. IInv => UsedIsSealed
  BY DEF IInv
<1> QED
  BY <1>1, Invariance, PTL

(* No class name, handler or parent changes once something was built from  *)
(* the template, whatever is declared, instantiated, nested or failed in   *)
(* between.                                                                *)
THEOREM ShapesStay == Spec => ShapeIsFixed
<1> DEFINE Fixed == /\ \A t \in used : shape'[t] = shape[t]
                    /\ \A f \in Fns : F(f) \in used => parent'[f] = parent[f]
<1>1. IInv /\ [Next]_vars => [Fixed]_vars
  <2> SUFFICES ASSUME IInv, Next PROVE Fixed
    BY DEF vars
  <2>0. /\ used \subseteq sealed /\ shape \in [T -> Nat] /\ used \subseteq T
        /\ parent \in [Fns -> Fns \cup {NoParent}]
    BY DEF IInv, TypeOK, UsedIsSealed
  <2>1. ASSUME UNCHANGED <<parent, shape>> PROVE Fixed
    BY <2>1
  <2>2. CASE Calls \/ Step \/ Fail
    BY <2>1, <2>2 DEF Calls, EngineInstantiates, TemplateGetFunction,
       TemplateNewInstance, Step, MaterialiseStart, MaterialiseMake, MaterialiseStore,
       MaterialiseOwn, MaterialiseFinish, ApplyStart, ApplyEntry, ApplyDone,
       InstanceStart, InstanceMake, InstanceStamp, InstanceModelled, InstanceFinish,
       Fail, GiveUp, declared
  <2>3. ASSUME NEW t \in T, SetShape(t) PROVE Fixed
    BY <2>0, <2>3 DEF SetShape
  <2>4. ASSUME NEW f \in Fns, NEW p \in Fns, TemplateInherit(f, p) PROVE Fixed
    BY <2>0, <2>4 DEF TemplateInherit
  <2>5. CASE Declaring
    <3>1. ASSUME NEW t \in T, NEW e, AddEntry(t, e) PROVE Fixed
      BY <3>1, <2>1 DEF AddEntry
    <3>2. ASSUME NEW f \in Fns, NEW t, TemplateNew(f, t) PROVE Fixed
      BY <3>2, <2>1 DEF TemplateNew
    <3> QED
      BY <2>3, <2>4, <2>5, <3>1, <3>2 DEF Declaring, TemplateSetConstant,
         TemplateSetMethod, TemplateSetSymbolMethod, TemplateSetAccessor,
         TemplateSetTemplate, TemplatePrototype, TemplateInstance
  <2> QED
    BY <2>2, <2>5 DEF Next
<1> QED
  BY <1>1, Invariance, PTL DEF Spec, ShapeIsFixed

-----------------------------------------------------------------------------
(* The calls in progress, one beneath the other.  What a call that is in   *)
(* the midst of another is doing there.                                    *)
CallsFor(a, b) ==
  \/ /\ a.work = "materialise" /\ a.at = "make"
     /\ parent[Owner(a.tpl)] # NoParent
     /\ b.work = "materialise" /\ b.tpl = F(parent[Owner(a.tpl)])
  \/ /\ a.work = "materialise" /\ a.at = "own"
     /\ b.work = "apply" /\ b.tpl = Prototype(Owner(a.tpl)) /\ b.tpl \in made
  \/ /\ a.work = "materialise" /\ a.at = "finish"
     /\ b.work = "apply" /\ b.tpl = a.tpl
  \/ /\ a.work = "instance" /\ a.at = "make" /\ InstanceOf(a.tpl)
     /\ b.work = "materialise" /\ b.tpl = F(Owner(a.tpl))
  \/ /\ a.work = "instance" /\ a.at \in {"modelled", "finish"}
     /\ b.work = "apply" /\ b.tpl = ShapeOf(a.tpl) /\ b.tpl \in made
  \/ /\ a.work = "apply" /\ a.at = "entries"
     /\ b.work \in {"materialise", "instance"}
     /\ b.work = "instance" => b.tpl[1] # "function"
     /\ \E n \in 1 .. Len(entries[a.tpl]) : entries[a.tpl][n] = Entry("child", b.tpl)

ChainOK == \A i \in 1 .. Len(stack) - 1 : CallsFor(stack[i], stack[i + 1])
RealmsOK == \A i \in 1 .. Len(stack) : stack[i].realm = stack[1].realm

(* Only what may be set on a template is.                                  *)
NestsOK ==
  \A t \in T : \A i \in 1 .. Len(entries[t]) :
    entries[t][i].kind = "child" => <<t, entries[t][i].child>> \in Nests

(* What a call has counted: a replay as many members as it is past, in a   *)
(* realm whose shared functions were made for the entries there are.       *)
Counts(fr, sh) ==
  /\ fr.work = "apply" => fr.got = fr.n
  /\ fr.at \in {"start", "make", "store", "stamp"} => fr.n = 0 /\ fr.got = 0
  /\ fr.at = "entries" <=> fr.work = "apply" /\ fr.at # "start"
  /\ fr.at \in {"stamp", "modelled"} => ShapeOf(fr.tpl) \in made
  /\ fr.at = "entries" =>
       /\ fr.n <= Len(entries[fr.tpl])
       /\ HasSharedFunctions(fr.tpl) => sh[fr.realm][fr.tpl] = Len(entries[fr.tpl])

CountsOK == \A i \in 1 .. Len(stack) : Counts(stack[i], shared)

(* A call that has its members has all of them.                            *)
MembersOf(t) == IF t \in made THEN Len(entries[t]) ELSE 0
Target(fr) == IF fr.work = "instance" THEN ShapeOf(fr.tpl) ELSE fr.tpl
Whole(fr) == fr.at \in {"modelled", "finish"} => fr.got = MembersOf(Target(fr))
TopIsWhole == stack # <<>> => Whole(stack[Len(stack)])

CallsOK ==
  /\ NestsOK
  /\ ChainOK
  /\ RealmsOK
  /\ CountsOK
  /\ TopIsWhole

-----------------------------------------------------------------------------
(* The stack after each kind of move, element by element.                  *)
LEMMA StackElements ==
  ASSUME NEW B, stack \in Seq(B), stack # <<>>
  PROVE  /\ Len(stack) \in Nat /\ Len(stack) >= 1 /\ Top = stack[Len(stack)]
         /\ \A i \in 1 .. Len(stack) : stack[i] \in B
         /\ \A frame \in B :
              /\ Len(Advanced(frame)) = Len(stack)
              /\ \A i \in 1 .. Len(stack) - 1 : Advanced(frame)[i] = stack[i]
              /\ Advanced(frame)[Len(stack)] = frame
         /\ \A frame, callee \in B :
              /\ Len(Calling(frame, callee)) = Len(stack) + 1
              /\ \A i \in 1 .. Len(stack) - 1 : Calling(frame, callee)[i] = stack[i]
              /\ Calling(frame, callee)[Len(stack)] = frame
              /\ Calling(frame, callee)[Len(stack) + 1] = callee
<1> DEFINE n == Len(stack)
<1>1. /\ n \in Nat /\ n >= 1 /\ Front(stack) \in Seq(B)
      /\ Len(Front(stack)) = n - 1
      /\ \A i \in 1 .. n - 1 : Front(stack)[i] = stack[i]
      /\ \A i \in 1 .. n : stack[i] \in B
  BY Popped, ElementOfSeq
<1>2. Top = stack[n]
  BY DEF Top, Last
<1>3. ASSUME NEW frame \in B
      PROVE  /\ Advanced(frame) \in Seq(B) /\ Len(Advanced(frame)) = n
             /\ \A i \in 1 .. n - 1 : Advanced(frame)[i] = stack[i]
             /\ Advanced(frame)[n] = frame
  <2> DEFINE s == Front(stack)
  <2>1. /\ Append(s, frame) \in Seq(B) /\ Len(Append(s, frame)) = Len(s) + 1
        /\ \A i \in 1 .. Len(s) : Append(s, frame)[i] = s[i]
        /\ Append(s, frame)[Len(s) + 1] = frame
    BY <1>1, AppendFacts
  <2>2. Len(s) + 1 = n /\ Len(s) = n - 1
    BY <1>1
  <2> HIDE DEF s, n
  <2> QED
    BY <1>1, <2>1, <2>2 DEF Advanced, s
<1>4. ASSUME NEW frame \in B, NEW callee \in B
      PROVE  /\ Len(Calling(frame, callee)) = n + 1
             /\ \A i \in 1 .. n - 1 : Calling(frame, callee)[i] = stack[i]
             /\ Calling(frame, callee)[n] = frame
             /\ Calling(frame, callee)[n + 1] = callee
  <2> DEFINE s == Advanced(frame)
  <2>1. /\ s \in Seq(B) /\ Len(s) = n
        /\ \A i \in 1 .. n - 1 : s[i] = stack[i]
        /\ s[n] = frame
    BY <1>3
  <2> HIDE DEF s
  <2>2. /\ Len(Append(s, callee)) = Len(s) + 1
        /\ \A i \in 1 .. Len(s) : Append(s, callee)[i] = s[i]
        /\ Append(s, callee)[Len(s) + 1] = callee
    BY <2>1, AppendFacts
  <2> HIDE DEF n
  <2> QED
    BY <1>1, <2>1, <2>2 DEF Calling, s
<1> QED
  BY <1>1, <1>2, <1>3, <1>4

LEMMA ReturnedElements ==
  ASSUME NEW B, stack \in Seq(B), stack # <<>>
  PROVE  /\ Len(stack) = 1 => Returned = <<>>
         /\ Len(stack) # 1 =>
              /\ Len(Returned) = Len(stack) - 1
              /\ \A i \in 1 .. Len(stack) - 2 : Returned[i] = stack[i]
              /\ Returned[Len(stack) - 1] =
                   IF Top.work = "apply"
                   THEN [stack[Len(stack) - 1] EXCEPT !.got = Top.got]
                   ELSE stack[Len(stack) - 1]
<1> SUFFICES ASSUME Len(stack) # 1
             PROVE  /\ Len(Returned) = Len(stack) - 1
                    /\ \A i \in 1 .. Len(stack) - 2 : Returned[i] = stack[i]
                    /\ Returned[Len(stack) - 1] =
                         IF Top.work = "apply"
                         THEN [stack[Len(stack) - 1] EXCEPT !.got = Top.got]
                         ELSE stack[Len(stack) - 1]
  BY DEF Returned
<1>2. /\ Len(stack) \in Nat /\ Len(stack) > 1
      /\ stack[Len(stack) - 1] \in B
  <2>1. Len(stack) \in Nat /\ Len(stack) >= 1
    BY Popped
  <2>2. \A k \in Nat : k >= 1 /\ k # 1 => k - 1 \in 1 .. k /\ k > 1
    OBVIOUS
  <2>3. Len(stack) # 1
    OBVIOUS
  <2>4. Len(stack) - 1 \in 1 .. Len(stack) /\ Len(stack) > 1
    BY <2>1, <2>2, <2>3
  <2> QED
    BY <2>1, <2>4, ElementOfSeq
<1> DEFINE Back(b) == IF Top.work = "apply" THEN [b EXCEPT !.got = Top.got] ELSE b
           C == {Back(b) : b \in B}
           D == B \cup C
           n == Len(stack)
           s == Front(stack)
           back == Back(stack[n - 1])
<1> HIDE DEF Back
<1>0. B \subseteq D
  OBVIOUS
<1>3. back \in D
  <2>1. \A b \in B : Back(b) \in C
    OBVIOUS
  <2> HIDE DEF C
  <2> QED
    BY <1>2, <2>1
<1> HIDE DEF n
<1> HIDE DEF C, D, back
<1>1. stack \in Seq(D)
  BY <1>0, SeqWider
<1>4. /\ s \in Seq(D) /\ Len(s) = n - 1
      /\ \A i \in 1 .. n - 1 : s[i] = stack[i]
  BY <1>1, Popped DEF n
<1> HIDE DEF s
<1>5. s # <<>>
  BY <1>2, <1>4, EmptySeq DEF n
<1>6. /\ Front(s) \in Seq(D) /\ Len(Front(s)) = n - 2
      /\ \A i \in 1 .. n - 2 : Front(s)[i] = stack[i]
  <2>1. /\ Front(s) \in Seq(D) /\ Len(Front(s)) = Len(s) - 1
        /\ \A i \in 1 .. Len(s) - 1 : Front(s)[i] = s[i]
    BY <1>4, <1>5, Popped
  <2>2. Len(s) - 1 = n - 2 /\ \A i \in 1 .. n - 2 : i \in 1 .. n - 1
    BY <1>2, <1>4 DEF n
  <2> QED
    BY <1>4, <2>1, <2>2
<1> DEFINE r == Front(s)
<1> HIDE DEF r
<1>7. /\ Len(Append(r, back)) = Len(r) + 1
      /\ \A i \in 1 .. Len(r) : Append(r, back)[i] = r[i]
      /\ Append(r, back)[Len(r) + 1] = back
  BY <1>3, <1>6, AppendFacts DEF r
<1>8. Returned = Append(r, back)
  BY DEF Returned, r, s, Back, back, n
<1>9. Len(r) = n - 2 /\ Len(r) + 1 = n - 1 /\ \A i \in 1 .. n - 2 : r[i] = stack[i]
  BY <1>2, <1>6 DEF r, n
<1> QED
  BY <1>7, <1>8, <1>9 DEF Back, back, n

-----------------------------------------------------------------------------
(* Every step of a call gives up, returns with all it was to count, goes   *)
(* on, or calls another.                                                   *)
SameCall(b, a) == b.work = a.work /\ b.tpl = a.tpl /\ b.realm = a.realm
Onward(at) ==
  Top.work = "materialise" =>
    /\ <<Top.at, at>> \in {<<"start", "make">>, <<"make", "store">>, <<"store", "own">>,
                          <<"own", "finish">>}
    /\ Top.at = "start" => Cached = "none"
Going(frame) ==
  /\ frame \in Frames /\ SameCall(frame, Top) /\ Onward(frame.at)
  /\ Counts(frame, shared')
Begins(callee) ==
  /\ callee \in Frames /\ callee.realm = Top.realm
  /\ callee.at = "start" /\ callee.n = 0 /\ callee.got = 0

Moving ==
  \/ stack' = <<>>
  \/ stack' = Returned /\ (Top.work = "apply" => Top.got = Len(entries[Top.tpl]))
  \/ \E frame : Going(frame) /\ Whole(frame) /\ stack' = Advanced(frame)
  \/ \E frame, callee :
       /\ Going(frame) /\ Begins(callee) /\ CallsFor(frame, callee)
       /\ stack' = Calling(frame, callee)

LEMMA MembersFact ==
  ASSUME IInv, NEW t
  PROVE  /\ t \in T => MembersOf(t) = Len(entries[t])
         /\ t \notin made => MembersOf(t) = 0
  BY EmptySeq DEF IInv, EntriesOK, MembersOf

LEMMA FreshFrame ==
  ASSUME NEW work \in Works, NEW t \in T, Top \in Frames
  PROVE  /\ Begins(Frame(work, t, Top.realm))
         /\ Frame(work, t, Top.realm).work = work
         /\ Frame(work, t, Top.realm).tpl = t
  BY DEF Frame, Frames, Begins, Stages

LEMMA SharedGrows ==
  ASSUME IInv, Step
  PROVE  /\ UNCHANGED <<engine, made, parent, entries, shape, failures>>
         /\ \A fr \in Frames : Counts(fr, shared) => Counts(fr, shared')
         /\ stack # <<>>
<1>1. UNCHANGED <<engine, made, parent, entries, shape, failures>> /\ stack # <<>>
  BY DEF Step, MaterialiseStart, MaterialiseMake, MaterialiseStore, MaterialiseOwn,
     MaterialiseFinish, ApplyStart, ApplyEntry, ApplyDone, InstanceStart, InstanceMake,
     InstanceStamp, InstanceModelled, InstanceFinish, Working, declared
<1>2. CASE ApplyStart
  <2>1. shared \in [Realms -> [T -> Nat]]
    BY DEF IInv, TypeOK
  <2>2. \/ shared' = shared
        \/ shared' = [shared EXCEPT ![Top.realm][Top.tpl] = Len(entries[Top.tpl])]
    BY <1>2 DEF ApplyStart, SharedFunctions
  <2>3. ASSUME NEW r \in Realms, NEW t \in T
        PROVE  shared'[r][t] = shared[r][t] \/ shared'[r][t] = Len(entries[t])
    <3>1. CASE shared' = shared
      BY <3>1
    <3>2. CASE shared' = [shared EXCEPT ![Top.realm][Top.tpl] = Len(entries[Top.tpl])]
      <4>1. CASE r = Top.realm /\ t = Top.tpl
        BY <2>1, <3>2, <4>1
      <4>2. CASE ~(r = Top.realm /\ t = Top.tpl)
        BY <2>1, <3>2, <4>2
      <4> QED
        BY <4>1, <4>2
    <3> QED
      BY <2>2, <3>1, <3>2
  <2>4. ASSUME NEW fr \in Frames, Counts(fr, shared) PROVE Counts(fr, shared')
    <3>1. fr.realm \in Realms /\ fr.tpl \in T
      BY DEF Frames
    <3>2. \/ shared'[fr.realm][fr.tpl] = shared[fr.realm][fr.tpl]
          \/ shared'[fr.realm][fr.tpl] = Len(entries[fr.tpl])
      BY <2>3, <3>1
    <3> QED
      BY <2>4, <3>2 DEF Counts
  <2> QED
    BY <1>1, <2>4
<1>3. CASE ~ApplyStart
  <2>1. shared' = shared
    BY <1>3 DEF Step, MaterialiseStart, MaterialiseMake, MaterialiseStore, MaterialiseOwn,
       MaterialiseFinish, ApplyStart, ApplyEntry, ApplyDone, InstanceStart, InstanceMake,
       InstanceStamp, InstanceModelled, InstanceFinish, caches
  <2> QED
    BY <1>1, <2>1
<1> QED
  BY <1>1, <1>2, <1>3

LEMMA StepMoves == ASSUME IInv, CallsOK, Step PROVE Moving
<1>0. /\ stack \in Seq(Frames) /\ stack \in Seq(Sound(sealed)) /\ stack # <<>>
      /\ entries \in [T -> Seq([kind : EntryKinds, child : T \cup {Nothing}])]
      /\ parent \in [Fns -> Fns \cup {NoParent}]
      /\ shared \in [Realms -> [T -> Nat]]
  BY SharedGrows DEF IInv, TypeOK, StackOK, Frames
<1>t. /\ Top \in Frames /\ Top \in Sound(sealed)
      /\ Top.work \in Works /\ Top.tpl \in T /\ Top.realm \in Realms
      /\ Top.at \in Stages /\ Top.n \in Nat /\ Top.got \in Nat
      /\ Top.work = "materialise" => Top.tpl[1] = "function"
      /\ Top.at \in {"stamp", "modelled"} => ShapeOf(Top.tpl) \in T
  <2>1. Top \in Sound(sealed) /\ Top \in Frames
    BY <1>0, StackMoves
  <2> QED
    BY <2>1 DEF Sound, Frames
<1>l. Len(entries[Top.tpl]) \in Nat
  BY <1>0, <1>t, LenProperties
<1>c. /\ Counts(Top, shared) /\ Counts(Top, shared') /\ Whole(Top)
  <2>1. Len(stack) \in 1 .. Len(stack) /\ Top = stack[Len(stack)]
    BY <1>0, LenProperties, EmptySeq DEF Top, Last
  <2> QED
    BY <1>0, <1>t, <2>1, SharedGrows DEF CallsOK, CountsOK, TopIsWhole
<1>o. Top.tpl[1] = "function" \/ InstanceOf(Top.tpl) =>
        Owner(Top.tpl) \in Fns /\ F(Owner(Top.tpl)) \in T
  BY <1>t, Names DEF Owner, InstanceOf
<1>g. ASSUME NEW at \in Stages \ {"entries"}, Top.work # "apply",
             at \in {"start", "make", "store", "stamp"} => Top.n = 0 /\ Top.got = 0,
             at \in {"stamp", "modelled"} => ShapeOf(Top.tpl) \in made,
             Onward(at)
      PROVE  /\ Going(Moved(at)) /\ Moved(at).at = at /\ Moved(at).got = Top.got
             /\ SameCall(Moved(at), Top)
  BY <1>g, <1>t DEF Moved, Going, SameCall, Counts, Frames
<1>2. CASE MaterialiseStart
  <2>1. Top.work = "materialise" /\ Top.at = "start"
    BY <1>2 DEF MaterialiseStart, Working
  <2>2. Top.n = 0 /\ Top.got = 0
    BY <2>1, <1>c DEF Counts
  <2>3. ASSUME Cached = "none"
        PROVE  /\ Going(Moved("make")) /\ Moved("make").at = "make"
               /\ SameCall(Moved("make"), Top)
    BY <2>1, <2>2, <2>3, <1>g DEF Stages, Onward
  <2>4. \/ stack' = <<>> \/ stack' = Returned
        \/ Cached = "none" /\ stack' = Advanced(Moved("make"))
        \/ /\ Cached = "none" /\ parent[Owner(Top.tpl)] # NoParent
           /\ stack' = Calling(Moved("make"),
                        Frame("materialise", F(parent[Owner(Top.tpl)]), Top.realm))
    BY <1>2 DEF MaterialiseStart
  <2>5. CASE stack' = <<>> \/ stack' = Returned
    BY <2>5, <2>1 DEF Moving
  <2>6. CASE Cached = "none" /\ stack' = Advanced(Moved("make"))
    BY <2>3, <2>6 DEF Moving, Whole
  <2>7. CASE /\ Cached = "none" /\ parent[Owner(Top.tpl)] # NoParent
             /\ stack' = Calling(Moved("make"),
                          Frame("materialise", F(parent[Owner(Top.tpl)]), Top.realm))
    <3> DEFINE p == F(parent[Owner(Top.tpl)])
               frame == Moved("make")
               callee == Frame("materialise", p, Top.realm)
    <3>1. p \in T
      BY <2>1, <2>7, <1>0, <1>t, <1>o, Names
    <3>2. Begins(callee) /\ callee.work = "materialise" /\ callee.tpl = p
      BY <3>1, <1>t, FreshFrame DEF Works
    <3> HIDE DEF callee, frame
    <3>3. CallsFor(frame, callee)
      BY <3>2, <2>1, <2>3, <2>7 DEF CallsFor, SameCall, frame
    <3> QED
      BY <3>2, <3>3, <2>3, <2>7 DEF Moving, frame, callee
  <2> QED
    BY <2>4, <2>5, <2>6, <2>7
<1>3. CASE MaterialiseMake
  <2>1. Top.work = "materialise" /\ Top.at = "make" /\ stack' = Advanced(Moved("store"))
    BY <1>3 DEF MaterialiseMake, Working
  <2>2. Going(Moved("store")) /\ Moved("store").at = "store"
    BY <2>1, <1>c, <1>g DEF Counts, Stages, Onward
  <2> QED
    BY <2>1, <2>2 DEF Moving, Whole
<1>4. CASE MaterialiseStore
  <2>1. Top.work = "materialise" /\ Top.at = "store"
    BY <1>4 DEF MaterialiseStore, Working
  <2>2. /\ Going(Moved("own")) /\ Moved("own").at = "own"
        /\ SameCall(Moved("own"), Top)
    BY <2>1, <1>g DEF Stages, Onward
  <2> DEFINE p == Prototype(Owner(Top.tpl))
             frame == Moved("own")
             callee == Frame("apply", p, Top.realm)
  <2>3. \/ p \in made /\ stack' = Calling(frame, callee)
        \/ stack' = Advanced(frame)
    BY <1>4 DEF MaterialiseStore
  <2>4. ASSUME p \in made PROVE Begins(callee) /\ CallsFor(frame, callee)
    <3>1. p \in T
      BY <2>4 DEF IInv, TypeOK
    <3>2. Begins(callee) /\ callee.work = "apply" /\ callee.tpl = p
      BY <3>1, <1>t, FreshFrame DEF Works
    <3> HIDE DEF callee, frame
    <3> QED
      BY <3>2, <2>1, <2>2, <2>4 DEF CallsFor, SameCall, frame
  <2> HIDE DEF callee
  <2> QED
    BY <2>2, <2>3, <2>4 DEF Moving, Whole
<1>5. CASE MaterialiseOwn
  <2> DEFINE frame == Moved("finish")
             callee == Frame("apply", Top.tpl, Top.realm)
  <2>1. /\ Top.work = "materialise" /\ Top.at = "own"
        /\ stack' = Calling(frame, callee)
    BY <1>5 DEF MaterialiseOwn, Working
  <2>2. Going(frame) /\ frame.at = "finish" /\ SameCall(frame, Top)
    BY <2>1, <1>g DEF Stages, Onward
  <2>3. Begins(callee) /\ callee.work = "apply" /\ callee.tpl = Top.tpl
    BY <1>t, FreshFrame DEF Works
  <2> HIDE DEF frame, callee
  <2>4. CallsFor(frame, callee)
    BY <2>1, <2>2, <2>3 DEF CallsFor, SameCall
  <2> QED
    BY <2>1, <2>2, <2>3, <2>4 DEF Moving
<1>6. CASE MaterialiseFinish \/ InstanceFinish
  BY <1>6 DEF MaterialiseFinish, InstanceFinish, Working, Moving
<1>7. CASE ApplyStart
  <2> DEFINE frame == Moved("entries")
  <2>1. /\ Top.work = "apply" /\ Top.at = "start" /\ stack' = Advanced(frame)
        /\ HasSharedFunctions(Top.tpl) =>
             shared' = [shared EXCEPT ![Top.realm][Top.tpl] = Len(entries[Top.tpl])]
    BY <1>7 DEF ApplyStart, Working, SharedFunctions
  <2>2. Top.n = 0 /\ Top.got = 0
    BY <2>1, <1>c DEF Counts
  <2>3. /\ frame \in Frames /\ SameCall(frame, Top) /\ frame.at = "entries"
        /\ frame.n = 0 /\ frame.got = 0
    BY <2>2, <1>t DEF Moved, SameCall, Frames, Stages
  <2> HIDE DEF frame
  <2>4. HasSharedFunctions(Top.tpl) => shared'[Top.realm][Top.tpl] = Len(entries[Top.tpl])
    BY <2>1, <1>0, <1>t
  <2>5. Counts(frame, shared')
    BY <2>1, <2>3, <2>4, <1>l DEF Counts, SameCall
  <2> QED
    BY <2>1, <2>3, <2>5 DEF Moving, Going, Whole, Onward
<1>8. CASE ApplyEntry
  <2> DEFINE entry == entries[Top.tpl][Top.n + 1]
             given == ~IsShared(entry) \/ Top.n < shared[Top.realm][Top.tpl]
             frame == [Top EXCEPT !.n = @ + 1, !.got = IF given THEN @ + 1 ELSE @]
             work == IF entry.child[1] = "function" THEN "materialise" ELSE "instance"
             callee == Frame(work, entry.child, Top.realm)
  <2>1. /\ Top.work = "apply" /\ Top.at = "entries" /\ Top.n < Len(entries[Top.tpl])
        /\ stack' = IF entry.kind = "child" THEN Calling(frame, callee)
                    ELSE Advanced(frame)
    BY <1>8 DEF ApplyEntry, Working
  <2>2. Top.got = Top.n
    BY <2>1, <1>c DEF Counts
  <2>3. Top.n + 1 \in 1 .. Len(entries[Top.tpl])
    BY <2>1, <1>t, <1>l
  <2>4. entry \in [kind : EntryKinds, child : T \cup {Nothing}]
    BY <2>3, <1>0, <1>t, ElementOfSeq
  <2>5. given
    <3>1. IsShared(entry) => HasSharedFunctions(Top.tpl)
      BY <2>3 DEF HasSharedFunctions
    <3> QED
      BY <3>1, <2>1, <1>c DEF Counts
  <2>6. /\ frame \in Frames /\ SameCall(frame, Top) /\ frame.at = "entries"
        /\ frame.n = Top.n + 1 /\ frame.got = Top.n + 1
    <3>1. frame = [Top EXCEPT !.n = Top.n + 1, !.got = Top.n + 1]
      BY <2>2, <2>5
    <3>2. Top.n + 1 \in Nat
      BY <1>t
    <3> HIDE DEF frame, given
    <3> QED
      BY <2>1, <3>1, <3>2, <1>t DEF SameCall, Frames
  <2>7. entry.kind = "child" =>
          entry.child \in T /\ entry = Entry("child", entry.child)
    BY <2>3, <2>4, <1>t DEF IInv, EntriesOK, Entry
  <2>8. work \in {"materialise", "instance"} /\ (work = "instance" => entry.child[1] # "function")
    OBVIOUS
  <2> HIDE DEF frame, given, work
  <2>9. Going(frame)
    <3>1. Top.n + 1 <= Len(entries[Top.tpl]) /\ frame.tpl = Top.tpl /\ frame.realm = Top.realm
          /\ frame.work = "apply"
      BY <2>1, <2>3, <2>6, <1>t, <1>l DEF SameCall
    <3>2. Counts(frame, shared')
      BY <3>1, <2>1, <2>6, <1>c DEF Counts
    <3> QED
      BY <3>2, <2>1, <2>6 DEF Going, Onward
  <2>10. CASE entry.kind = "child"
    <3>1. /\ Begins(callee) /\ callee.work = work /\ callee.tpl = entry.child
      BY <2>7, <2>8, <2>10, <1>t, FreshFrame DEF Works
    <3>2. stack' = Calling(frame, callee)
      BY <2>1, <2>10
    <3>3. \E n \in 1 .. Len(entries[Top.tpl]) : entries[Top.tpl][n] = Entry("child", entry.child)
      BY <2>3, <2>7, <2>10
    <3> HIDE DEF callee, entry
    <3>4. CallsFor(frame, callee)
      BY <3>1, <3>3, <2>1, <2>6, <2>8 DEF CallsFor, SameCall
    <3> QED
      BY <3>1, <3>2, <3>4, <2>9 DEF Moving
  <2>11. CASE entry.kind # "child"
    <3>1. stack' = Advanced(frame) /\ Whole(frame)
      BY <2>1, <2>6, <2>11 DEF Whole
    <3> QED
      BY <3>1, <2>9 DEF Moving
  <2> QED
    BY <2>10, <2>11
<1>9. CASE ApplyDone
  <2>1. /\ Top.work = "apply" /\ Top.at = "entries" /\ Top.n = Len(entries[Top.tpl])
        /\ stack' = Returned
    BY <1>9 DEF ApplyDone, Working
  <2>2. Top.got = Len(entries[Top.tpl])
    BY <2>1, <1>c DEF Counts
  <2> QED
    BY <2>1, <2>2 DEF Moving
<1>10. CASE InstanceStart
  <2> DEFINE p == F(Owner(Top.tpl))
             frame == Moved("make")
             callee == Frame("materialise", p, Top.realm)
  <2>1. /\ Top.work = "instance" /\ Top.at = "start"
        /\ stack' = IF InstanceOf(Top.tpl) THEN Calling(frame, callee)
                    ELSE Advanced(frame)
    BY <1>10 DEF InstanceStart, Working
  <2>2. Going(frame) /\ frame.at = "make" /\ SameCall(frame, Top)
    BY <2>1, <1>c, <1>g DEF Counts, Stages, Onward
  <2>3. ASSUME InstanceOf(Top.tpl) PROVE Begins(callee) /\ CallsFor(frame, callee)
    <3>1. Begins(callee) /\ callee.work = "materialise" /\ callee.tpl = p
      BY <2>3, <1>o, <1>t, FreshFrame DEF Works
    <3> HIDE DEF callee, frame
    <3> QED
      BY <3>1, <2>1, <2>2, <2>3 DEF CallsFor, SameCall, InstanceOf
  <2> HIDE DEF callee, frame
  <2> QED
    BY <2>1, <2>2, <2>3 DEF Moving, Whole
<1>11. CASE InstanceMake
  <2> DEFINE s == ShapeOf(Top.tpl)
             callee == Frame("apply", s, Top.realm)
  <2>1. /\ Top.work = "instance" /\ Top.at = "make"
        /\ \/ s \notin made /\ stack' = Advanced(Moved("finish"))
           \/ s \in made /\ Stamps(Top.tpl) /\ stack' = Advanced(Moved("stamp"))
           \/ s \in made /\ stack' = Calling(Moved("finish"), callee)
    BY <1>11 DEF InstanceMake, Working
  <2>2. Top.n = 0 /\ Top.got = 0
    BY <2>1, <1>c DEF Counts
  <2>3. /\ Going(Moved("finish")) /\ Moved("finish").at = "finish"
        /\ Moved("finish").got = 0 /\ SameCall(Moved("finish"), Top)
        /\ s \in made => Going(Moved("stamp")) /\ Moved("stamp").at = "stamp"
    BY <2>1, <2>2, <1>g DEF Stages, Onward
  <2>4. ASSUME s \notin made PROVE Whole(Moved("finish"))
    BY <2>1, <2>3, <2>4, MembersFact DEF Whole, Target, SameCall
  <2>5. ASSUME s \in made PROVE Begins(callee) /\ CallsFor(Moved("finish"), callee)
    <3>1. s \in T
      BY <2>5 DEF IInv, TypeOK
    <3>2. Begins(callee) /\ callee.work = "apply" /\ callee.tpl = s
      BY <3>1, <1>t, FreshFrame DEF Works
    <3> HIDE DEF callee
    <3> QED
      BY <3>2, <2>1, <2>3, <2>5 DEF CallsFor, SameCall
  <2> HIDE DEF s, callee
  <2> QED
    BY <2>1, <2>3, <2>4, <2>5 DEF Moving, Whole
<1>12. CASE InstanceStamp
  <2> DEFINE s == ShapeOf(Top.tpl)
             frame == [Top EXCEPT !.at = "finish", !.got = model[Top.realm][s]]
             callee == Frame("apply", s, Top.realm)
  <2>1. /\ Top.work = "instance" /\ Top.at = "stamp"
        /\ \/ ModelFor(Top.realm, s) /\ stack' = Advanced(frame)
           \/ stack' = Calling(Moved("modelled"), callee)
    BY <1>12 DEF InstanceStamp, Working
  <2>2. s \in T /\ s \in made /\ Top.n = 0 /\ Top.got = 0
    BY <2>1, <1>c, <1>t DEF Counts
  <2>3. CASE ModelFor(Top.realm, s) /\ stack' = Advanced(frame)
    <3>1. model[Top.realm][s] = Len(entries[s]) /\ model[Top.realm][s] \in Nat
      BY <2>2, <2>3, <1>0, LenProperties DEF ModelFor
    <3>2. /\ frame \in Frames /\ SameCall(frame, Top) /\ frame.at = "finish"
          /\ frame.n = 0 /\ frame.got = Len(entries[s])
      BY <3>1, <2>2, <1>t DEF SameCall, Frames, Stages
    <3> HIDE DEF frame
    <3>3. Going(frame)
      BY <3>2, <2>1 DEF Going, Counts, SameCall, Onward
    <3>4. Whole(frame)
      BY <3>2, <2>1, <2>2, MembersFact DEF Whole, Target, SameCall
    <3> QED
      BY <3>3, <3>4, <2>3 DEF Moving
  <2>4. CASE stack' = Calling(Moved("modelled"), callee)
    <3>1. /\ Going(Moved("modelled")) /\ Moved("modelled").at = "modelled"
          /\ SameCall(Moved("modelled"), Top)
      BY <2>1, <2>2, <1>g DEF Stages, Onward
    <3>2. Begins(callee) /\ callee.work = "apply" /\ callee.tpl = s
      BY <2>2, <1>t, FreshFrame DEF Works
    <3> HIDE DEF callee
    <3>4. CallsFor(Moved("modelled"), callee)
      BY <3>1, <3>2, <2>1, <2>2 DEF CallsFor, SameCall
    <3> QED
      BY <3>1, <3>2, <3>4, <2>4 DEF Moving
  <2> QED
    BY <2>1, <2>3, <2>4
<1>13. CASE InstanceModelled
  <2>1. /\ Top.work = "instance" /\ Top.at = "modelled"
        /\ stack' = Advanced(Moved("finish"))
    BY <1>13 DEF InstanceModelled, Working
  <2>2. /\ Going(Moved("finish")) /\ Moved("finish").at = "finish"
        /\ Moved("finish").got = Top.got /\ SameCall(Moved("finish"), Top)
    BY <2>1, <1>g DEF Stages, Onward
  <2>3. Whole(Moved("finish"))
    BY <2>1, <2>2, <1>c DEF Whole, Target, SameCall
  <2> QED
    BY <2>1, <2>2, <2>3 DEF Moving
<1> QED
  BY <1>2, <1>3, <1>4, <1>5, <1>6, <1>7, <1>8, <1>9, <1>10, <1>11, <1>12, <1>13 DEF Step

(* The stack afterwards: at most the innermost call, or the one it returns *)
(* to, is another than before, and at most one call was added.             *)
Changes(k, m) ==
  /\ k \in 1 .. Len(stack) /\ k >= Len(stack) - 1 /\ m \in {k, k + 1}
  /\ Len(stack') = m
  /\ \A i \in 1 .. k - 1 : stack'[i] = stack[i]
  /\ stack'[k] \in Frames /\ SameCall(stack'[k], stack[k])
  /\ Counts(stack'[k], shared')
  /\ k < Len(stack) => m = k /\ stack'[k].at = stack[k].at
  /\ k = Len(stack) => Onward(stack'[k].at)
  /\ m = k => Whole(stack'[k])
  /\ m = k + 1 => Begins(stack'[m]) /\ CallsFor(stack'[k], stack'[m])

LEMMA StackChanges ==
  ASSUME IInv, CallsOK, Step
  PROVE  stack' = <<>> \/ \E k, m : Changes(k, m)
<1> DEFINE n == Len(stack)
<1>0. /\ stack \in Seq(Frames) /\ stack # <<>>
      /\ \A fr \in Frames : Counts(fr, shared) => Counts(fr, shared')
  BY SharedGrows DEF IInv, TypeOK, Frames
<1>1. /\ n \in Nat /\ n >= 1 /\ Top = stack[n] /\ \A i \in 1 .. n : stack[i] \in Frames
  BY <1>0, StackElements
<1>2. CASE stack' = <<>>
  BY <1>2
<1>3. CASE stack' = Returned /\ (Top.work = "apply" => Top.got = Len(entries[Top.tpl]))
  <2>1. CASE n = 1
    BY <2>1, <1>0, <1>3, ReturnedElements
  <2>2. CASE n # 1
    <3> DEFINE k == n - 1
               a == stack[k]
               b == IF Top.work = "apply" THEN [a EXCEPT !.got = Top.got] ELSE a
    <3>1. k \in Nat /\ k \in 1 .. n /\ k + 1 = n /\ a \in Frames /\ Top \in Frames
      <4>0. n \in Nat /\ n >= 1
        BY <1>1
      <4> HIDE DEF n
      <4>1. k \in Nat /\ k \in 1 .. n /\ k + 1 = n /\ n \in 1 .. n
        BY <4>0, <2>2
      <4> HIDE DEF k
      <4> QED
        BY <4>1, <1>1
    <3>2. /\ Len(stack') = k /\ stack'[k] = b
          /\ \A i \in 1 .. k - 1 : stack'[i] = stack[i]
      <4>1. \A i : i \in 1 .. k - 1 <=> i \in 1 .. n - 2
        BY <3>1
      <4> QED
        BY <4>1, <2>2, <1>0, <1>3, ReturnedElements
    <3>3. CallsFor(a, Top) /\ Counts(a, shared')
      <4>1. k \in 1 .. n - 1 /\ stack[k + 1] = Top
        BY <3>1, <1>1
      <4> QED
        BY <4>1, <3>1, <1>0 DEF CallsOK, ChainOK, CountsOK
    <3> HIDE DEF k, n, a
    <3>4. /\ b \in Frames /\ SameCall(b, a) /\ b.at = a.at
          /\ b.n = a.n
          /\ b.got = IF Top.work = "apply" THEN Top.got ELSE a.got
      BY <3>1 DEF Frames, SameCall
    <3>5. Top.work = "apply" => a.work # "apply" /\ a.at \in {"own", "modelled", "finish"}
      BY <3>3 DEF CallsFor
    <3>6. Top.work # "apply" => a.at \in {"make", "entries"}
      BY <3>3 DEF CallsFor
    <3> HIDE DEF b
    <3>7. Counts(b, shared')
      BY <3>3, <3>4, <3>5 DEF Counts, SameCall
    <3>8. Whole(b)
      <4>1. CASE Top.work = "apply"
        <5>1. b.got = Len(entries[Top.tpl]) /\ Top.tpl \in T
          BY <4>1, <3>4, <1>3, <3>1 DEF Frames
        <5>2. a.at \in {"modelled", "finish"} => Target(a) = Top.tpl
          BY <3>3, <4>1 DEF CallsFor, Target
        <5> QED
          BY <5>1, <5>2, <3>4, MembersFact DEF Whole, Target, SameCall
      <4> QED
        BY <4>1, <3>4, <3>6 DEF Whole
    <3>9. Changes(k, k)
      BY <3>1, <3>2, <3>4, <3>7, <3>8 DEF Changes, n, a
    <3> QED
      BY <3>9
  <2> QED
    BY <2>1, <2>2
<1>4. ASSUME NEW frame, Going(frame), Whole(frame), stack' = Advanced(frame)
      PROVE  \E k, m : Changes(k, m)
  <2>1. /\ Len(stack') = n /\ stack'[n] = frame
        /\ \A i \in 1 .. n - 1 : stack'[i] = stack[i]
    BY <1>0, <1>4, StackElements DEF Going
  <2> HIDE DEF n
  <2>2. Changes(n, n)
    BY <1>1, <1>4, <2>1 DEF Changes, Going, n
  <2> QED
    BY <2>2
<1>5. ASSUME NEW frame, NEW callee, Going(frame), Begins(callee),
             CallsFor(frame, callee), stack' = Calling(frame, callee)
      PROVE  \E k, m : Changes(k, m)
  <2>1. /\ Len(stack') = n + 1 /\ stack'[n] = frame /\ stack'[n + 1] = callee
        /\ \A i \in 1 .. n - 1 : stack'[i] = stack[i]
    BY <1>0, <1>5, StackElements DEF Going, Begins
  <2> HIDE DEF n
  <2>2. Changes(n, n + 1)
    BY <1>1, <1>5, <2>1 DEF Changes, Going, n
  <2> QED
    BY <2>2
<1> QED
  BY <1>2, <1>3, <1>4, <1>5, StepMoves DEF Moving

LEMMA StepCallsOK == ASSUME IInv, CallsOK, Step PROVE CallsOK'
<1>0. /\ UNCHANGED <<made, parent, entries>>
      /\ \A fr \in Frames : Counts(fr, shared) => Counts(fr, shared')
      /\ \A i \in 1 .. Len(stack) : stack[i] \in Frames
      /\ Len(stack) \in Nat
  BY SharedGrows, ElementOfSeq, LenProperties DEF IInv, TypeOK, Frames
<1>1. NestsOK'
  BY <1>0 DEF CallsOK, NestsOK
<1>2. CASE stack' = <<>>
  BY <1>1, <1>2, EmptySeq DEF CallsOK, ChainOK, RealmsOK, CountsOK, TopIsWhole
<1>3. ASSUME NEW k, NEW m, Changes(k, m) PROVE CallsOK'
  <2>1. /\ k \in 1 .. Len(stack) /\ k \in Nat /\ m \in {k, k + 1} /\ Len(stack') = m
        /\ \A i \in 1 .. k - 1 : stack'[i] = stack[i]
        /\ stack'[k] \in Frames /\ SameCall(stack'[k], stack[k])
        /\ Counts(stack'[k], shared')
        /\ m = k => Whole(stack'[k])
        /\ m = k + 1 => Begins(stack'[m]) /\ CallsFor(stack'[k], stack'[m])
                         /\ k = Len(stack)
    BY <1>0, <1>3 DEF Changes
  <2>2. ASSUME NEW i \in 1 .. Len(stack') - 1 PROVE CallsFor(stack'[i], stack'[i + 1])
    <3>1. CASE i = k
      BY <3>1, <2>1, <2>2
    <3>2. CASE i = k - 1
      <4>1. i \in 1 .. k - 1 /\ i \in 1 .. Len(stack) - 1 /\ i + 1 = k
        BY <3>2, <2>1, <2>2, <1>0
      <4>2. stack'[i] = stack[i] /\ CallsFor(stack[i], stack[k])
        BY <4>1, <2>1 DEF CallsOK, ChainOK
      <4> QED
        BY <4>1, <4>2, <2>1 DEF CallsFor, SameCall
    <3>3. CASE i < k - 1
      <4>1. /\ i \in 1 .. k - 1 /\ i \in 1 .. Len(stack) - 1 /\ i + 1 \in 1 .. k - 1
        BY <3>3, <2>1, <2>2, <1>0
      <4> QED
        BY <4>1, <2>1 DEF CallsOK, ChainOK
    <3> QED
      BY <3>1, <3>2, <3>3, <2>1
  <2>3. ChainOK'
    <3> SUFFICES ASSUME NEW i \in 1 .. Len(stack') - 1
                 PROVE  CallsFor(stack[i], stack[i + 1])'
      BY DEF ChainOK
    <3> DEFINE a == stack'[i]
               b == stack'[i + 1]
    <3>1. CallsFor(a, b)
      BY <2>2
    <3> HIDE DEF a, b
    <3>2. parent' = parent /\ made' = made /\ entries' = entries
      BY <1>0
    <3> QED
      BY <3>1, <3>2 DEF CallsFor, ShapeOf, InstanceOf, Owner, a, b
  <2>4. ASSUME NEW i \in 1 .. Len(stack') PROVE stack'[i].realm = stack[1].realm
    <3>1. CASE i \in 1 .. k - 1
      BY <3>1, <2>1 DEF CallsOK, RealmsOK
    <3>2. CASE i = k
      BY <3>2, <2>1 DEF CallsOK, RealmsOK, SameCall
    <3>3. CASE i = k + 1 /\ m = k + 1
      <4>1. Top = stack[k]
        BY <3>3, <2>1 DEF Top, Last
      <4> QED
        BY <4>1, <3>3, <2>1 DEF CallsOK, RealmsOK, Begins
    <3> QED
      BY <3>1, <3>2, <3>3, <2>1
  <2>5. RealmsOK'
    <3>1. 1 \in 1 .. Len(stack')
      BY <2>1
    <3> QED
      BY <3>1, <2>4 DEF RealmsOK
  <2>6. ASSUME NEW i \in 1 .. Len(stack') PROVE Counts(stack'[i], shared')
    <3>1. CASE i \in 1 .. k - 1
      BY <3>1, <2>1, <1>0 DEF CallsOK, CountsOK
    <3>2. CASE i = k
      BY <3>2, <2>1
    <3>3. CASE i = k + 1 /\ m = k + 1
      BY <3>3, <2>1 DEF Begins, Counts
    <3> QED
      BY <3>1, <3>2, <3>3, <2>1
  <2>7. CountsOK'
    BY <2>6, <1>0 DEF CountsOK, Counts, HasSharedFunctions, ShapeOf
  <2>8. TopIsWhole'
    <3>1. Whole(stack'[Len(stack')])
      BY <2>1 DEF Whole, Begins
    <3> QED
      BY <3>1, <1>0 DEF TopIsWhole, Whole, MembersOf, Target, ShapeOf
  <2> QED
    BY <1>1, <2>3, <2>5, <2>7, <2>8 DEF CallsOK
<1> QED
  BY <1>2, <1>3, StackChanges

-----------------------------------------------------------------------------
(* What a template publishes: itself and all that is reached from it.      *)
LEMMA PublishesFacts ==
  ASSUME TypeOK, NEW t \in T
  PROVE  /\ t \in Publishes(t) /\ Publishes(t) \subseteq T
         /\ \A s \in Publishes(t) : Reaches(s) \subseteq Publishes(t)
<1> DEFINE reaches == [s \in T |-> Reaches(s)]
           Closed(C) == t \in C /\ (\A c \in C : reaches[c] \subseteq C)
<1>1. Publishes(t) = {s \in T : \A C \in SUBSET T : Closed(C) => s \in C}
  BY DEF Publishes
<1>2. \A s \in T : reaches[s] = Reaches(s)
  OBVIOUS
<1> HIDE DEF reaches
<1>3. ASSUME NEW s \in Publishes(t), NEW x \in Reaches(s) PROVE x \in Publishes(t)
  <2>1. s \in T /\ x \in T
    BY <1>1, <1>3, ReachesType
  <2>2. ASSUME NEW C \in SUBSET T, Closed(C) PROVE x \in C
    BY <1>1, <1>2, <1>3, <2>1, <2>2
  <2> QED
    BY <1>1, <2>1, <2>2
<1> QED
  BY <1>1, <1>3

(* While what sealed templates reach only grows, so does what they publish.*)
LEMMA PublishGrows ==
  ASSUME TypeOK, UsedIsSealed, NEW t \in sealed,
         \A s \in sealed : Reaches(s) \subseteq Reaches(s)'
  PROVE  Publishes(t) \subseteq Publishes(t)'
<1> SUFFICES ASSUME NEW s \in Publishes(t) PROVE s \in Publishes(t)'
  OBVIOUS
<1> DEFINE before == [x \in T |-> Reaches(x)]
           after == [x \in T |-> Reaches(x)']
<1>1. \A x \in T : before[x] = Reaches(x) /\ after[x] = Reaches(x)'
  OBVIOUS
<1>2. /\ s \in T
      /\ \A C \in SUBSET T : t \in C /\ (\A c \in C : before[c] \subseteq C) => s \in C
  BY DEF Publishes
<1>3. Publishes(t)' = {x \in T : \A C \in SUBSET T :
                        t \in C /\ (\A c \in C : after[c] \subseteq C) => x \in C}
  BY DEF Publishes
<1> HIDE DEF before, after
<1>4. ASSUME NEW C \in SUBSET T, t \in C, \A c \in C : after[c] \subseteq C
      PROVE  s \in C
  <2> DEFINE D == C \cap sealed
  <2>1. D \in SUBSET T /\ t \in D
    BY <1>4 DEF TypeOK
  <2>2. ASSUME NEW c \in D PROVE before[c] \subseteq D
    BY <1>1, <1>4, <2>1, <2>2 DEF UsedIsSealed
  <2> QED
    BY <1>2, <2>1, <2>2
<1> QED
  BY <1>2, <1>3, <1>4

(* A call works on what its caller's template reaches, or on that template *)
(* itself.                                                                 *)
LEMMA CallReaches ==
  ASSUME NEW a \in Frames, a.work = "materialise" => a.tpl[1] = "function",
         NEW b \in Frames, CallsFor(a, b)
  PROVE  b.tpl \in Reaches(a.tpl) \cup {a.tpl}
<1>0. /\ a.tpl \in T /\ b.tpl \in T /\ b.tpl # Nothing
      /\ a.work = "materialise" => a.tpl[1] = "function"
  BY Names DEF Frames
<1>1. a.tpl[1] = "function" => a.tpl = F(Owner(a.tpl))
  BY <1>0, Names DEF Owner
<1>2. CASE a.tpl[1] = "function" /\ Owner(a.tpl) \in Fns
           /\ parent[Owner(a.tpl)] # NoParent /\ b.tpl = F(parent[Owner(a.tpl)])
  BY <1>2 DEF Reaches, Owner
<1>3. CASE a.tpl[1] = "function" /\ b.tpl \in made
           /\ b.tpl \in {Prototype(Owner(a.tpl)), Instance(Owner(a.tpl))}
  BY <1>3 DEF Reaches, Owner
<1>4. CASE InstanceOf(a.tpl) /\ b.tpl = F(Owner(a.tpl))
  BY <1>1, <1>4 DEF InstanceOf, Reaches, Owner
<1>5. CASE b.tpl = ShapeOf(a.tpl) /\ b.tpl \in made
  BY <1>3, <1>5 DEF ShapeOf
<1>6. CASE \E n \in 1 .. Len(entries[a.tpl]) : entries[a.tpl][n] = Entry("child", b.tpl)
  BY <1>0, <1>6 DEF Reaches, Children, Entry
<1>7. a.tpl[1] = "function" => Owner(a.tpl) \in Fns
  BY <1>0, Names DEF Owner
<1> QED
  BY <1>0, <1>2, <1>3, <1>4, <1>5, <1>6, <1>7 DEF CallsFor

-----------------------------------------------------------------------------
(* A call works on what all the calls beneath it reach.                    *)
ReachOK ==
  \A i, j \in 1 .. Len(stack) :
    i <= j => stack[j].tpl \in Publishes(stack[i].tpl)

(* While a constructor's members are being defined it is in the cache, and *)
(* a call for it from within goes no further than to find it there.        *)
BuildingOK ==
  \A i \in 1 .. Len(stack) : Defining(i) =>
    /\ ctor[stack[i].realm][Owner(stack[i].tpl)] = "building"
    /\ \A j \in i + 1 .. Len(stack) :
         stack[j].work = "materialise" /\ stack[j].tpl = stack[i].tpl
           => stack[j].at = "start"

(* A template that its own parent's instantiation comes back to.           *)
Behind(h) ==
  \E p \in Fns : parent[h] = p /\ p # NoParent /\ F(h) \in Publishes(F(p))

(* A constructor that was built is cached in some state for good; one that *)
(* is about to be built although it was is behind its own parent.          *)
Making(i, r, h) ==
  /\ stack[i].work = "materialise" /\ stack[i].at = "make"
  /\ stack[i].tpl = F(h) /\ stack[i].realm = r

BuildsOK ==
  \A r \in Realms, h \in Fns :
    builds[r][h] > 0 =>
      /\ ctor[r][h] # "none" /\ F(h) \in used
      /\ builds[r][h] > 1 => Behind(h)
      /\ \A i \in 1 .. Len(stack) : Making(i, r, h) => Behind(h)

CInv ==
  /\ CallsOK
  /\ ReachOK
  /\ BuildingOK
  /\ BuildsOK

LEMMA StepReachOK == ASSUME IInv, CallsOK, ReachOK, Step PROVE ReachOK'
<1>0. /\ UNCHANGED <<made, parent, entries>>
      /\ \A i \in 1 .. Len(stack) : stack[i] \in Sound(sealed) /\ stack[i].tpl \in T
      /\ Len(stack) \in Nat /\ TypeOK
  <2>1. \A i \in 1 .. Len(stack) : stack[i] \in Sound(sealed)
    BY ElementOfSeq DEF IInv, StackOK
  <2> QED
    BY <2>1, SharedGrows, LenProperties DEF IInv, StackOK, Sound, Frames
<1>1. \A t : Publishes(t)' = Publishes(t)
  <2>1. \A s : Reaches(s)' = Reaches(s)
    BY <1>0 DEF Reaches, Children
  <2> QED
    BY <2>1 DEF Publishes
<1>2. CASE stack' = <<>>
  BY <1>2, EmptySeq DEF ReachOK
<1>3. ASSUME NEW k, NEW m, Changes(k, m) PROVE ReachOK'
  <2>1. /\ k \in 1 .. Len(stack) /\ k \in Nat /\ m \in {k, k + 1} /\ Len(stack') = m
        /\ \A i \in 1 .. k - 1 : stack'[i] = stack[i]
        /\ SameCall(stack'[k], stack[k])
        /\ m = k + 1 => Begins(stack'[m]) /\ CallsFor(stack'[k], stack'[m])
    BY <1>0, <1>3 DEF Changes
  <2>2. \A i \in 1 .. k : stack'[i].tpl = stack[i].tpl /\ i \in 1 .. Len(stack)
    BY <1>0, <2>1 DEF SameCall
  <2>3. ASSUME m = k + 1
        PROVE  /\ stack'[m].tpl \in T
               /\ stack'[m].tpl \in Reaches(stack[k].tpl) \cup {stack[k].tpl}
    <3> DEFINE a == stack'[k]
               b == stack'[m]
    <3>1. /\ a \in Frames /\ b \in Frames /\ CallsFor(a, b) /\ SameCall(a, stack[k])
          /\ stack[k] \in Sound(sealed)
      BY <1>0, <1>3, <2>1, <2>3 DEF Changes, Begins
    <3>2. a.tpl = stack[k].tpl /\ (a.work = "materialise" => a.tpl[1] = "function")
      BY <3>1 DEF SameCall, Sound
    <3>3. b.tpl \in T
      BY <3>1 DEF Frames
    <3> HIDE DEF a, b
    <3>4. b.tpl \in Reaches(a.tpl) \cup {a.tpl}
      BY <3>1, <3>2, CallReaches
    <3> QED
      BY <3>2, <3>3, <3>4 DEF a, b
  <2>4. ASSUME NEW i \in 1 .. Len(stack'), NEW j \in 1 .. Len(stack'), i <= j
        PROVE  stack'[j].tpl \in Publishes(stack'[i].tpl)
    <3>1. CASE j <= k
      BY <3>1, <2>1, <2>2, <2>4 DEF ReachOK
    <3>2. CASE j = k + 1 /\ i <= k
      <4>1. /\ i \in 1 .. Len(stack) /\ stack'[i].tpl = stack[i].tpl
            /\ stack[k].tpl \in Publishes(stack[i].tpl) /\ m = k + 1 /\ stack[i].tpl \in T
        BY <3>2, <2>1, <2>2, <2>4, <1>0 DEF ReachOK
      <4>2. Reaches(stack[k].tpl) \subseteq Publishes(stack[i].tpl)
        BY <4>1, <1>0, PublishesFacts
      <4> QED
        BY <4>1, <4>2, <2>3, <3>2
    <3>3. CASE j = k + 1 /\ i = k + 1
      BY <3>3, <2>1, <2>3, <2>4, <1>0, PublishesFacts
    <3> QED
      BY <3>1, <3>2, <3>3, <2>1
  <2> QED
    BY <2>4, <1>1 DEF ReachOK
<1> QED
  BY <1>2, <1>3, StackChanges

LEMMA Stored ==
  ASSUME NEW S, NEW c \in [Realms -> [Fns -> S]], NEW a \in Realms, NEW b \in Fns, NEW v
  PROVE  /\ [c EXCEPT ![a][b] = v][a][b] = v
         /\ \A r \in Realms, h \in Fns :
              r # a \/ h # b => [c EXCEPT ![a][b] = v][r][h] = c[r][h]
  OBVIOUS

LEMMA StepBuildingOK == ASSUME IInv, CallsOK, BuildingOK, Step PROVE BuildingOK'
<1>0. /\ \A i \in 1 .. Len(stack) :
           /\ stack[i] \in Frames /\ stack[i].tpl \in T /\ stack[i].realm \in Realms
           /\ stack[i].work = "materialise" =>
                /\ stack[i].tpl = F(Owner(stack[i].tpl)) /\ Owner(stack[i].tpl) \in Fns
      /\ Len(stack) \in Nat /\ Len(stack) >= 1 /\ Top = stack[Len(stack)]
      /\ ctor \in [Realms -> [Fns -> CtorStates]]
  <2>1. \A i \in 1 .. Len(stack) : stack[i] \in Sound(sealed)
    BY ElementOfSeq DEF IInv, StackOK
  <2>2. /\ Len(stack) \in Nat /\ Len(stack) >= 1 /\ Top = stack[Len(stack)]
    BY SharedGrows, StackElements DEF IInv, StackOK
  <2> QED
    BY <2>1, <2>2, Names DEF IInv, TypeOK, Sound, Frames, Owner, CtorStates
<1>1. CASE stack' = <<>>
  BY <1>1, EmptySeq DEF BuildingOK
<1>2. ASSUME NEW k, NEW m, Changes(k, m), stack' # <<>>
      PROVE  BuildingOK'
  <2> DEFINE n == Len(stack)
             n2 == Len(stack')
  <2>0. /\ k \in 1 .. n /\ m \in {k, k + 1} /\ n2 = m
        /\ \A i \in 1 .. k - 1 : stack'[i] = stack[i]
        /\ SameCall(stack'[k], stack[k])
        /\ k < n => m = k /\ stack'[k].at = stack[k].at
        /\ k = n => Onward(stack'[k].at)
        /\ m = k + 1 => stack'[m].at = "start"
    BY <1>2 DEF Changes, Begins
  <2>n. n \in Nat /\ n >= 1 /\ Top = stack[n]
    BY <1>0
  <2>1. /\ k \in Nat /\ m \in Nat
        /\ \A i \in 1 .. n2 : i < k \/ i = k \/ (i = k + 1 /\ m = k + 1)
        /\ \A i \in 1 .. n2 : i < k => i \in 1 .. n - 1
        /\ \A i \in 1 .. n2 : i < k => i \in 1 .. k - 1
        /\ k < n => k \in 1 .. n - 1
        /\ \A i \in 1 .. n2 : \A j \in i + 1 .. n2 :
             /\ i = k => j = k + 1 /\ m = k + 1
             /\ j < k => i < k
             /\ j <= k => j \in i + 1 .. n
             /\ j \in 1 .. n2 /\ i # k + 1
    <3> HIDE DEF n, n2
    <3>1. k \in Nat /\ m \in Nat /\ k >= 1 /\ k <= n /\ n2 \in Nat /\ (n2 = k \/ n2 = k + 1)
          /\ m = n2
      BY <2>0, <2>n
    <3>2. ASSUME NEW i \in 1 .. n2
          PROVE  /\ i < k \/ i = k \/ (i = k + 1 /\ m = k + 1)
                 /\ i < k => i \in 1 .. n - 1 /\ i \in 1 .. k - 1
      BY <3>1, <2>n
    <3>3. ASSUME NEW i \in 1 .. n2, NEW j \in i + 1 .. n2
          PROVE  /\ i = k => j = k + 1 /\ m = k + 1
                 /\ j < k => i < k
                 /\ j <= k => j \in i + 1 .. n
                 /\ j \in 1 .. n2 /\ i # k + 1
      BY <3>1, <2>n
    <3> QED
      BY <3>1, <3>2, <3>3, <2>n
  <2> HIDE DEF n, n2
  <2>i. k = n \/ k < n
    BY <2>0, <2>n
  <2>c. \/ ctor' = ctor
        \/ MaterialiseMake \/ MaterialiseStore \/ MaterialiseFinish
    BY <1>2 DEF Step, MaterialiseStart, MaterialiseOwn, ApplyStart, ApplyEntry, ApplyDone,
       InstanceStart, InstanceMake, InstanceStamp, InstanceModelled, InstanceFinish, caches
  (* What the cache holds of a constructor whose members are being defined. *)
  <2>2. ASSUME NEW i \in 1 .. n - 1, Defining(i)
        PROVE  /\ ctor'[stack[i].realm][Owner(stack[i].tpl)] = "building"
               /\ Top.work = "materialise" /\ Top.tpl = stack[i].tpl /\ k = n
                    => stack'[k].at = "start"
    <3> DEFINE r == stack[i].realm
               o == Owner(stack[i].tpl)
    <3>1. i \in 1 .. n /\ n \in i + 1 .. n
      BY <2>n
    <3>2. /\ ctor[r][o] = "building"
          /\ Top.work = "materialise" /\ Top.tpl = stack[i].tpl => Top.at = "start"
      BY <3>1, <2>2, <2>n DEF BuildingOK, n
    <3>3. /\ r = Top.realm /\ r \in Realms /\ o \in Fns
          /\ stack[i].tpl = F(o) /\ Top.realm \in Realms
          /\ Top.work = "materialise" => Top.tpl = F(Owner(Top.tpl)) /\ Owner(Top.tpl) \in Fns
      <4>1. /\ stack[i].tpl = F(o) /\ o \in Fns /\ r \in Realms
            /\ r = stack[1].realm
        BY <3>1, <2>2, <1>0 DEF Defining, CallsOK, RealmsOK, n
      <4>2. n \in 1 .. n
        BY <2>n
      <4>3. Top.realm = stack[1].realm
        BY <4>2, <2>n DEF CallsOK, RealmsOK, n
      <4>4. Top.work = "materialise" => Top.tpl = F(Owner(Top.tpl)) /\ Owner(Top.tpl) \in Fns
        BY <4>2, <2>n, <1>0 DEF n
      <4> QED
        BY <4>1, <4>3, <4>4
    <3>4. Top.work = "materialise" /\ k = n => Top.tpl # stack[i].tpl
      BY <3>2, <3>3, <2>0 DEF Onward, Cached
    <3>5. ctor'[r][o] = "building"
      <4>1. CASE ctor' = ctor
        BY <4>1, <3>2
      <4>2. CASE MaterialiseMake \/ MaterialiseStore \/ MaterialiseFinish
        <5>1. /\ Top.work = "materialise" /\ Top.at # "start"
              /\ \E v : ctor' = [ctor EXCEPT ![Top.realm][Owner(Top.tpl)] = v]
          BY <4>2 DEF MaterialiseMake, MaterialiseStore, MaterialiseFinish, Working
        <5>2. Owner(Top.tpl) # o /\ Owner(Top.tpl) \in Fns
          BY <5>1, <3>2, <3>3
        <5> HIDE DEF r, o
        <5> QED
          BY <5>1, <5>2, <3>2, <3>3, <1>0, Stored
      <4> QED
        BY <4>1, <4>2, <1>2, <2>c
    <3> QED
      BY <3>4, <3>5, <2>n
  <2>3. ASSUME k = n, stack'[k].work = "materialise",
               stack'[k].at \in {"own", "finish"}
        PROVE  ctor'[stack'[k].realm][Owner(stack'[k].tpl)] = "building"
    <3>1. /\ Top.work = "materialise" /\ stack'[k].realm = Top.realm
          /\ stack'[k].tpl = Top.tpl /\ Top.at \in {"store", "own"}
      BY <2>3, <2>0, <2>n DEF SameCall, Onward
    <3>2. CASE MaterialiseStore
      <4>1. ctor' = [ctor EXCEPT ![Top.realm][Owner(Top.tpl)] = "building"]
        BY <3>2 DEF MaterialiseStore
      <4>2. Top.realm \in Realms /\ Owner(Top.tpl) \in Fns
        <5>1. n \in 1 .. n
          BY <2>n
        <5> QED
          BY <5>1, <3>1, <2>n, <1>0 DEF n
      <4> QED
        BY <4>1, <4>2, <3>1, <1>0, Stored
    <3>3. CASE MaterialiseOwn
      <4>1. ctor' = ctor /\ Defining(n) /\ n \in 1 .. n
        BY <3>3, <3>1, <2>n DEF MaterialiseOwn, Working, caches, Defining
      <4> QED
        BY <4>1, <3>1, <2>n DEF BuildingOK, n
    <3> QED
      BY <3>1, <3>2, <3>3 DEF Step, MaterialiseStart, MaterialiseMake, MaterialiseFinish,
         ApplyStart, ApplyEntry, ApplyDone, InstanceStart, InstanceMake, InstanceStamp,
         InstanceModelled, InstanceFinish, Working
  <2>4. ASSUME NEW i \in 1 .. n2, stack'[i].work = "materialise",
               stack'[i].at \in {"own", "finish"}
        PROVE  /\ ctor'[stack'[i].realm][Owner(stack'[i].tpl)] = "building"
               /\ \A j \in i + 1 .. n2 :
                    stack'[j].work = "materialise" /\ stack'[j].tpl = stack'[i].tpl
                      => stack'[j].at = "start"
    <3>1. CASE i = k /\ k = n
      BY <3>1, <2>0, <2>1, <2>3, <2>4
    <3>2. CASE i < k \/ (i = k /\ k < n)
      <4>1. /\ i \in 1 .. n - 1 /\ SameCall(stack'[i], stack[i])
            /\ stack'[i].at = stack[i].at
        BY <3>2, <2>0, <2>1, <2>4 DEF SameCall
      <4>2. Defining(i)
        BY <4>1, <2>4 DEF Defining, SameCall
      <4>3. ctor'[stack'[i].realm][Owner(stack'[i].tpl)] = "building"
        BY <4>1, <4>2, <2>2 DEF SameCall
      <4>4. ASSUME NEW j \in i + 1 .. n2, stack'[j].work = "materialise",
                   stack'[j].tpl = stack'[i].tpl
            PROVE  stack'[j].at = "start"
        <5>1. CASE j < k \/ (j = k /\ k < n)
          <6>1. /\ j \in i + 1 .. n /\ SameCall(stack'[j], stack[j])
                /\ stack'[j].at = stack[j].at
            BY <5>1, <2>0, <2>1, <4>4 DEF SameCall
          <6>2. i \in 1 .. n
            BY <4>1, <2>n
          <6> QED
            BY <6>1, <6>2, <4>1, <4>2, <4>4 DEF BuildingOK, SameCall, n
        <5>2. CASE j = k /\ k = n
          BY <5>2, <4>1, <4>2, <4>4, <2>0, <2>2, <2>n DEF SameCall
        <5>3. CASE j = k + 1 /\ m = k + 1
          BY <5>3, <2>0
        <5>4. j \in 1 .. n2
          BY <2>1
        <5>5. (j < k \/ j = k \/ (j = k + 1 /\ m = k + 1)) /\ (k = n \/ k < n)
          BY <5>4, <2>1, <2>i
        <5> QED
          BY <5>1, <5>2, <5>3, <5>5
      <4> QED
        BY <4>3, <4>4
    <3>3. CASE i = k + 1 /\ m = k + 1
      BY <3>3, <2>0, <2>4
    <3>4. (i < k \/ i = k \/ (i = k + 1 /\ m = k + 1)) /\ (k = n \/ k < n)
      BY <2>1, <2>i
    <3> QED
      BY <3>1, <3>2, <3>3, <3>4
  <2> QED
    BY <2>4 DEF BuildingOK, Defining, n2
<1> QED
  BY <1>1, <1>2, StackChanges

LEMMA TornFacts ==
  ASSUME NEW r \in Realms, NEW h \in Fns
  PROVE  Torn[r][h] \in {"torn", ctor[r][h]}
  BY DEF Torn

LEMMA StepBuildsOK == ASSUME IInv, CInv, Step PROVE BuildsOK'
<1> DEFINE n == Len(stack)
<1>0. /\ n \in Nat /\ n >= 1 /\ Top = stack[n]
      /\ ctor \in [Realms -> [Fns -> CtorStates]]
      /\ builds \in [Realms -> [Fns -> Nat]]
      /\ parent \in [Fns -> Fns \cup {NoParent}]
      /\ UNCHANGED <<made, parent, entries>>
      /\ \A i \in 1 .. n : stack[i] \in Sound(sealed)
  <2>1. /\ n \in Nat /\ n >= 1 /\ Top = stack[n]
        /\ \A i \in 1 .. n : stack[i] \in Sound(sealed)
    BY SharedGrows, StackElements DEF IInv, StackOK
  <2> HIDE DEF n
  <2> QED
    BY <2>1, SharedGrows DEF IInv, TypeOK, CtorStates
<1>c. CallsOK /\ ReachOK /\ BuildsOK
  BY DEF CInv
<1>1. \A h \in Fns : Behind(h)' <=> Behind(h)
  <2>1. \A s : Reaches(s)' = Reaches(s)
    BY <1>0 DEF Reaches, Children
  <2>2. \A t : Publishes(t)' = Publishes(t)
    BY <2>1 DEF Publishes
  <2> QED
    BY <2>2, <1>0 DEF Behind
<1>t. /\ Top.realm \in Realms
      /\ Top.work = "materialise" => Top.tpl = F(Owner(Top.tpl)) /\ Owner(Top.tpl) \in Fns
  <2>1. Top \in Sound(sealed)
    BY <1>0
  <2> QED
    BY <2>1, Names DEF Sound, Frames, Owner
<1>2. /\ used \subseteq used'
      /\ \/ builds' = builds /\ (ctor' = ctor \/ ctor' = Torn)
         \/ builds' = builds /\ Top.work = "materialise"
             /\ \E v \in {"building", "whole"} :
                  ctor' = [ctor EXCEPT ![Top.realm][Owner(Top.tpl)] = v]
         \/ MaterialiseMake
  BY DEF Step, MaterialiseStart, MaterialiseMake, MaterialiseStore, MaterialiseOwn,
     MaterialiseFinish, ApplyStart, ApplyEntry, ApplyDone, InstanceStart, InstanceMake,
     InstanceStamp, InstanceModelled, InstanceFinish, Working, caches
<1>m. ASSUME MaterialiseMake
      PROVE  /\ Top.work = "materialise" /\ Top.at = "make" /\ used' = used \cup {Top.tpl}
             /\ \E v \in {"half stored", "mixed"} :
                  ctor' = [ctor EXCEPT ![Top.realm][Owner(Top.tpl)] = v]
             /\ builds' = [builds EXCEPT ![Top.realm][Owner(Top.tpl)] =
                             builds[Top.realm][Owner(Top.tpl)] + 1]
  BY <1>m DEF MaterialiseMake, Working
<1>b. ASSUME NEW r \in Realms, NEW h \in Fns
      PROVE  /\ builds'[r][h] = builds[r][h]
                \/ /\ MaterialiseMake /\ Top.realm = r /\ Top.tpl = F(h)
                   /\ builds'[r][h] = builds[r][h] + 1
             /\ ctor'[r][h] = "none" => ctor[r][h] = "none"
             /\ builds'[r][h] # builds[r][h] => ctor'[r][h] # "none"
  <2>1. CASE builds' = builds /\ (ctor' = ctor \/ ctor' = Torn)
    BY <2>1, TornFacts
  <2>2. ASSUME builds' = builds, Top.work = "materialise",
               NEW v \in {"building", "whole"},
               ctor' = [ctor EXCEPT ![Top.realm][Owner(Top.tpl)] = v]
        PROVE  /\ builds'[r][h] = builds[r][h]
               /\ ctor'[r][h] = "none" => ctor[r][h] = "none"
    BY <2>2, <1>0, <1>t, Stored
  <2>3. CASE MaterialiseMake
    <3> DEFINE tr == Top.realm
               th == Owner(Top.tpl)
    <3>1. tr \in Realms /\ th \in Fns /\ Top.tpl = F(th)
      BY <2>3, <1>m, <1>t
    <3>2. PICK v \in {"half stored", "mixed"} :
          /\ ctor' = [ctor EXCEPT ![tr][th] = v]
          /\ builds' = [builds EXCEPT ![tr][th] = builds[tr][th] + 1]
      BY <2>3, <1>m
    <3> HIDE DEF tr, th
    <3>3. CASE r = tr /\ h = th
      <4>1. ctor'[r][h] = v
        BY <3>1, <3>2, <3>3, <1>0, Stored
      <4>2. builds'[r][h] = builds[r][h] + 1
        BY <3>1, <3>2, <3>3, <1>0, Stored
      <4> QED
        BY <4>1, <4>2, <3>1, <3>3, <2>3 DEF tr
    <3>4. CASE r # tr \/ h # th
      <4>1. ctor'[r][h] = ctor[r][h]
        BY <3>1, <3>2, <3>4, <1>0, Stored
      <4>2. builds'[r][h] = builds[r][h]
        BY <3>1, <3>2, <3>4, <1>0, Stored
      <4> QED
        BY <4>1, <4>2
    <3> QED
      BY <3>3, <3>4
  <2> QED
    BY <2>1, <2>2, <2>3, <1>2
<1>3. ASSUME NEW r \in Realms, NEW h \in Fns, NEW i \in 1 .. n - 1, Making(i, r, h),
             MaterialiseMake, Top.realm = r, Top.tpl = F(h)
      PROVE  Behind(h)
  <2>1. i \in 1 .. n /\ i + 1 \in 1 .. n /\ n \in 1 .. n /\ i + 1 <= n
    BY <1>0
  <2>2. CallsFor(stack[i], stack[i + 1])
    BY <1>c DEF CallsOK, ChainOK
  <2>3. /\ parent[Owner(F(h))] # NoParent
        /\ stack[i + 1].tpl = F(parent[Owner(F(h))])
    BY <2>2, <1>3 DEF CallsFor, Making
  <2>4. Owner(F(h)) = h
    BY DEF Owner, F
  <2>5. Top.tpl \in Publishes(stack[i + 1].tpl)
    BY <2>1, <1>0, <1>c DEF ReachOK
  <2>6. parent[h] \in Fns /\ parent[h] # NoParent
    BY <2>3, <2>4, <1>0
  <2> QED
    BY <2>3, <2>4, <2>5, <2>6, <1>3 DEF Behind
<1>4. ASSUME NEW r \in Realms, NEW h \in Fns, NEW i \in 1 .. n, Making(i, r, h),
             builds'[r][h] > 0, i = n => ~MaterialiseMake
      PROVE  Behind(h)
  <2>1. CASE builds'[r][h] = builds[r][h]
    BY <2>1, <1>4, <1>c DEF BuildsOK
  <2>2. CASE builds'[r][h] # builds[r][h]
    <3>1. MaterialiseMake /\ Top.realm = r /\ Top.tpl = F(h)
      BY <2>2, <1>b
    <3>2. i \in 1 .. n - 1
      BY <3>1, <1>4, <1>0
    <3> QED
      BY <3>1, <3>2, <1>3, <1>4
  <2> QED
    BY <2>1, <2>2
<1>5. ASSUME NEW r \in Realms, NEW h \in Fns, builds'[r][h] > 0,
             NEW i \in 1 .. Len(stack'), Making(i, r, h)'
      PROVE  Behind(h)
  <2>1. /\ stack'[i].work = "materialise" /\ stack'[i].at = "make"
        /\ stack'[i].tpl = F(h) /\ stack'[i].realm = r
    BY <1>5 DEF Making
  <2>2. PICK k, m : Changes(k, m)
    <3>1. stack' # <<>>
      BY <1>5, EmptySeq
    <3> QED
      BY <3>1, <1>c, StackChanges
  <2>3. /\ k \in 1 .. n /\ m \in {k, k + 1} /\ Len(stack') = m
        /\ \A j \in 1 .. k - 1 : stack'[j] = stack[j]
        /\ SameCall(stack'[k], stack[k])
        /\ k < n => stack'[k].at = stack[k].at
        /\ k = n => Onward(stack'[k].at)
        /\ m = k + 1 => stack'[m].at = "start"
    BY <2>2 DEF Changes, Begins
  <2> HIDE DEF n
  <2>4. \/ i \in 1 .. n - 1 /\ (i \in 1 .. k - 1 \/ (i = k /\ k < n))
        \/ i = k /\ k = n
        \/ i = k + 1 /\ m = k + 1
    BY <2>3, <1>0, <1>5
  <2>5. CASE i \in 1 .. n - 1 /\ (i \in 1 .. k - 1 \/ (i = k /\ k < n))
    <3>1. SameCall(stack'[i], stack[i]) /\ stack'[i].at = stack[i].at
      BY <2>3, <2>5 DEF SameCall
    <3>2. i \in 1 .. n /\ i # n
      BY <2>5, <1>0
    <3>3. Making(i, r, h)
      BY <3>1, <2>1 DEF Making, SameCall
    <3> QED
      BY <3>2, <3>3, <1>4, <1>5
  <2>6. CASE i = k /\ k = n
    <3>1. Top.work = "materialise" /\ Top.at = "start" /\ Cached = "none"
      BY <2>1, <2>3, <2>6, <1>0 DEF SameCall, Onward
    <3>2. ctor[r][h] = "none" /\ ~MaterialiseMake
      <4>1. Top.realm = r /\ Top.tpl = F(h)
        BY <2>1, <2>3, <2>6, <1>0 DEF SameCall
      <4>2. Owner(F(h)) = h
        BY DEF Owner, F
      <4> QED
        BY <3>1, <4>1, <4>2, <1>m DEF Cached
    <3>3. builds'[r][h] = builds[r][h]
      BY <3>2, <1>b
    <3> QED
      BY <3>2, <3>3, <1>5, <1>c DEF BuildsOK
  <2>7. CASE i = k + 1 /\ m = k + 1
    BY <2>1, <2>3, <2>7
  <2> QED
    BY <2>4, <2>5, <2>6, <2>7
<1>6. ASSUME NEW r \in Realms, NEW h \in Fns, builds'[r][h] > 0
      PROVE  /\ ctor'[r][h] # "none" /\ F(h) \in used'
             /\ builds'[r][h] > 1 => Behind(h)
  <2>1. CASE builds'[r][h] = builds[r][h]
    BY <2>1, <1>6, <1>b, <1>2, <1>c DEF BuildsOK
  <2>2. CASE builds'[r][h] # builds[r][h]
    <3>1. /\ MaterialiseMake /\ Top.realm = r /\ Top.tpl = F(h)
          /\ builds'[r][h] = builds[r][h] + 1 /\ ctor'[r][h] # "none"
      BY <2>2, <1>b
    <3>2. builds[r][h] \in Nat
      BY <1>0
    <3>3. builds[r][h] > 0 => Behind(h)
      <4>1. n \in 1 .. n
        BY <1>0
      <4>2. Making(n, r, h)
        BY <3>1, <1>0, <1>m DEF Making
      <4> QED
        BY <4>1, <4>2, <1>c DEF BuildsOK
    <3>4. builds'[r][h] > 1 => builds[r][h] > 0
      BY <3>1, <3>2
    <3> QED
      BY <3>1, <3>3, <3>4, <1>m
  <2> QED
    BY <2>1, <2>2
<1> QED
  BY <1>1, <1>5, <1>6 DEF BuildsOK

(* With no call in progress, or one that has just begun, little is left.   *)
LEMMA BeginsCInv ==
  ASSUME NestsOK',
         stack' = <<>> \/ \E work \in Works, t \in T, r \in Realms :
                             stack' = <<Frame(work, t, r)>>
  PROVE  CallsOK' /\ ReachOK' /\ BuildingOK'
<1>1. CASE stack' = <<>>
  BY <1>1, EmptySeq DEF CallsOK, ChainOK, RealmsOK, CountsOK, TopIsWhole, ReachOK, BuildingOK
<1>2. ASSUME NEW work \in Works, NEW t \in T, NEW r \in Realms,
             stack' = <<Frame(work, t, r)>>
      PROVE  CallsOK' /\ ReachOK' /\ BuildingOK'
  <2> DEFINE fr == Frame(work, t, r)
  <2>1. /\ Len(stack') = 1 /\ stack'[1] = fr /\ fr.at = "start" /\ fr.n = 0 /\ fr.got = 0
        /\ fr.tpl = t
    BY <1>2 DEF Frame
  <2>2. \A i : i \in 1 .. Len(stack') => i = 1
    BY <2>1
  <2> HIDE DEF fr
  <2>3. ChainOK'
    BY <2>1 DEF ChainOK
  <2>4. RealmsOK' /\ TopIsWhole'
    BY <2>1, <2>2 DEF RealmsOK, TopIsWhole, Whole
  <2>5. CountsOK'
    BY <2>1, <2>2 DEF CountsOK, Counts
  <2>6. ReachOK'
    <3>1. t \in Publishes(t)'
      BY DEF Publishes
    <3> QED
      BY <2>1, <2>2, <3>1 DEF ReachOK, Publishes
  <2>7. BuildingOK'
    BY <2>1, <2>2 DEF BuildingOK, Defining
  <2> QED
    BY <2>3, <2>4, <2>5, <2>6, <2>7 DEF CallsOK
<1> QED
  BY <1>1, <1>2

(* A declaration adds to what sealed templates reach, keeps their parents, *)
(* and sets on a template only what may be.                                *)
LEMMA DeclaringGrows ==
  ASSUME IInv, NestsOK, Declaring
  PROVE  /\ NestsOK' /\ stack = <<>> /\ UNCHANGED <<used, caches, stack>>
         /\ \A s \in sealed : Reaches(s) \subseteq Reaches(s)'
         /\ \A f \in Fns : F(f) \in sealed => parent'[f] = parent[f]
<1> DEFINE Grown == /\ NestsOK' /\ stack = <<>> /\ UNCHANGED <<used, caches, stack>>
                    /\ \A s \in sealed : Reaches(s) \subseteq Reaches(s)'
                    /\ \A f \in Fns : F(f) \in sealed => parent'[f] = parent[f]
<1>0. /\ sealed \subseteq T /\ made \subseteq T
      /\ parent \in [Fns -> Fns \cup {NoParent}]
      /\ entries \in [T -> Seq([kind : EntryKinds, child : T \cup {Nothing}])]
  BY DEF IInv, TypeOK
<1>1. ASSUME NEW t \in T, NEW e \in [kind : EntryKinds, child : T \cup {Nothing}],
             e.kind = "child" => e.child \in T /\ <<t, e.child>> \in Nests, AddEntry(t, e)
      PROVE  Grown
  <2>1. /\ stack = <<>> /\ UNCHANGED <<parent, used, caches, stack>>
        /\ entries' = [entries EXCEPT ![t] = Append(entries[t], e)]
    BY <1>1 DEF AddEntry, Idle
  <2>2. /\ \A s \in T \ {t} : Reaches(s)' = Reaches(s)
        /\ Reaches(t) \subseteq Reaches(t)'
    BY <1>1, EntryAdded
  <2>3. NestsOK'
    <3> DEFINE Es == [kind : EntryKinds, child : T \cup {Nothing}]
    <3>1. entries[t] \in Seq(Es) /\ e \in Es
      BY <1>0, <1>1
    <3> HIDE DEF Es
    <3> DEFINE q == Append(entries[t], e)
    <3>2. /\ Len(q) = Len(entries[t]) + 1 /\ q[Len(entries[t]) + 1] = e
          /\ Len(entries[t]) \in Nat
          /\ \A i \in 1 .. Len(entries[t]) : q[i] = entries[t][i]
      BY <3>1, AppendFacts, LenProperties
    <3> HIDE DEF q
    <3>3. entries'[t] = q /\ \A s \in T \ {t} : entries'[s] = entries[s]
      BY <2>1, <1>0 DEF q
    <3>4. ASSUME NEW i \in 1 .. Len(q), q[i].kind = "child"
          PROVE  <<t, q[i].child>> \in Nests
      <4>1. CASE i = Len(entries[t]) + 1
        BY <4>1, <3>2, <3>4, <1>1
      <4>2. CASE i # Len(entries[t]) + 1
        <5>1. i \in 1 .. Len(entries[t])
          BY <4>2, <3>2
        <5> QED
          BY <5>1, <3>2, <3>4 DEF NestsOK
      <4> QED
        BY <4>1, <4>2
    <3> QED
      BY <3>3, <3>4 DEF NestsOK
  <2> QED
    BY <2>1, <2>2, <2>3, <1>0
<1>2. ASSUME NEW t \in T, NEW kind \in PlainKinds, AddEntry(t, Entry(kind, Nothing))
      PROVE  Grown
  <2>1. /\ Entry(kind, Nothing) \in [kind : EntryKinds, child : T \cup {Nothing}]
        /\ Entry(kind, Nothing).kind # "child"
    BY DEF Entry, EntryKinds, PlainKinds
  <2> QED
    BY <2>1, <1>1, <1>2
<1>3. ASSUME NEW t \in T, NEW value \in T, TemplateSetTemplate(t, value) PROVE Grown
  <2>1. /\ Entry("child", value) \in [kind : EntryKinds, child : T \cup {Nothing}]
        /\ Entry("child", value).child = value
    BY DEF Entry, EntryKinds
  <2>2. <<t, value>> \in Nests /\ AddEntry(t, Entry("child", value))
    BY <1>3 DEF TemplateSetTemplate
  <2> QED
    BY <2>1, <2>2, <1>1
<1>4. ASSUME NEW f \in Fns, NEW t, TemplateNew(f, t) PROVE Grown
  <2>1. /\ stack = <<>> /\ UNCHANGED <<parent, used, caches, stack, entries>>
        /\ made \subseteq made'
    BY <1>4 DEF TemplateNew, Idle
  <2>2. NestsOK'
    BY <2>1 DEF NestsOK
  <2>3. \A s \in sealed : Reaches(s) \subseteq Reaches(s)'
    BY <2>1 DEF Reaches, Children
  <2> QED
    BY <2>1, <2>2, <2>3
<1>5. ASSUME NEW t \in T, SetShape(t) PROVE Grown
  <2>1. stack = <<>> /\ UNCHANGED <<made, parent, used, caches, stack, entries>>
    BY <1>5 DEF SetShape, Idle
  <2> QED
    BY <2>1 DEF NestsOK, Reaches, Children
<1>6. ASSUME NEW f \in Fns, NEW p \in Fns, TemplateInherit(f, p) PROVE Grown
  <2>1. /\ stack = <<>> /\ UNCHANGED <<made, used, caches, stack, entries>>
        /\ F(f) \notin sealed
        /\ parent' = [parent EXCEPT ![f] = p]
    BY <1>6 DEF TemplateInherit, Idle
  <2>2. \A g \in Fns : F(g) \in sealed => parent'[g] = parent[g]
    BY <2>1, <1>0
  <2>3. ASSUME NEW s \in sealed PROVE Reaches(s)' = Reaches(s)
    <3>1. s[1] = "function" => parent'[s[2]] = parent[s[2]]
      BY <2>2, <2>3, <1>0, Names
    <3> QED
      BY <2>1, <3>1 DEF Reaches, Children
  <2> QED
    BY <2>1, <2>2, <2>3 DEF NestsOK
<1> QED
  BY <1>2, <1>3, <1>4, <1>5, <1>6 DEF Declaring, TemplateSetConstant, TemplateSetMethod,
     TemplateSetSymbolMethod, TemplateSetAccessor, TemplatePrototype, TemplateInstance,
     PlainKinds

LEMMA NextCInv == ASSUME IInv, CInv, [Next]_vars PROVE CInv'
<1>0. /\ TypeOK /\ UsedIsSealed /\ NestsOK /\ BuildsOK /\ used \subseteq sealed
      /\ parent \in [Fns -> Fns \cup {NoParent}]
  BY DEF IInv, CInv, CallsOK, UsedIsSealed, TypeOK
<1>s. ASSUME UNCHANGED <<made, parent, entries>>
      PROVE  /\ NestsOK'
             /\ \A t : Publishes(t)' = Publishes(t)
             /\ \A h \in Fns : Behind(h) => Behind(h)'
  <2>1. made' = made /\ parent' = parent /\ entries' = entries
    BY <1>s
  <2>2. \A s : Reaches(s)' = Reaches(s)
    BY <2>1 DEF Reaches, Children
  <2>3. \A t : Publishes(t)' = Publishes(t)
    BY <2>2 DEF Publishes
  <2>4. NestsOK'
    BY <2>1, <1>0 DEF NestsOK
  <2> QED
    BY <2>1, <2>3, <2>4 DEF Behind
<1>1. CASE UNCHANGED vars
  <2>1. /\ UNCHANGED <<engine, made, sealed, parent, shape, entries>>
        /\ UNCHANGED <<used, ctor, builds, shared, model, stack, failures>>
    BY <1>1 DEF vars, declared, caches
  <2>2. ChainOK' /\ RealmsOK' /\ TopIsWhole'
    BY <2>1 DEF CInv, CallsOK, ChainOK, CallsFor, RealmsOK, TopIsWhole, Whole, MembersOf,
       Target, ShapeOf
  <2>3. CountsOK'
    BY <2>1 DEF CInv, CallsOK, CountsOK, Counts, HasSharedFunctions, ShapeOf
  <2>4. ReachOK' /\ NestsOK'
    BY <2>1, <1>s DEF CInv, ReachOK
  <2>5. BuildingOK'
    BY <2>1 DEF CInv, BuildingOK, Defining
  <2>6. BuildsOK'
    BY <2>1, <1>0, <1>s DEF BuildsOK, Making
  <2> QED
    BY <2>2, <2>3, <2>4, <2>5, <2>6 DEF CInv, CallsOK
<1>2. CASE Declaring
  <2>1. /\ NestsOK' /\ stack = <<>> /\ UNCHANGED <<used, ctor, builds, stack>>
        /\ \A s \in sealed : Reaches(s) \subseteq Reaches(s)'
        /\ \A f \in Fns : F(f) \in sealed => parent'[f] = parent[f]
    BY <1>0, <1>2, DeclaringGrows DEF caches
  <2>2. ASSUME NEW h \in Fns, F(h) \in used, Behind(h) PROVE Behind(h)'
    <3>1. PICK p \in Fns : parent[h] = p /\ p # NoParent /\ F(h) \in Publishes(F(p))
      BY <2>2 DEF Behind
    <3>2. F(h) \in sealed /\ parent'[h] = p
      BY <2>1, <2>2, <3>1, <1>0
    <3>3. F(p) \in Reaches(F(h))
      <4>1. F(h)[1] = "function" /\ F(h)[2] = h
        BY DEF F
      <4> QED
        BY <3>1, <4>1 DEF Reaches
    <3>4. F(p) \in sealed
      BY <3>2, <3>3, <1>0 DEF UsedIsSealed
    <3>5. F(h) \in Publishes(F(p))'
      BY <3>1, <3>4, <2>1, <1>0, PublishGrows
    <3> QED
      BY <3>1, <3>2, <3>5 DEF Behind
  <2>3. BuildsOK'
    BY <2>1, <2>2, <1>0, EmptySeq DEF BuildsOK
  <2> QED
    BY <2>1, <2>3, BeginsCInv DEF CInv
<1>3. CASE Calls
  <2>1. /\ UNCHANGED <<made, parent, entries>> /\ used \subseteq used' /\ ctor' = ctor /\ builds' = builds
        /\ \/ stack' = <<>>
           \/ \E work \in Works, t \in T, r \in Realms : stack' = <<Frame(work, t, r)>>
    <3>1. ASSUME NEW t \in T, EngineInstantiates(t)
          PROVE  /\ UNCHANGED <<made, parent, entries>>
                 /\ used \subseteq used' /\ ctor' = ctor /\ builds' = builds
                 /\ stack' = <<>>
      BY <3>1 DEF EngineInstantiates, Idle, caches
    <3>2. \A f \in Fns : F(f) \in T
      BY Names
    <3> QED
      BY <1>3, <3>1, <3>2 DEF Calls, TemplateGetFunction, TemplateNewInstance, caches,
         declared, Works
  <2>2. ASSUME NEW i \in 1 .. Len(stack') PROVE stack'[i].at = "start"
    BY <2>1, <2>2, EmptySeq DEF Frame
  <2>3. BuildsOK'
    BY <2>1, <2>2, <1>0, <1>s DEF BuildsOK, Making
  <2> QED
    BY <2>1, <2>3, <1>s, BeginsCInv DEF CInv
<1>4. CASE Fail
  <2>1. /\ UNCHANGED <<made, parent, entries>> /\ used' = used /\ builds' = builds
        /\ ctor' = Torn /\ stack' = <<>>
    BY <1>4 DEF Fail, GiveUp, declared
  <2>2. BuildsOK'
    BY <2>1, <1>0, <1>s, TornFacts, EmptySeq DEF BuildsOK
  <2> QED
    BY <2>1, <2>2, <1>s, BeginsCInv DEF CInv
<1>5. CASE Step
  <2>1. CallsOK'
    BY <1>5, StepCallsOK DEF CInv
  <2>2. ReachOK'
    BY <1>5, StepReachOK DEF CInv
  <2>3. BuildingOK'
    BY <1>5, StepBuildingOK DEF CInv
  <2> QED
    BY <2>1, <2>2, <2>3, <1>5, StepBuildsOK DEF CInv
<1> QED
  BY <1>1, <1>2, <1>3, <1>4, <1>5 DEF Next

LEMMA InitCInv == Init => CInv
<1> SUFFICES ASSUME Init PROVE CInv
  OBVIOUS
<1>1. stack = <<>> /\ \A t \in T : entries[t] = <<>>
  BY DEF Init
<1>2. CallsOK
  BY <1>1, EmptySeq DEF CallsOK, NestsOK, ChainOK, RealmsOK, CountsOK, TopIsWhole
<1>3. ReachOK /\ BuildingOK
  BY <1>1, EmptySeq DEF ReachOK, BuildingOK
<1>4. BuildsOK
  BY DEF Init, BuildsOK
<1> QED
  BY <1>2, <1>3, <1>4 DEF CInv

(* The calls in progress and the caches agree, whatever is declared.       *)
THEOREM CallsInvariance == Spec => [](IInv /\ CInv)
<1>1. Init => IInv /\ CInv
  BY InitIInv, InitCInv
<1>2. (IInv /\ CInv) /\ [Next]_vars => (IInv /\ CInv)'
  BY NextIInv, NextCInv
<1> QED
  BY <1>1, <1>2, PTL DEF Spec

(* What is finished has every member declared by then.                     *)
THEOREM WholeWhenFinished == Spec => []FinishedIsWhole
<1>1. IInv /\ CInv => FinishedIsWhole
  <2> SUFFICES ASSUME CInv, NEW i \in 1 .. Len(stack), i = Len(stack),
                      stack[i].at = "finish"
               PROVE  stack[i].got = MembersOf(Target(stack[i]))
    BY DEF FinishedIsWhole, MembersOf, Target
  <2>1. stack # <<>>
    BY EmptySeq
  <2> QED
    BY <2>1 DEF CInv, CallsOK, TopIsWhole, Whole
<1> QED
  BY <1>1, CallsInvariance, PTL

(* A realm makes a template's constructor once, or its parent's            *)
(* instantiation comes back to it.                                         *)
THEOREM MadeOnce == Spec => []OneConstructor
<1>1. IInv /\ CInv => OneConstructor
  <2> SUFFICES ASSUME IInv, CInv, NEW r \in Realms, NEW f \in Fns, builds[r][f] > 1
               PROVE  Behind(f)
    BY DEF OneConstructor, Behind
  <2>1. builds[r][f] \in Nat
    BY DEF IInv, TypeOK
  <2>2. builds[r][f] > 0
    BY <2>1
  <2> QED
    BY <2>2 DEF CInv, BuildsOK
<1> QED
  BY <1>1, CallsInvariance, PTL

(* While no constructor's members are being defined, a call from an object *)
(* template's replay is for another that was set on it.                    *)
LEMMA ReplayNests ==
  ASSUME IInv, CInv, NEW i \in 1 .. Len(stack), NEW j \in 1 .. Len(stack),
         i < j, stack[i].work = "apply", stack[j].work = "apply",
         \A k \in i .. j : ~Defining(k)
  PROVE  \A k \in i .. j :
           /\ stack[k].work # "materialise"
           /\ k < j /\ stack[k].work = "apply" =>
                /\ k + 2 \in i .. j /\ stack[k + 2].work = "apply"
                /\ stack[k + 2].tpl[1] # "function"
                /\ <<stack[k].tpl, stack[k + 2].tpl>> \in Nests
<1> DEFINE n == Len(stack)
<1>0. n \in Nat /\ i \in Nat /\ j \in Nat /\ j <= n /\ i >= 1
      /\ \A k \in 1 .. n : stack[k] \in Frames /\ stack[k].tpl \in T
  <2>1. stack \in Seq(Frames)
    BY DEF IInv, TypeOK, Frames
  <2>2. n \in Nat /\ \A k \in 1 .. n : stack[k] \in Frames
    BY <2>1, LenProperties, ElementOfSeq
  <2>3. \A k \in 1 .. n : stack[k].tpl \in T
    BY <2>2 DEF Frames
  <2> HIDE DEF n
  <2>4. i \in 1 .. n /\ j \in 1 .. n
    BY DEF n
  <2> QED
    BY <2>2, <2>3, <2>4
<1> HIDE DEF n
<1>c. \A k \in 1 .. n - 1 : CallsFor(stack[k], stack[k + 1])
  BY DEF CInv, CallsOK, ChainOK, n
<1>1. ASSUME NEW k \in i .. j, stack[k].work = "materialise" PROVE FALSE
  <2> DEFINE S == {x \in k .. j : stack[x].work # "materialise"}
  <2>1. j \in S /\ S \subseteq Nat
    BY <1>0, <1>1
  <2> HIDE DEF S
  <2>2. PICK x \in S : \A y \in S : x <= y
    BY <2>1, LeastNumber
  <2>3. x \in k .. j /\ stack[x].work # "materialise"
    BY <2>2 DEF S
  <2>4. x # k /\ k \in Nat
    BY <2>3, <1>1, <1>0
  <2>5. x - 1 \in k .. j /\ x - 1 \in 1 .. n - 1 /\ (x - 1) + 1 = x /\ x - 1 \in i .. j
        /\ ~(x <= x - 1)
    BY <2>3, <2>4, <1>0
  <2>6. stack[x - 1].work = "materialise"
    BY <2>2, <2>5 DEF S
  <2>7. CallsFor(stack[x - 1], stack[x])
    BY <2>5, <1>c
  <2>8. stack[x].work = "materialise"
    BY <2>5, <2>6, <2>7 DEF CallsFor, Defining
  <2> QED
    BY <2>3, <2>8
<1>2. ASSUME NEW k \in i .. j, k < j, stack[k].work = "apply"
      PROVE  /\ k + 2 \in i .. j /\ stack[k + 2].work = "apply"
             /\ stack[k + 2].tpl[1] # "function"
             /\ <<stack[k].tpl, stack[k + 2].tpl>> \in Nests
  <2> DEFINE a == stack[k]
             b == stack[k + 1]
             c == stack[k + 2]
  <2>1. k \in 1 .. n - 1 /\ k + 1 \in i .. j /\ k \in 1 .. n /\ k \in Nat
    BY <1>0, <1>2
  <2>2. CallsFor(a, b) /\ b.work # "materialise" /\ a.tpl \in T
    BY <2>1, <1>0, <1>1, <1>c
  <2>3. /\ b.work = "instance" /\ b.tpl[1] # "function"
        /\ <<a.tpl, b.tpl>> \in Nests
    <3>1. /\ b.work = "instance" /\ b.tpl[1] # "function"
          /\ \E m \in 1 .. Len(entries[a.tpl]) : entries[a.tpl][m] = Entry("child", b.tpl)
      BY <2>2, <1>2 DEF CallsFor
    <3>2. PICK m \in 1 .. Len(entries[a.tpl]) : entries[a.tpl][m] = Entry("child", b.tpl)
      BY <3>1
    <3>3. entries[a.tpl][m].kind = "child" /\ entries[a.tpl][m].child = b.tpl
      BY <3>2 DEF Entry
    <3>4. NestsOK
      BY DEF CInv, CallsOK
    <3> QED
      BY <3>1, <3>3, <3>4, <2>2 DEF NestsOK
  <2>4. k + 1 < j
    <3>1. k + 1 # j
      BY <2>3
    <3> QED
      BY <3>1, <1>2, <2>1, <1>0
  <2>5. k + 2 \in i .. j /\ k + 1 \in 1 .. n - 1 /\ (k + 1) + 1 = k + 2
    BY <2>1, <2>4, <1>0
  <2>6. CallsFor(b, c) /\ c.work # "materialise"
    BY <2>5, <1>1, <1>c
  <2> HIDE DEF a, b, c
  <2>7. c.work = "apply" /\ c.tpl = b.tpl
    BY <2>3, <2>6 DEF CallsFor, ShapeOf
  <2> QED
    BY <2>3, <2>5, <2>7 DEF a, b, c
<1> QED
  BY <1>1, <1>2

(* Templates that mention themselves are instantiated all the same: no     *)
(* constructor's members are defined within their own defining, and an     *)
(* object template's only when a constructor began in between.             *)
THEOREM RecursionEnds == Spec => []NoEndlessNesting
<1>1. ASSUME IInv, CInv PROVE NoEndlessNesting
  <2>0. Len(stack) \in Nat /\ \A k \in 1 .. Len(stack) : stack[k].tpl \in T
    <3>1. \A k \in 1 .. Len(stack) : stack[k] \in Frames
      BY <1>1, ElementOfSeq DEF IInv, TypeOK, Frames
    <3> QED
      BY <3>1, <1>1, LenProperties DEF IInv, TypeOK, Frames
  <2>1. ASSUME NEW i \in 1 .. Len(stack), NEW j \in 1 .. Len(stack), i < j,
               stack[i].work = stack[j].work, stack[i].tpl = stack[j].tpl,
               Defining(i), Defining(j)
        PROVE  FALSE
    <3>1. j \in i + 1 .. Len(stack)
      BY <2>0, <2>1
    <3>2. stack[j].at = "start"
      BY <3>1, <2>1, <1>1 DEF CInv, BuildingOK, Defining
    <3> QED
      BY <3>2, <2>1 DEF Defining
  <2>2. ASSUME NEW i \in 1 .. Len(stack), NEW j \in 1 .. Len(stack), i < j,
               stack[i].work = stack[j].work, stack[i].tpl = stack[j].tpl,
               stack[i].work = "apply", \A k \in i .. j : ~Defining(k)
        PROVE  FALSE
    <3> DEFINE Replay(k) == k \in i .. j /\ k < j /\ stack[k].work = "apply"
               S == {t \in T : \E k \in i .. j : Replay(k) /\ stack[k + 2].tpl = t}
               Follows(k) == /\ k + 2 \in i .. j /\ stack[k + 2].work = "apply"
                             /\ stack[k + 2].tpl[1] # "function"
                             /\ <<stack[k].tpl, stack[k + 2].tpl>> \in Nests
    <3>1. \A k \in i .. j : Replay(k) => Follows(k)
      BY <2>2, <1>1, ReplayNests
    <3>2. /\ i \in i .. j /\ Replay(i)
          /\ \A k \in i .. j : k \in 1 .. Len(stack) /\ (k < j \/ k = j)
      BY <2>0, <2>2
    <3>3. ASSUME NEW k \in i .. j, Replay(k)
          PROVE  stack[k + 2].tpl \in S /\ <<stack[k].tpl, stack[k + 2].tpl>> \in Nests
      <4> HIDE DEF Replay
      <4>1. k + 2 \in i .. j /\ <<stack[k].tpl, stack[k + 2].tpl>> \in Nests
        BY <3>1, <3>3
      <4>2. stack[k + 2].tpl \in T
        BY <4>1, <3>2, <2>0
      <4> QED
        BY <4>1, <4>2, <3>3
    <3>4. ASSUME NEW s \in S PROVE \E t \in S : <<s, t>> \in Nests
      <4>1. PICK k \in i .. j : Replay(k) /\ stack[k + 2].tpl = s
        OBVIOUS
      <4>2. k + 2 \in i .. j /\ stack[k + 2].work = "apply"
        BY <4>1, <3>1
      <4>3. CASE k + 2 < j
        <5>1. Replay(k + 2)
          BY <4>2, <4>3
        <5> QED
          BY <5>1, <4>1, <4>2, <3>3
      <4>4. CASE k + 2 = j
        BY <4>1, <4>4, <2>2, <3>2, <3>3
      <4> QED
        BY <4>2, <4>3, <4>4, <3>2
    <3>5. S \subseteq ObjectTemplates
      <4>1. \A t \in T : t[1] # "function" => t \in ObjectTemplates
        BY DEF T, F
      <4> QED
        BY <4>1, <3>1
    <3>6. stack[i + 2].tpl \in S
      BY <3>2, <3>3
    <3> HIDE DEF S
    <3> QED
      BY <3>4, <3>5, <3>6, EndingAssumption
  <2> QED
    BY <2>1, <2>2 DEF NoEndlessNesting
<1> QED
  BY <1>1, CallsInvariance, PTL

=============================================================================
