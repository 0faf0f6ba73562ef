------------------------------ MODULE Lifetime -------------------------------
(***************************************************************************)
(* What an isolate hands out and what it takes over, until it has gone.    *)
(*                                                                         *)
(* It hands out Contexts (a counted record that roots a realm), Globals    *)
(* and functions; it takes over boxes, each a wrapper's share of a native. *)
(* An engine says late, or not at all, that an object has been collected,  *)
(* so boxes and callback records are also filed on the isolate, which      *)
(* gives back what is left in its destructor.  A native may itself own     *)
(* Contexts and Globals, and lets go of them when its box is destroyed: in *)
(* a finalizer, between the two halves of a hand-over, or at teardown.     *)
(*                                                                         *)
(* One thread; the collector runs wherever an operation allocates.  A      *)
(* native's destructor gives back what it owns and does not run script.    *)
(* The engine drops finalizers it has not run when the isolate is          *)
(* disposed.                                                               *)
(***************************************************************************)
EXTENDS Bringup, SequencesExt

CONSTANTS
  Boxes,     \* boxes the embedder may make: one wrapper each
  Realms,    \* contexts it may make
  Fns,       \* functions it may make with Function::New
  MaxCopies, \* bound on the embedder's own copies of one Context
  MaxDepth   \* bound on operations in progress

ASSUME LifetimeBounds == MaxCopies \in Nat \ {0} /\ MaxDepth \in Nat
ASSUME FiniteAssumption == IsFiniteSet(Boxes) /\ IsFiniteSet(Realms)
ASSUME KindsDiffer ==
  /\ Boxes \cap Realms = {} /\ Boxes \cap Fns = {}
  /\ Realms \cap {"no realm", "stale"} = {}

VARIABLES
  box,      \* each box's stage
  deaths,   \* how often each box has been destroyed
  holds,    \* the Contexts and Globals a box's native owns
  filed,    \* Impl::liveNatives
  rec,      \* each realm's ContextRec: none, live, freed
  refs,     \* ContextRec::refs
  slot,     \* what the realm's global finds its record through
  copies,   \* Contexts the embedder holds in variables of its own
  roots,    \* boxes whose wrapper the embedder holds a Global of
  embedderRefs, \* Impl::embedderRefs
  fn,       \* each function's stage
  home,     \* the realm it was made in
  records,  \* functions with an entry in Impl::callbacks
  reach,    \* wrappers and functions that script or a handle reaches
  ops       \* operations in progress, innermost last

natives == <<box, deaths, holds, filed>>
contextState == <<rec, refs, slot, copies>>
functions == <<fn, home, records>>
vars == <<engine, bringup, natives, contextState, roots, embedderRefs,
          functions, reach, ops>>

-----------------------------------------------------------------------------
NoRealm == "no realm"
Stale == "stale"   \* a pointer to a record that has been freed

Op(kind, subject, ctx) == [kind |-> kind, subject |-> subject, ctx |-> ctx]
Busy == ops # <<>>
Top == ops[Len(ops)]
Kinds == {"call", "construct", "wrap"}

TypeOK ==
  /\ BringupTypeOK
  /\ box \in [Boxes -> {"unmade", "given", "wrapped", "fired", "spent"}]
  /\ deaths \in [Boxes -> Nat]
  /\ holds \in [Boxes -> SUBSET (Realms \cup Boxes)]
  /\ filed \subseteq Boxes
  /\ rec \in [Realms -> {"none", "live", "freed"}]
  /\ refs \in [Realms -> Int]
  /\ slot \in [Realms -> {"none", "record", "blank"}]
  /\ copies \in [Realms -> 0 .. MaxCopies]
  /\ roots \subseteq Boxes
  /\ embedderRefs \in Int
  /\ fn \in [Fns -> {"unmade", "made", "fired", "gone"}]
  /\ home \in [Fns -> Realms \cup {NoRealm}]
  /\ records \subseteq Fns
  /\ reach \subseteq Boxes \cup Fns
  /\ ops \in Seq([kind : Kinds, subject : Boxes \cup Fns,
                  ctx : Realms \cup {NoRealm, Stale}])

Init ==
  /\ BringupInit
  /\ box = [b \in Boxes |-> "unmade"] /\ deaths = [b \in Boxes |-> 0]
  /\ holds = [b \in Boxes |-> {}] /\ filed = {}
  /\ rec = [r \in Realms |-> "none"] /\ refs = [r \in Realms |-> 0]
  /\ slot = [r \in Realms |-> "none"] /\ copies = [r \in Realms |-> 0]
  /\ roots = {} /\ embedderRefs = 0
  /\ fn = [f \in Fns |-> "unmade"] /\ home = [f \in Fns |-> NoRealm]
  /\ records = {} /\ reach = {} /\ ops = <<>>

(* Embedder code runs at top level, in a callback and in a constructor;    *)
(* the collector also runs inside a hand-over.                             *)
EmbedderRuns == isolate = "live" /\ (Busy => Top.kind # "wrap")
Room == Len(ops) < MaxDepth
Running(x) == \E i \in 1 .. Len(ops) : ops[i].subject = x
Fresh(b) == box[b] = "unmade" /\ ~Running(b)
Rooted(b) == b \in roots \/ \E o \in Boxes : b \in holds[o]
Usable(r) == copies[r] > 0 \/ (Busy /\ Top.ctx = r)

-----------------------------------------------------------------------------
(* Contexts.  A record made for a realm is found again from the realm's    *)
(* own slot.  The last reference to go frees it; SpiderMonkey's backend    *)
(* blanks the slot first, unless the engine has already let its roots go.  *)
NewContext(r) ==
  /\ EmbedderRuns /\ rec[r] = "none"
  /\ rec' = [rec EXCEPT ![r] = "live"] /\ refs' = [refs EXCEPT ![r] = 1]
  /\ slot' = [slot EXCEPT ![r] = "record"]
  /\ copies' = [copies EXCEPT ![r] = 1]
  /\ embedderRefs' = embedderRefs + 1
  /\ UNCHANGED <<engine, bringup, natives, roots, functions, reach, ops>>

(* Mutant: a copy that is not counted.                                     *)
CopyUncounted(r) ==
  /\ EmbedderRuns /\ Usable(r) /\ copies[r] < MaxCopies
  /\ copies' = [copies EXCEPT ![r] = @ + 1]
  /\ UNCHANGED <<engine, bringup, natives, rec, refs, slot, roots, embedderRefs,
                 functions, reach, ops>>

RetainContext(r) ==
  /\ EmbedderRuns /\ Usable(r) /\ copies[r] < MaxCopies
  /\ refs' = [refs EXCEPT ![r] = @ + 1]
  /\ copies' = [copies EXCEPT ![r] = @ + 1]
  /\ UNCHANGED <<engine, bringup, natives, rec, slot, roots, embedderRefs,
                 functions, reach, ops>>

(* Mutant: the realm goes on pointing at a record that has gone.           *)
NeverBlanks == FALSE
Blanks == ~V8 /\ isolate = "live"

(* One reference to each of S is released.                                 *)
Dropping(S) == {r \in Realms \cap S : refs[r] = 1}
Released(S) ==
  /\ refs' = [r \in Realms |-> refs[r] - (IF r \in S THEN 1 ELSE 0)]
  /\ rec' = [r \in Realms |-> IF r \in Dropping(S) THEN "freed" ELSE rec[r]]
  /\ slot' = [r \in Realms |->
               IF Blanks /\ r \in Dropping(S) THEN "blank" ELSE slot[r]]

ReleaseContext(r) ==
  /\ EmbedderRuns /\ copies[r] > 0
  /\ Released({r})
  /\ copies' = [copies EXCEPT ![r] = @ - 1]
  /\ embedderRefs' = embedderRefs - Cardinality(Dropping({r}))
  /\ UNCHANGED <<engine, bringup, natives, roots, functions, reach, ops>>

(* What a native call finds when it asks which Context it is in.           *)
CurrentContext(r) ==
  CASE slot[r] = "blank" -> NoRealm
    [] rec[r] = "live" -> r
    [] OTHER -> Stale

-----------------------------------------------------------------------------
(* Globals.                                                                *)
MakeGlobal(b) ==
  /\ EmbedderRuns /\ b \in reach /\ b \notin roots
  /\ roots' = roots \cup {b} /\ embedderRefs' = embedderRefs + 1
  /\ UNCHANGED <<engine, bringup, natives, contextState, functions, reach, ops>>

ReleaseGlobal(b) ==
  /\ EmbedderRuns /\ b \in roots
  /\ roots' = roots \ {b} /\ embedderRefs' = embedderRefs - 1
  /\ UNCHANGED <<engine, bringup, natives, contextState, functions, reach, ops>>

GlobalToSlot(b) ==
  /\ EmbedderRuns /\ b \in roots /\ b \notin reach
  /\ reach' = reach \cup {b}
  /\ UNCHANGED <<engine, bringup, natives, contextState, roots, embedderRefs,
                 functions, ops>>

ScriptDrops(x) ==
  /\ isolate = "live" /\ x \in reach
  /\ reach' = reach \ {x}
  /\ UNCHANGED <<engine, bringup, natives, contextState, roots, embedderRefs,
                 functions, ops>>

-----------------------------------------------------------------------------
(* Boxes.  Destroying one runs the native's destructor, which gives back   *)
(* what the native owns.                                                   *)
DestroyBox(b) ==
  /\ box' = [box EXCEPT ![b] = "spent"]
  /\ deaths' = [deaths EXCEPT ![b] = @ + 1]
  /\ holds' = [holds EXCEPT ![b] = {}]
  /\ Released(holds[b])
  /\ embedderRefs' = embedderRefs - Cardinality(Dropping(holds[b]))
                                  - Cardinality(holds[b] \cap Boxes)

(* A native takes copies of what the embedder has.                         *)
Holdings ==
  {{}} \cup {{r} : r \in {q \in Realms : Usable(q)}} \cup {{b} : b \in roots}

TakeHoldings(b, H) ==
  /\ holds' = [holds EXCEPT ![b] = H]
  /\ refs' = [r \in Realms |-> refs[r] + (IF r \in H THEN 1 ELSE 0)]
  /\ embedderRefs' = embedderRefs + Cardinality(H \cap Boxes)

(* Class<T>::Wrap makes the box, and ClassInstantiate consumes it whatever *)
(* happens.  V8's files it before the engine is asked for anything.        *)
Wrap(b, H) ==
  /\ EmbedderRuns /\ Room /\ Fresh(b)
  /\ \E r \in Realms : Usable(r)
  /\ box' = [box EXCEPT ![b] = "given"]
  /\ TakeHoldings(b, H)
  /\ filed' = IF V8 THEN filed \cup {b} ELSE filed
  /\ ops' = Append(ops, Op("wrap", b, NoRealm))
  /\ UNCHANGED <<engine, bringup, deaths, rec, slot, copies, roots, functions,
                 reach>>

(* No room in the frame, or no record to file the box in: it is destroyed  *)
(* before anything else happens.                                           *)
WrapNoRoom(b) ==
  /\ EmbedderRuns /\ V8 /\ Fresh(b)
  /\ box' = [box EXCEPT ![b] = "spent"]
  /\ deaths' = [deaths EXCEPT ![b] = @ + 1]
  /\ UNCHANGED <<engine, bringup, holds, filed, contextState, roots,
                 embedderRefs, functions, reach, ops>>

Wrapping == isolate = "live" /\ Busy /\ Top.kind = "wrap"

(* The instance is made and carries the box; on SpiderMonkey the handle to *)
(* it may still fail, and then nothing reaches the instance.               *)
WrapDone ==
  /\ Wrapping
  /\ LET b == Top.subject
     IN /\ box' = [box EXCEPT ![b] = "wrapped"]
        /\ filed' = filed \cup {b}
        /\ reach' \in IF V8 THEN {reach \cup {b}} ELSE {reach, reach \cup {b}}
  /\ ops' = Front(ops)
  /\ UNCHANGED <<engine, bringup, deaths, holds, contextState, roots,
                 embedderRefs, functions>>

(* Mutant: what has been destroyed is left on the list.                    *)
KeptFiled(b) == filed
UnfileNative(b) == filed \ {b}

WrapFail ==
  /\ Wrapping
  /\ DestroyBox(Top.subject)
  /\ filed' = UnfileNative(Top.subject)
  /\ ops' = Front(ops)
  /\ UNCHANGED <<engine, bringup, copies, roots, functions, reach>>

(* new Foo: the instance is made first and the class's constructor runs    *)
(* with it as receiver, in the realm of the class's function.              *)
RealmReached(r) == rec[r] = "live" \/ \E f \in reach \cap Fns : home[f] = r

ConstructorTrampoline(b, r) ==
  /\ EmbedderRuns /\ Room /\ Fresh(b)
  /\ RealmReached(r)
  /\ ops' = Append(ops, Op("construct", b, CurrentContext(r)))
  /\ refs' = IF CurrentContext(r) = r THEN [refs EXCEPT ![r] = @ + 1] ELSE refs
  /\ UNCHANGED <<engine, bringup, natives, rec, slot, copies, roots,
                 embedderRefs, functions, reach>>

Constructing == isolate = "live" /\ Busy /\ Top.kind = "construct"

(* It answers with a box.  Attaching it is all or nothing.                 *)
Attach(H) ==
  /\ Constructing
  /\ LET b == Top.subject
         kept == [r \in Realms |-> refs[r] + (IF r \in H THEN 1 ELSE 0)
                                           - (IF Top.ctx = r THEN 1 ELSE 0)]
     IN /\ box' = [box EXCEPT ![b] = "wrapped"]
        /\ holds' = [holds EXCEPT ![b] = H]
        /\ filed' = filed \cup {b} /\ reach' = reach \cup {b}
        /\ refs' = kept
        /\ LET freed == {r \in Realms : rec[r] = "live" /\ kept[r] = 0}
           IN /\ rec' = [r \in Realms |->
                          IF r \in freed THEN "freed" ELSE rec[r]]
              /\ slot' = [r \in Realms |->
                           IF Blanks /\ r \in freed THEN "blank" ELSE slot[r]]
              /\ embedderRefs' = embedderRefs + Cardinality(H \cap Boxes)
                                              - Cardinality(freed)
  /\ ops' = Front(ops)
  /\ UNCHANGED <<engine, bringup, deaths, copies, roots, functions>>

(* The instance can carry no box, or there is no memory to file one.       *)
AttachFails ==
  /\ Constructing
  /\ box' = [box EXCEPT ![Top.subject] = "spent"]
  /\ deaths' = [deaths EXCEPT ![Top.subject] = @ + 1]
  /\ Released({Top.ctx})
  /\ embedderRefs' = embedderRefs - Cardinality(Dropping({Top.ctx}))
  /\ ops' = Front(ops)
  /\ UNCHANGED <<engine, bringup, holds, filed, copies, roots, functions, reach>>

(* A call returns, or a constructor declines or throws: its Context goes.  *)
Return ==
  /\ isolate = "live" /\ Busy /\ Top.kind \in {"call", "construct"}
  /\ Released({Top.ctx})
  /\ embedderRefs' = embedderRefs - Cardinality(Dropping({Top.ctx}))
  /\ ops' = Front(ops)
  /\ UNCHANGED <<engine, bringup, natives, copies, roots, functions, reach>>

-----------------------------------------------------------------------------
(* Functions and the records they carry: filed when made, given back when  *)
(* the function cannot be made after all or has been collected.            *)
Call(f) ==
  /\ EmbedderRuns /\ Room /\ f \in reach
  /\ ops' = Append(ops, Op("call", f, CurrentContext(home[f])))
  /\ refs' = [r \in Realms |->
               refs[r] + (IF CurrentContext(home[f]) = r THEN 1 ELSE 0)]
  /\ UNCHANGED <<engine, bringup, natives, rec, slot, copies, roots,
                 embedderRefs, functions, reach>>

(* Mutant: the record is left behind.                                      *)
RecordKept(f) == records
ReleaseCallbackRecord(f) == records \ {f}

MakeFunction(f, r) ==
  /\ EmbedderRuns /\ Usable(r) /\ fn[f] = "unmade"
  /\ \/ /\ records' = records \cup {f}
        /\ fn' = [fn EXCEPT ![f] = "made"] /\ home' = [home EXCEPT ![f] = r]
        /\ reach' \in {reach, reach \cup {f}}
     \/ /\ fn' = [fn EXCEPT ![f] = "gone"]
        /\ records' = ReleaseCallbackRecord(f)
        /\ UNCHANGED <<home, reach>>
  /\ UNCHANGED <<engine, bringup, natives, contextState, roots, embedderRefs, ops>>

-----------------------------------------------------------------------------
(* The collector.  V8's weak callbacks take two passes, the second of      *)
(* which runs when the collection is over; SpiderMonkey's finalizers run   *)
(* in the collection, and take the box off the isolate's list first.       *)
Garbage(b) == isolate = "live" /\ box[b] = "wrapped" /\ b \notin reach /\ ~Rooted(b)

FinalizeNative(b) ==
  /\ V8 /\ Garbage(b)
  /\ box' = [box EXCEPT ![b] = "fired"]
  /\ UNCHANGED <<engine, bringup, deaths, holds, filed, contextState, roots,
                 embedderRefs, functions, reach, ops>>

FinalizeNativeLate(b) ==
  /\ V8 /\ isolate = "live" /\ box[b] = "fired"
  /\ DestroyBox(b) /\ filed' = UnfileNative(b)
  /\ UNCHANGED <<engine, bringup, copies, roots, functions, reach, ops>>

InstanceFinalize(b) ==
  /\ ~V8 /\ Garbage(b)
  /\ DestroyBox(b) /\ filed' = UnfileNative(b)
  /\ UNCHANGED <<engine, bringup, copies, roots, functions, reach, ops>>

FinalizeCallbackRecord(f) ==
  /\ isolate = "live" /\ fn[f] = "made" /\ f \notin reach /\ ~Running(f)
  /\ IF V8
     THEN fn' = [fn EXCEPT ![f] = "fired"] /\ UNCHANGED records
     ELSE fn' = [fn EXCEPT ![f] = "gone"] /\ records' = ReleaseCallbackRecord(f)
  /\ UNCHANGED <<engine, bringup, natives, contextState, roots, embedderRefs,
                 home, reach, ops>>

FinalizeCallbackRecordLate(f) ==
  /\ V8 /\ isolate = "live" /\ fn[f] = "fired"
  /\ fn' = [fn EXCEPT ![f] = "gone"] /\ records' = ReleaseCallbackRecord(f)
  /\ UNCHANGED <<engine, bringup, natives, contextState, roots, embedderRefs,
                 home, reach, ops>>

-----------------------------------------------------------------------------
(* ~Isolate.  V8's gives back what is still filed, then lets go of its own *)
(* records, then disposes the engine.  SpiderMonkey's destroys the context *)
(* first, whose last collection finalizes every instance, and then whatever*)
(* is still filed.                                                         *)
IsolateDtor ==
  /\ isolate = "live" /\ ~Busy
  /\ isolate' = "clearing"
  /\ thread' = ~V8
  /\ contexts' = IF V8 THEN contexts ELSE contexts - 1
  /\ reach' = {}
  /\ UNCHANGED <<engine, platform, leaked, got, counted, natives, contextState,
                 roots, embedderRefs, functions, ops>>

FinalCollection(b) ==
  /\ isolate = "clearing" /\ ~V8 /\ box[b] = "wrapped"
  /\ DestroyBox(b) /\ filed' = UnfileNative(b)
  /\ UNCHANGED <<engine, bringup, copies, roots, functions, reach, ops>>

DestroySurvivor(b) ==
  /\ isolate = "clearing" /\ b \in filed
  /\ V8 \/ \A o \in Boxes : box[o] # "wrapped"
  /\ DestroyBox(b) /\ filed' = filed \ {b}
  /\ UNCHANGED <<engine, bringup, copies, roots, functions, reach, ops>>

IsolateGone ==
  /\ isolate = "clearing" /\ filed = {}
  /\ V8 \/ \A b \in Boxes : box[b] # "wrapped"
  /\ isolate' = "gone" /\ thread' = FALSE
  /\ contexts' = IF V8 THEN contexts - 1 ELSE contexts
  /\ records' = {} /\ fn' = [f \in Fns |-> "gone"]
  /\ UNCHANGED <<engine, platform, leaked, got, counted, natives, contextState,
                 roots, embedderRefs, home, reach, ops>>

Embedder ==
  \/ \E r \in Realms : NewContext(r) \/ RetainContext(r) \/ ReleaseContext(r)
  \/ \E b \in Boxes : MakeGlobal(b) \/ ReleaseGlobal(b) \/ GlobalToSlot(b)
  \/ \E b \in Boxes, H \in Holdings : Wrap(b, H)
  \/ \E b \in Boxes : WrapNoRoom(b)
  \/ \E f \in Fns, r \in Realms : MakeFunction(f, r)

Script ==
  \/ \E x \in Boxes \cup Fns : ScriptDrops(x)
  \/ \E b \in Boxes, r \in Realms : ConstructorTrampoline(b, r)
  \/ \E f \in Fns : Call(f)

Progress ==
  \/ WrapDone \/ WrapFail \/ AttachFails \/ Return
  \/ \E H \in Holdings : Attach(H)

Collector ==
  \/ \E b \in Boxes :
       FinalizeNative(b) \/ FinalizeNativeLate(b) \/ InstanceFinalize(b)
  \/ \E f \in Fns : FinalizeCallbackRecord(f) \/ FinalizeCallbackRecordLate(f)

Teardown ==
  \/ IsolateDtor \/ IsolateGone
  \/ \E b \in Boxes : FinalCollection(b) \/ DestroySurvivor(b)

Up ==
  /\ BringupNext
  /\ UNCHANGED <<engine, natives, contextState, roots, embedderRefs, functions,
                 reach, ops>>

Next == Up \/ Embedder \/ Script \/ Progress \/ Collector \/ Teardown

Spec == Init /\ [][Next]_vars
-----------------------------------------------------------------------------
(* Every box taken over is given back exactly once, by its finalizer, by   *)
(* the failed step of its hand-over or by ~Isolate, and never one that a   *)
(* live wrapper carries.                                                   *)
GivenBackOnce ==
  /\ \A b \in Boxes : deaths[b] = (IF box[b] = "spent" THEN 1 ELSE 0)
  /\ \A b \in Boxes : isolate = "gone" => box[b] \in {"unmade", "spent"}
  /\ \A b \in Boxes :
       isolate = "live" /\ (b \in reach \/ Rooted(b)) => box[b] = "wrapped"

(* What a native call reads is there: the record of the function it was    *)
(* made through, which goes when the function has and not later, and, on   *)
(* SpiderMonkey, never a freed record of the realm it runs in.             *)
CallMeetsItsRecords ==
  /\ \A f \in Fns :
       /\ f \in reach \/ Running(f) => f \in records
       /\ f \in records => fn[f] \in {"made", "fired"}
  /\ \A i \in 1 .. Len(ops) : ~V8 => ops[i].ctx # Stale

(* Who holds a realm's record; and the Globals natives own: whose, and of  *)
(* what.                                                                   *)
Holders(r) ==
  copies[r] + Cardinality({b \in Boxes : r \in holds[b]})
    + Cardinality({i \in 1 .. Len(ops) : ops[i].ctx = r})

OwnedGlobals == {p \in Boxes \X Boxes : p[2] \in holds[p[1]]}

(* A record's count is its holders, and embedderRefs is what is still      *)
(* outstanding: so the assertion at the end of ~Isolate fails exactly when *)
(* the embedder itself, and no native, kept something.                     *)
RefsInStep ==
  /\ \A r \in Realms : rec[r] # "none" => refs[r] = Holders(r)
  /\ \A r \in Realms : rec[r] = "live" <=> refs[r] > 0
  /\ embedderRefs = Cardinality({r \in Realms : rec[r] = "live"})
                      + Cardinality(roots) + Cardinality(OwnedGlobals)
  /\ isolate = "gone" =>
       embedderRefs = Cardinality({r \in Realms : copies[r] > 0})
                        + Cardinality(roots)

(* A native call, and a class's constructor, run in a realm whose Context  *)
(* they can use, whichever of the embedder's Contexts has gone.            *)
CallFindsItsContext ==
  \A i \in 1 .. Len(ops) : ops[i].kind # "wrap" => ops[i].ctx \in Realms

=============================================================================
