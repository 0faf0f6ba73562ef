---------------------------- MODULE LifetimeProofs ----------------------------
(***************************************************************************)
(* Proofs about what an isolate hands out and takes over, for any finite   *)
(* sets of boxes and realms, any functions, and any depth of calls.        *)
(***************************************************************************)
EXTENDS Lifetime, QueueLemmas, FiniteSetTheorems, TLAPS

(* Coming up and going down: which engine contexts this thread has.        *)
ContextAt == IF V8 THEN 3 ELSE 2

UpOK ==
  /\ isolate = "building" =>
       /\ Len(got) <= Len(Steps)
       /\ \A i \in 1 .. Len(got) : got[i] = Steps[i]
       /\ contexts = (IF Len(got) >= ContextAt THEN 1 ELSE 0)
  /\ isolate \in {"none", "gone"} =>
       \/ got = <<>> /\ contexts = 0
       \/ got = <<"probe">> /\ contexts = 1
  /\ isolate \in {"live", "clearing"} => got = <<>>
  /\ isolate = "live" => contexts = 1 /\ thread
  /\ isolate = "clearing" => contexts = (IF V8 THEN 1 ELSE 0)

(* Nothing has been handed out before the isolate is up, and nothing runs  *)
(* or is reached when it is not.                                           *)
StartOK ==
  isolate \in {"none", "building"} =>
    /\ roots = {} /\ \A b \in Boxes : holds[b] = {}
    /\ \A r \in Realms : rec[r] = "none"

OverOK == isolate # "live" => ops = <<>> /\ reach = {}

(* The operations in progress.  A hand-over is innermost, since nothing of *)
(* the embedder's runs in one, and each is of a box of its own.            *)
OpsOK ==
  /\ \A i \in 1 .. Len(ops) :
       /\ ops[i].kind = "call" => ops[i].subject \in Fns
       /\ ops[i].kind # "call" => ops[i].subject \in Boxes
       /\ ops[i].kind = "wrap" => box[ops[i].subject] = "given" /\ i = Len(ops)
       /\ ops[i].kind = "construct" => box[ops[i].subject] = "unmade"
  /\ \A i, j \in 1 .. Len(ops) :
       i # j /\ ops[i].kind # "call" => ops[i].subject # ops[j].subject

(* Where a box is: with its hand-over, on the isolate's list, or spent.    *)
BoxesOK ==
  /\ \A b \in Boxes :
       /\ deaths[b] = (IF box[b] = "spent" THEN 1 ELSE 0)
       /\ b \in filed => box[b] \in {"given", "wrapped", "fired"}
       /\ box[b] \in {"wrapped", "fired"} => b \in filed
       /\ box[b] = "given" => Busy /\ Top.kind = "wrap" /\ Top.subject = b
  /\ isolate = "gone" => filed = {}

ReachedOK ==
  \A b \in Boxes :
    isolate = "live" /\ (b \in reach \/ Rooted(b)) => box[b] = "wrapped"

(* A function's record is there until the function has gone.               *)
FnsOK ==
  \A f \in Fns :
    /\ f \in reach \/ Running(f) => f \in records
    /\ f \in records => fn[f] \in {"made", "fired"}
    /\ fn[f] = "fired" => f \notin reach /\ ~Running(f)
    /\ f \in reach => home[f] \in Realms /\ rec[home[f]] # "none"

(* Who has, or could ask for, a realm's record; and where SpiderMonkey's   *)
(* realms point once it has gone.                                          *)
CtxOK ==
  /\ \A r \in Realms : copies[r] > 0 => rec[r] # "none"
  /\ \A i \in 1 .. Len(ops) :
       /\ ops[i].ctx \in Realms => rec[ops[i].ctx] # "none"
       /\ ~V8 => ops[i].ctx # Stale
  /\ \A r \in Realms :
       ~V8 /\ isolate = "live" /\ rec[r] = "freed" => slot[r] = "blank"

IInv ==
  /\ TypeOK
  /\ UpOK
  /\ StartOK
  /\ OverOK
  /\ OpsOK
  /\ BoxesOK
  /\ ReachedOK
  /\ FnsOK
  /\ CtxOK

-----------------------------------------------------------------------------
(* A finite set's size is a number.                                        *)
LEMMA CountOK ==
  ASSUME NEW S, S \subseteq Realms \/ S \subseteq Boxes
  PROVE  Cardinality(S) \in Int
<1>1. IsFiniteSet(S)
  BY FiniteAssumption, FS_Subset
<1> QED
  BY <1>1, FS_CardinalityType

OpType == [kind : Kinds, subject : Boxes \cup Fns, ctx : Realms \cup {NoRealm, Stale}]

LEMMA InitIInv == Init => IInv
<1> SUFFICES ASSUME Init PROVE IInv
  OBVIOUS
<1>1. TypeOK
  <2>1. BringupTypeOK
    <3>1. leaked \in BOOLEAN /\ counted \in BOOLEAN /\ thread \in BOOLEAN
      BY Zenon DEF Init, BringupInit
    <3> QED
      BY <3>1, EmptySeq DEF Init, BringupInit, BringupTypeOK
  <2>2. copies \in [Realms -> 0 .. MaxCopies]
    BY LifetimeBounds DEF Init
  <2>3. ops \in Seq([kind : Kinds, subject : Boxes \cup Fns,
                     ctx : Realms \cup {NoRealm, Stale}])
    BY EmptySeq DEF Init
  <2> QED
    BY <2>1, <2>2, <2>3 DEF Init, TypeOK
<1>2. UpOK /\ StartOK /\ OverOK
  BY DEF Init, BringupInit, UpOK, StartOK, OverOK
<1>3. OpsOK /\ FnsOK /\ CtxOK
  BY DEF Init, BringupInit, OpsOK, FnsOK, CtxOK, Running
<1>4. BoxesOK /\ ReachedOK
  BY DEF Init, BringupInit, BoxesOK, ReachedOK
<1> QED
  BY <1>1, <1>2, <1>3, <1>4 DEF IInv

-----------------------------------------------------------------------------
(* Coming up, and the engine's contexts.                                   *)
LEMMA UpSteps ==
  ASSUME BringupTypeOK, UpOK, BringupNext, UNCHANGED engine
  PROVE  BringupTypeOK' /\ UpOK'
<1> DEFINE Names == {"impl", "allocator", "context", "jobs", "selfHosted",
                     "isolate", "interrupt", "probe"}
<1>0. Steps \in Seq(Names) /\ Steps' = Steps /\ (V8' <=> V8)
  <2>1. CASE V8
    BY <2>1 DEF Steps, V8
  <2>2. CASE ~V8
    BY <2>2 DEF Steps, V8
  <2> QED
    BY <2>1, <2>2
<1>s. \A n \in 1 .. Len(Steps) :
        /\ Steps[n] = "context" <=> n = ContextAt
        /\ Steps[n] \in Unwinds <=> n > ContextAt
  BY DEF Steps, Unwinds, ContextAt
<1>c. ContextAt' = ContextAt /\ ContextAt \in 1 .. Len(Steps) /\ Len(Steps) \in Nat
  BY DEF ContextAt, Steps, V8
<1>1. CASE PlatformCtor \/ PlatformDtor
  BY <1>1, <1>0, <1>c DEF PlatformCtor, PlatformDtor, BringupTypeOK, UpOK
<1>2. CASE WorkerThreads
  BY <1>2, <1>0, <1>c DEF WorkerThreads, BringupTypeOK, UpOK
<1>3. CASE ProbeDone
  <2>1. isolate # "building"
    <3> SUFFICES ASSUME isolate = "building" PROVE FALSE
      OBVIOUS
    <3>1. got[1] = Steps[1] /\ got[1] = "probe"
      BY <1>3 DEF ProbeDone, UpOK
    <3> QED
      BY <3>1 DEF Steps
  <2> QED
    BY <1>3, <2>1, <1>0, <1>c DEF ProbeDone, BringupTypeOK, UpOK
<1>4. CASE New
  BY <1>4, <1>0, <1>c DEF New, BringupTypeOK, UpOK
<1>5. CASE Acquire
  <2> DEFINE n == Len(got) + 1
  <2>1. /\ isolate = "building" /\ isolate' = isolate
        /\ n \in 1 .. Len(Steps) /\ got' = Append(got, Steps[n])
        /\ contexts' = contexts + (IF Steps[n] = "context" THEN 1 ELSE 0)
    BY <1>5, <1>c DEF Acquire, BringupTypeOK
  <2>2. Steps[n] \in Names
    BY <2>1, <1>0
  <2>3. /\ got' \in Seq(Names) /\ Len(got') = n /\ got'[n] = Steps[n]
        /\ \A i \in 1 .. Len(got) : got'[i] = got[i]
    BY <2>1, <2>2, AppendFacts DEF BringupTypeOK
  <2>4. contexts' = (IF n >= ContextAt THEN 1 ELSE 0)
    BY <2>1, <1>s, <1>c DEF UpOK, BringupTypeOK
  <2>5. UpOK'
    BY <2>1, <2>3, <2>4, <1>0, <1>c DEF UpOK, BringupTypeOK
  <2> QED
    BY <1>5, <2>3, <2>4, <2>5 DEF Acquire, BringupTypeOK
<1>6. CASE Fail
  <2>1. /\ isolate = "building" /\ isolate' = "none" /\ got' = <<>>
        /\ Len(got) + 1 \in 1 .. Len(Steps)
        /\ contexts' = contexts - (IF Steps[Len(got) + 1] \in Unwinds THEN 1 ELSE 0)
    BY <1>6, <1>c DEF Fail, FailUnwinding, BringupTypeOK
  <2>2. contexts' = 0
    BY <2>1, <1>s, <1>c DEF UpOK, BringupTypeOK
  <2> QED
    BY <1>6, <2>1, <2>2 DEF Fail, FailUnwinding, UpOK, BringupTypeOK
<1>7. CASE NewDone
  <2>1. contexts = 1
    BY <1>7, <1>c DEF NewDone, UpOK
  <2> QED
    BY <1>7, <2>1, <1>0 DEF NewDone, UpOK, BringupTypeOK, V8
<1> QED
  BY <1>1, <1>2, <1>3, <1>4, <1>5, <1>6, <1>7 DEF BringupNext

LEMMA NextUp == IInv /\ [Next]_vars => BringupTypeOK' /\ UpOK'
<1> SUFFICES ASSUME IInv, [Next]_vars PROVE BringupTypeOK' /\ UpOK'
  OBVIOUS
<1>0. BringupTypeOK /\ UpOK
  BY DEF IInv, TypeOK
<1>1. CASE Up
  BY <1>1, <1>0, UpSteps DEF Up
<1>2. CASE UNCHANGED <<engine, bringup>>
  BY <1>2, <1>0 DEF bringup, BringupTypeOK, UpOK, Steps, ContextAt, V8
<1>3. CASE IsolateDtor \/ IsolateGone
  <2>1. (~V8) \in BOOLEAN /\ V8 \in BOOLEAN
    BY Zenon DEF V8
  <2>2. V8' <=> V8
    BY <1>3 DEF IsolateDtor, IsolateGone, V8
  <2>3. CASE IsolateDtor
    <3>1. /\ UNCHANGED <<engine, platform, leaked, got, counted>>
          /\ isolate = "live" /\ isolate' = "clearing"
          /\ contexts' = IF V8 THEN contexts ELSE contexts - 1
      BY <2>3 DEF IsolateDtor
    <3>2. thread' \in BOOLEAN
      BY <2>3, <2>1, Zenon DEF IsolateDtor
    <3> QED
      BY <3>1, <3>2, <2>2, <1>0 DEF BringupTypeOK, UpOK
  <2>4. CASE IsolateGone
    <3>1. /\ UNCHANGED <<engine, platform, leaked, got, counted>>
          /\ isolate = "clearing" /\ isolate' = "gone"
          /\ contexts' = IF V8 THEN contexts - 1 ELSE contexts
      BY <2>4 DEF IsolateGone
    <3>2. thread' \in BOOLEAN
      BY <2>4, Zenon DEF IsolateGone
    <3> QED
      BY <3>1, <3>2, <2>2, <1>0 DEF BringupTypeOK, UpOK
  <2> QED
    BY <1>3, <2>3, <2>4
<1>4. Embedder \/ Script => UNCHANGED <<engine, bringup>>
  BY DEF Embedder, Script, NewContext, RetainContext, ReleaseContext, MakeGlobal,
     ReleaseGlobal, GlobalToSlot, Wrap, WrapNoRoom, MakeFunction, ScriptDrops,
     ConstructorTrampoline, Call
<1>5. Progress \/ Collector => UNCHANGED <<engine, bringup>>
  BY DEF Progress, Collector, WrapDone, WrapFail, AttachFails, Return, Attach,
     FinalizeNative, FinalizeNativeLate, InstanceFinalize, FinalizeCallbackRecord,
     FinalizeCallbackRecordLate
<1>6. Teardown => UNCHANGED <<engine, bringup>> \/ IsolateDtor \/ IsolateGone
  BY DEF Teardown, FinalCollection, DestroySurvivor
<1>7. UNCHANGED vars => UNCHANGED <<engine, bringup>>
  BY DEF vars
<1> QED
  BY <1>1, <1>2, <1>3, <1>4, <1>5, <1>6, <1>7 DEF Next

-----------------------------------------------------------------------------
(* The stack of operations.                                                *)
LEMMA CtxType == ASSUME NEW r PROVE CurrentContext(r) \in {r, NoRealm, Stale}
  BY DEF CurrentContext

LEMMA OpsPush ==
  ASSUME IInv, EmbedderRuns, NEW op \in OpType, ops' = Append(ops, op),
         op.kind = "call" => op.subject \in Fns,
         op.kind # "call" => op.subject \in Boxes /\ ~Running(op.subject),
         op.kind = "wrap" => box'[op.subject] = "given",
         op.kind = "construct" => box'[op.subject] = "unmade",
         \A b \in Boxes : b = op.subject \/ box'[b] = box[b]
  PROVE  OpsOK'
<1> DEFINE n == Len(ops)
<1>1. /\ ops \in Seq(OpType) /\ n \in Nat
      /\ Len(ops') = n + 1 /\ ops'[n + 1] = op
      /\ \A i \in 1 .. n : ops'[i] = ops[i]
  BY AppendFacts, LenProperties DEF IInv, TypeOK, OpType
<1>2. \A i \in 1 .. n : ops[i].kind # "wrap"
  BY <1>1 DEF IInv, OpsOK, EmbedderRuns, Busy, Top
<1>3. \A i \in 1 .. n : op.kind # "call" => ops[i].subject # op.subject
  BY <1>1 DEF Running
<1>4. \A i \in 1 .. n : ops[i].kind # "call" => ops[i].subject # op.subject
  BY <1>3, KindsDiffer DEF IInv, OpsOK
<1> HIDE DEF n
<1>5. ASSUME NEW i \in 1 .. n + 1
      PROVE  /\ ops'[i].kind = "call" => ops'[i].subject \in Fns
             /\ ops'[i].kind # "call" => ops'[i].subject \in Boxes
             /\ ops'[i].kind = "wrap" => box'[ops'[i].subject] = "given" /\ i = n + 1
             /\ ops'[i].kind = "construct" => box'[ops'[i].subject] = "unmade"
  <2>1. CASE i = n + 1
    BY <2>1, <1>1
  <2>2. CASE i \in 1 .. n
    BY <2>2, <1>1, <1>2, <1>4 DEF IInv, OpsOK, n
  <2> QED
    BY <2>1, <2>2, <1>1
<1>6. ASSUME NEW i \in 1 .. n + 1, NEW j \in 1 .. n + 1, i # j, ops'[i].kind # "call"
      PROVE  ops'[i].subject # ops'[j].subject
  <2>1. CASE i \in 1 .. n /\ j \in 1 .. n
    BY <2>1, <1>1, <1>6 DEF IInv, OpsOK, n
  <2>2. CASE i = n + 1 /\ j \in 1 .. n
    BY <2>2, <1>1, <1>3, <1>6
  <2>3. CASE j = n + 1 /\ i \in 1 .. n
    BY <2>3, <1>1, <1>4, <1>6
  <2> QED
    BY <2>1, <2>2, <2>3, <1>6, <1>1
<1> QED
  BY <1>1, <1>5, <1>6 DEF OpsOK

LEMMA OpsPop ==
  ASSUME IInv, Busy, ops' = Front(ops),
         \A b \in Boxes : b = Top.subject \/ box'[b] = box[b]
  PROVE  /\ OpsOK'
         /\ \A i \in 1 .. Len(ops') : ops'[i].kind # "wrap"
         /\ ops' \in Seq(OpType)
<1> DEFINE n == Len(ops)
<1>1. /\ ops \in Seq(OpType) /\ ops' \in Seq(OpType)
      /\ n \in Nat /\ n >= 1 /\ Len(ops') = n - 1 /\ Top = ops[n]
      /\ \A i \in 1 .. n - 1 : ops'[i] = ops[i]
  BY Popped DEF IInv, TypeOK, OpType, Busy, Top
<1>2. \A i \in 1 .. n - 1 : ops[i].kind # "wrap"
  BY <1>1 DEF IInv, OpsOK
<1>3. \A i \in 1 .. n - 1 : ops[i].kind # "call" => ops[i].subject # Top.subject
  BY <1>1 DEF IInv, OpsOK
<1>4. \A i \in 1 .. n - 1 : i \in 1 .. n
  BY <1>1
<1>5. \A i \in 1 .. n - 1 :
        /\ ops[i].kind = "call" => ops[i].subject \in Fns
        /\ ops[i].kind # "call" => ops[i].subject \in Boxes
        /\ ops[i].kind = "construct" => box[ops[i].subject] = "unmade"
  BY <1>4 DEF IInv, OpsOK
<1>6. \A i, j \in 1 .. n - 1 :
        i # j /\ ops[i].kind # "call" => ops[i].subject # ops[j].subject
  BY <1>4 DEF IInv, OpsOK
<1> HIDE DEF n
<1>7. ASSUME NEW i \in 1 .. n - 1
      PROVE  /\ ops'[i].kind = "call" => ops'[i].subject \in Fns
             /\ ops'[i].kind # "call" => ops'[i].subject \in Boxes
             /\ ops'[i].kind # "wrap"
             /\ ops'[i].kind = "construct" => box'[ops'[i].subject] = "unmade"
  BY <1>1, <1>2, <1>3, <1>5
<1>8. ASSUME NEW i \in 1 .. n - 1, NEW j \in 1 .. n - 1, i # j, ops'[i].kind # "call"
      PROVE  ops'[i].subject # ops'[j].subject
  BY <1>1, <1>6, <1>8
<1> QED
  BY <1>1, <1>7, <1>8 DEF OpsOK

(* No box is being handed over while anything else is innermost.           *)
LEMMA OpsKept ==
  ASSUME IInv, UNCHANGED ops,
         \A b \in Boxes : box'[b] = box[b] \/ box[b] \in {"wrapped", "fired"}
                          \/ (box[b] = "unmade" /\ ~Running(b)) \/ ops = <<>>
  PROVE  OpsOK'
<1>0. ops \in Seq(OpType)
  BY DEF IInv, TypeOK, OpType
<1>1. \A i \in 1 .. Len(ops) : ops[i].kind \in Kinds
  <2>1. \A i \in 1 .. Len(ops) : ops[i] \in OpType
    BY <1>0, ElementOfSeq
  <2> QED
    BY <2>1 DEF OpType
<1>2. ASSUME NEW i \in 1 .. Len(ops), ops[i].kind # "call"
      PROVE  box'[ops[i].subject] = box[ops[i].subject]
  <2>1. ops # <<>>
    BY <1>2, EmptySeq
  <2>2. /\ ops[i].subject \in Boxes /\ Running(ops[i].subject)
        /\ box[ops[i].subject] \in {"given", "unmade"}
    BY <1>1, <1>2 DEF Kinds, IInv, OpsOK, Running
  <2> QED
    BY <2>1, <2>2
<1>3. \A i \in 1 .. Len(ops) :
        ops[i].kind # "call" => box'[ops[i].subject] = box[ops[i].subject]
  BY <1>2
<1>4. \A i \in 1 .. Len(ops) :
        /\ ops[i].kind = "call" => ops[i].subject \in Fns
        /\ ops[i].kind # "call" => ops[i].subject \in Boxes
        /\ ops[i].kind = "wrap" => box'[ops[i].subject] = "given" /\ i = Len(ops)
        /\ ops[i].kind = "construct" => box'[ops[i].subject] = "unmade"
  BY <1>3 DEF IInv, OpsOK
<1>5. \A i, j \in 1 .. Len(ops) :
        i # j /\ ops[i].kind # "call" => ops[i].subject # ops[j].subject
  BY DEF IInv, OpsOK
<1> QED
  BY <1>4, <1>5 DEF OpsOK

LEMMA NextOps == IInv /\ [Next]_vars => OpsOK'
<1> SUFFICES ASSUME IInv, [Next]_vars PROVE OpsOK'
  OBVIOUS
<1>0. /\ box \in [Boxes -> {"unmade", "given", "wrapped", "fired", "spent"}]
      /\ ops \in Seq(OpType)
  BY DEF IInv, TypeOK, OpType
<1>1. CASE UNCHANGED <<box, ops>>
  BY <1>1, OpsKept
<1>2. ASSUME NEW b \in Boxes, NEW H \in Holdings, Wrap(b, H) PROVE OpsOK'
  <2>1. Op("wrap", b, NoRealm) \in OpType
    BY DEF Op, OpType, Kinds
  <2> QED
    BY <1>2, <2>1, <1>0, OpsPush DEF Wrap, Op, Fresh
<1>3. ASSUME NEW b \in Boxes, NEW r \in Realms, ConstructorTrampoline(b, r)
      PROVE  OpsOK'
  <2>1. Op("construct", b, CurrentContext(r)) \in OpType
    BY CtxType DEF Op, OpType, Kinds
  <2> QED
    BY <1>3, <2>1, <1>0, OpsPush DEF ConstructorTrampoline, Op, Fresh, natives
<1>4. ASSUME NEW f \in Fns, Call(f) PROVE OpsOK'
  <2>1. Op("call", f, CurrentContext(home[f])) \in OpType
    BY <1>4, CtxType DEF Op, OpType, Kinds, Call, IInv, FnsOK
  <2> QED
    BY <1>4, <2>1, <1>0, OpsPush DEF Call, Op, natives
<1>5. CASE Progress
  <2>1. /\ Busy /\ ops' = Front(ops)
        /\ \A b \in Boxes : b = Top.subject \/ box'[b] = box[b]
    BY <1>5, <1>0 DEF Progress, WrapDone, WrapFail, AttachFails, Return, Attach,
       Wrapping, Constructing, DestroyBox, natives
  <2> QED
    BY <2>1, OpsPop
<1>6. ASSUME NEW b \in Boxes, WrapNoRoom(b) PROVE OpsOK'
  BY <1>6, <1>0, OpsKept DEF WrapNoRoom, Fresh
<1>7. ASSUME NEW b \in Boxes,
             FinalizeNative(b) \/ FinalizeNativeLate(b) \/ InstanceFinalize(b)
      PROVE  OpsOK'
  BY <1>7, <1>0, OpsKept DEF FinalizeNative, FinalizeNativeLate, InstanceFinalize,
     Garbage, DestroyBox
<1>8. ASSUME NEW b \in Boxes, FinalCollection(b) \/ DestroySurvivor(b) PROVE OpsOK'
  <2>1. ops = <<>>
    BY <1>8 DEF FinalCollection, DestroySurvivor, IInv, OverOK
  <2> QED
    BY <1>8, <2>1, OpsKept DEF FinalCollection, DestroySurvivor
<1>9. Embedder => \/ UNCHANGED <<box, ops>>
                  \/ \E b \in Boxes, H \in Holdings : Wrap(b, H)
                  \/ \E b \in Boxes : WrapNoRoom(b)
  BY DEF Embedder, NewContext, RetainContext, ReleaseContext, MakeGlobal,
     ReleaseGlobal, GlobalToSlot, MakeFunction, natives
<1>10. Script => \/ UNCHANGED <<box, ops>>
                 \/ \E b \in Boxes, r \in Realms : ConstructorTrampoline(b, r)
                 \/ \E f \in Fns : Call(f)
  BY DEF Script, ScriptDrops, natives
<1>11. Collector => \/ UNCHANGED <<box, ops>>
                    \/ \E b \in Boxes : FinalizeNative(b) \/ FinalizeNativeLate(b)
                                        \/ InstanceFinalize(b)
  BY DEF Collector, FinalizeCallbackRecord, FinalizeCallbackRecordLate, natives
<1>12. Teardown => \/ UNCHANGED <<box, ops>>
                   \/ \E b \in Boxes : FinalCollection(b) \/ DestroySurvivor(b)
  BY DEF Teardown, IsolateDtor, IsolateGone, natives
<1>13. Up \/ UNCHANGED vars => UNCHANGED <<box, ops>>
  BY DEF Up, vars, natives
<1> QED
  BY <1>1, <1>2, <1>3, <1>4, <1>5, <1>6, <1>7, <1>8, <1>9, <1>10, <1>11, <1>12,
     <1>13 DEF Next

-----------------------------------------------------------------------------
(* Boxes.                                                                  *)
LEMMA TopFacts ==
  ASSUME IInv, Busy
  PROVE  /\ Top \in OpType /\ Running(Top.subject)
         /\ Top.kind = "wrap" => Top.subject \in Boxes /\ box[Top.subject] = "given"
         /\ Top.kind = "construct" => Top.subject \in Boxes /\ box[Top.subject] = "unmade"
         /\ Top.kind = "call" => Top.subject \in Fns
<1>1. ops \in Seq(OpType) /\ ops # <<>>
  BY DEF IInv, TypeOK, OpType, Busy
<1>2. Len(ops) \in 1 .. Len(ops) /\ ops[Len(ops)] \in OpType
  BY <1>1, Popped
<1> QED
  BY <1>2 DEF Top, Running, IInv, OpsOK

LEMMA NoneGiven ==
  ASSUME IInv, Busy => Top.kind # "wrap"
  PROVE  \A b \in Boxes : box[b] # "given"
  BY DEF IInv, BoxesOK

(* A box is destroyed once when it had not been before.                    *)
LEMMA BoxSpent ==
  ASSUME IInv, NEW b \in Boxes, box[b] # "spent",
         box' = [box EXCEPT ![b] = "spent"],
         deaths' = [deaths EXCEPT ![b] = @ + 1],
         filed' = filed \ {b}, isolate' = "gone" => isolate = "gone",
         \A c \in Boxes \ {b} : box[c] = "given" =>
            Busy' /\ Top'.kind = "wrap" /\ Top'.subject = c
  PROVE  BoxesOK'
<1>1. /\ box \in [Boxes -> {"unmade", "given", "wrapped", "fired", "spent"}]
      /\ deaths \in [Boxes -> Nat]
  BY DEF IInv, TypeOK
<1>2. \A c \in Boxes \ {b} : box'[c] = box[c] /\ deaths'[c] = deaths[c]
  BY <1>1
<1>3. box'[b] = "spent" /\ deaths'[b] = 1
  BY <1>1 DEF IInv, BoxesOK
<1> QED
  BY <1>2, <1>3 DEF IInv, BoxesOK

LEMMA NextBoxes == IInv /\ [Next]_vars => BoxesOK'
<1> SUFFICES ASSUME IInv, [Next]_vars PROVE BoxesOK'
  OBVIOUS
<1>0. /\ box \in [Boxes -> {"unmade", "given", "wrapped", "fired", "spent"}]
      /\ deaths \in [Boxes -> Nat] /\ filed \subseteq Boxes
      /\ ops \in Seq(OpType)
  BY DEF IInv, TypeOK, OpType
<1>1. CASE /\ UNCHANGED <<box, deaths, filed, ops>>
           /\ isolate' = "gone" => isolate = "gone" \/ filed = {}
  BY <1>1 DEF IInv, BoxesOK, Busy, Top
<1>2. ASSUME NEW b \in Boxes, NEW H \in Holdings, Wrap(b, H) PROVE BoxesOK'
  <2>1. \A c \in Boxes : box[c] # "given"
    BY <1>2, NoneGiven DEF Wrap, EmbedderRuns
  <2>2. Op("wrap", b, NoRealm) \in OpType
    BY DEF Op, OpType, Kinds
  <2>3. Busy' /\ Top' = Op("wrap", b, NoRealm)
    BY <1>2, <2>2, <1>0, AppendFacts, LenProperties, EmptySeq DEF Wrap, Busy, Top
  <2>4. Top'.kind = "wrap" /\ Top'.subject = b
    BY <2>3 DEF Op
  <2>5. box[b] = "unmade" /\ box' = [box EXCEPT ![b] = "given"] /\ deaths' = deaths
        /\ filed \subseteq filed' /\ filed' \subseteq filed \cup {b}
        /\ isolate' = isolate /\ isolate = "live"
    BY <1>2 DEF Wrap, Fresh, EmbedderRuns, bringup
  <2> QED
    BY <2>1, <2>3, <2>4, <2>5, <1>0 DEF IInv, BoxesOK
<1>3. ASSUME NEW b \in Boxes, WrapNoRoom(b) PROVE BoxesOK'
  <2>1. b \notin filed /\ box[b] = "unmade"
    BY <1>3 DEF WrapNoRoom, Fresh, IInv, BoxesOK
  <2> QED
    BY <1>3, <2>1, BoxSpent DEF WrapNoRoom, bringup, IInv, BoxesOK, Busy, Top
<1>4. CASE \/ \E b \in Boxes, r \in Realms : ConstructorTrampoline(b, r)
           \/ \E f \in Fns : Call(f)
           \/ Return
  <2>1. UNCHANGED <<box, deaths, filed, isolate>> /\ (Busy => Top.kind # "wrap")
    BY <1>4 DEF ConstructorTrampoline, Call, Return, natives, bringup, EmbedderRuns
  <2> QED
    BY <2>1, NoneGiven DEF IInv, BoxesOK
<1>5. CASE WrapDone
  <2>1. /\ Top.subject \in Boxes /\ box[Top.subject] = "given"
        /\ \A c \in Boxes \ {Top.subject} : box[c] # "given"
    BY <1>5, TopFacts DEF WrapDone, Wrapping, IInv, BoxesOK
  <2>2. /\ box' = [box EXCEPT ![Top.subject] = "wrapped"]
        /\ filed' = filed \cup {Top.subject} /\ deaths' = deaths
        /\ isolate' = "live"
    BY <1>5 DEF WrapDone, Wrapping, bringup
  <2> QED
    BY <2>1, <2>2, <1>0 DEF IInv, BoxesOK
<1>6. CASE WrapFail
  <2>1. /\ Top.subject \in Boxes /\ box[Top.subject] = "given"
        /\ \A c \in Boxes \ {Top.subject} : box[c] # "given"
    BY <1>6, TopFacts DEF WrapFail, Wrapping, IInv, BoxesOK
  <2> QED
    BY <1>6, <2>1, BoxSpent DEF WrapFail, Wrapping, DestroyBox, UnfileNative, bringup
<1>7. ASSUME NEW H \in Holdings, Attach(H) PROVE BoxesOK'
  <2>1. /\ Top.subject \in Boxes /\ box[Top.subject] = "unmade"
        /\ \A c \in Boxes : box[c] # "given"
    BY <1>7, TopFacts, NoneGiven DEF Attach, Constructing
  <2>2. /\ box' = [box EXCEPT ![Top.subject] = "wrapped"]
        /\ filed' = filed \cup {Top.subject} /\ deaths' = deaths
        /\ isolate' = "live"
    BY <1>7 DEF Attach, Constructing, bringup
  <2> QED
    BY <2>1, <2>2, <1>0 DEF IInv, BoxesOK
<1>8. CASE AttachFails
  <2>1. /\ Top.subject \in Boxes /\ box[Top.subject] = "unmade"
        /\ \A c \in Boxes : box[c] # "given"
    BY <1>8, TopFacts, NoneGiven DEF AttachFails, Constructing
  <2>2. Top.subject \notin filed
    BY <2>1 DEF IInv, BoxesOK
  <2> QED
    BY <1>8, <2>1, <2>2, BoxSpent DEF AttachFails, bringup
<1>9. ASSUME NEW b \in Boxes, FinalizeNative(b) PROVE BoxesOK'
  BY <1>9, <1>0 DEF FinalizeNative, Garbage, bringup, IInv, BoxesOK, Busy, Top
<1>10. ASSUME NEW b \in Boxes,
              \/ FinalizeNativeLate(b) \/ InstanceFinalize(b)
              \/ FinalCollection(b) \/ DestroySurvivor(b)
       PROVE  BoxesOK'
  <2>1. /\ DestroyBox(b) /\ filed' = filed \ {b}
        /\ UNCHANGED <<ops, isolate>> /\ box[b] # "spent"
    BY <1>10 DEF FinalizeNativeLate, InstanceFinalize, FinalCollection,
       DestroySurvivor, UnfileNative, Garbage, bringup, IInv, BoxesOK
  <2> QED
    BY <2>1, BoxSpent DEF DestroyBox, IInv, BoxesOK, Busy, Top
<1>11. Embedder => \/ UNCHANGED <<box, deaths, filed, ops, isolate>>
                   \/ \E b \in Boxes, H \in Holdings : Wrap(b, H)
                   \/ \E b \in Boxes : WrapNoRoom(b)
  BY DEF Embedder, NewContext, RetainContext, ReleaseContext, MakeGlobal,
     ReleaseGlobal, GlobalToSlot, MakeFunction, natives, bringup
<1>12. Script => \/ UNCHANGED <<box, deaths, filed, ops, isolate>>
                 \/ \E b \in Boxes, r \in Realms : ConstructorTrampoline(b, r)
                 \/ \E f \in Fns : Call(f)
  BY DEF Script, ScriptDrops, natives, bringup
<1>13. Collector =>
         \/ UNCHANGED <<box, deaths, filed, ops, isolate>>
         \/ \E b \in Boxes :
              FinalizeNative(b) \/ FinalizeNativeLate(b) \/ InstanceFinalize(b)
  BY DEF Collector, FinalizeCallbackRecord, FinalizeCallbackRecordLate, natives, bringup
<1>14. Teardown =>
         \/ UNCHANGED <<box, deaths, filed, ops>> /\ (isolate' = "gone" => filed = {})
         \/ \E b \in Boxes : FinalCollection(b) \/ DestroySurvivor(b)
  BY DEF Teardown, IsolateDtor, IsolateGone, natives
<1>15. Up => /\ UNCHANGED <<box, deaths, filed, ops>>
             /\ isolate' = "gone" => isolate = "gone"
  BY DEF Up, BringupNext, PlatformCtor, PlatformDtor, WorkerThreads, ProbeDone, New,
     Acquire, Fail, FailUnwinding, NewDone, natives
<1>16. UNCHANGED vars => UNCHANGED <<box, deaths, filed, ops, isolate>>
  BY DEF vars, natives, bringup
<1> QED
  BY <1>1, <1>2, <1>3, <1>4, <1>5, <1>6, <1>7, <1>8, <1>9, <1>10, <1>11, <1>12,
     <1>13, <1>14, <1>15, <1>16 DEF Next, Progress

-----------------------------------------------------------------------------
(* What happens when: everything but coming up and going down is done with *)
(* the isolate live, or gives back a box in its destructor.                *)
LEMMA WhenLive ==
  ASSUME Embedder \/ Script \/ Progress \/ Collector
  PROVE  isolate = "live" /\ isolate' = "live" /\ UNCHANGED <<engine, bringup>>
<1>1. Embedder => isolate = "live" /\ UNCHANGED <<engine, bringup>>
  BY DEF Embedder, NewContext, RetainContext, ReleaseContext, MakeGlobal,
     ReleaseGlobal, GlobalToSlot, Wrap, WrapNoRoom, MakeFunction, EmbedderRuns
<1>2. Script => isolate = "live" /\ UNCHANGED <<engine, bringup>>
  BY DEF Script, ScriptDrops, ConstructorTrampoline, Call, EmbedderRuns
<1>3. Progress => isolate = "live" /\ UNCHANGED <<engine, bringup>>
  BY DEF Progress, WrapDone, WrapFail, AttachFails, Return, Attach, Wrapping,
     Constructing
<1>4. Collector => isolate = "live" /\ UNCHANGED <<engine, bringup>>
  BY DEF Collector, FinalizeNative, FinalizeNativeLate, InstanceFinalize, Garbage,
     FinalizeCallbackRecord, FinalizeCallbackRecordLate
<1> QED
  BY <1>1, <1>2, <1>3, <1>4 DEF bringup

LEMMA WhenNotLive ==
  ASSUME Up \/ Teardown \/ UNCHANGED vars
  PROVE  /\ ops' = ops
         /\ reach' = reach \/ reach' = {}
         /\ isolate = "live" => isolate' = "live" \/ (ops = <<>> /\ reach' = {})
         /\ isolate' \in {"none", "building"} =>
              UNCHANGED <<roots, holds, rec>> /\ isolate \in {"none", "building"}
         /\ isolate' = "live" =>
              /\ UNCHANGED <<box, roots, holds, slot, rec, reach>>
              /\ isolate \in {"live", "building"}
<1>1. CASE Up
  <2>1. UNCHANGED <<natives, contextState, roots, functions, reach, ops>>
    BY <1>1 DEF Up
  <2>2. /\ isolate' \in {"none", "building"} => isolate \in {"none", "building"}
        /\ isolate = "live" => isolate' = "live"
        /\ isolate' = "live" => isolate \in {"live", "building"}
    BY <1>1 DEF Up, BringupNext, PlatformCtor, PlatformDtor, WorkerThreads,
       ProbeDone, New, Acquire, Fail, FailUnwinding, NewDone
  <2> QED
    BY <2>1, <2>2 DEF natives, contextState
<1>2. CASE Teardown
  <2>1. CASE IsolateDtor
    BY <2>1 DEF IsolateDtor, Busy
  <2>2. CASE IsolateGone
    BY <2>2 DEF IsolateGone
  <2>3. ASSUME NEW b \in Boxes, FinalCollection(b) \/ DestroySurvivor(b)
        PROVE  isolate = "clearing" /\ isolate' = isolate /\ UNCHANGED <<reach, ops>>
    BY <2>3 DEF FinalCollection, DestroySurvivor, bringup
  <2> QED
    BY <1>2, <2>1, <2>2, <2>3 DEF Teardown
<1>3. CASE UNCHANGED vars
  <2>1. UNCHANGED <<isolate, ops, reach, box, roots, holds, slot, rec>>
    BY <1>3 DEF vars, bringup, natives, contextState
  <2> QED
    BY <2>1
<1> QED
  BY <1>1, <1>2, <1>3

LEMMA NextOver == IInv /\ [Next]_vars => StartOK' /\ OverOK'
<1> SUFFICES ASSUME IInv, [Next]_vars PROVE StartOK' /\ OverOK'
  OBVIOUS
<1>1. CASE Embedder \/ Script \/ Progress \/ Collector
  BY <1>1, WhenLive DEF StartOK, OverOK
<1>2. CASE Up \/ Teardown \/ UNCHANGED vars
  BY <1>2, WhenNotLive DEF IInv, StartOK, OverOK
<1> QED
  BY <1>1, <1>2 DEF Next

-----------------------------------------------------------------------------
(* What reaches a box, and what roots it.                                  *)
LEMMA Held == ASSUME NEW H \in Holdings PROVE H \cap Boxes \subseteq roots
  BY KindsDiffer DEF Holdings

(* A box with a wrapper, or with nothing to reach it by, stays in order.   *)
LEMMA ReachKept ==
  ASSUME IInv, isolate = "live", isolate' = "live",
         \A b \in Boxes :
            b \in reach' \/ b \in roots' \/ (\E o \in Boxes : b \in holds'[o]) =>
              \/ box'[b] = "wrapped"
              \/ box'[b] = box[b] /\ (b \in reach \/ Rooted(b))
  PROVE  ReachedOK'
  BY DEF IInv, ReachedOK, Rooted

LEMMA NextReached == IInv /\ [Next]_vars => ReachedOK'
<1> SUFFICES ASSUME IInv, [Next]_vars PROVE ReachedOK'
  OBVIOUS
<1>0. /\ box \in [Boxes -> {"unmade", "given", "wrapped", "fired", "spent"}]
      /\ holds \in [Boxes -> SUBSET (Realms \cup Boxes)]
  BY DEF IInv, TypeOK
<1>t. \A b \in Boxes : isolate = "live" /\ (b \in reach \/ Rooted(b)) => box[b] = "wrapped"
  BY DEF IInv, ReachedOK
<1>1. CASE Up \/ Teardown \/ UNCHANGED vars
  <2>1. CASE isolate = "live"
    BY <1>1, <2>1, WhenNotLive DEF IInv, ReachedOK, Rooted
  <2>2. CASE isolate # "live"
    <3>1. isolate' = "live" => \A b \in Boxes : b \notin reach' /\ ~Rooted(b)'
      BY <1>1, <2>2, WhenNotLive DEF IInv, OverOK, StartOK, Rooted
    <3> QED
      BY <3>1 DEF ReachedOK
  <2> QED
    BY <2>1, <2>2
<1>2. CASE Embedder
  <2>0. isolate = "live" /\ isolate' = "live"
    BY <1>2, WhenLive
  <2>1. CASE /\ UNCHANGED <<box, holds>> /\ reach' \cap Boxes \subseteq reach \cup roots
             /\ roots' \subseteq roots \cup reach
    BY <2>0, <2>1, ReachKept DEF Rooted
  <2>2. ASSUME NEW b \in Boxes, NEW H \in Holdings, Wrap(b, H) PROVE ReachedOK'
    <3>1. /\ box[b] = "unmade" /\ box' = [box EXCEPT ![b] = "given"]
          /\ holds' = [holds EXCEPT ![b] = H] /\ UNCHANGED <<roots, reach>>
      BY <2>2 DEF Wrap, Fresh, TakeHoldings
    <3>2. b \notin reach /\ ~Rooted(b)
      BY <3>1, <2>0, <1>t
    <3>3. \A c \in H \cap Boxes : c \in roots /\ c # b
      BY <3>2, Held DEF Rooted
    <3>4. \A c, o \in Boxes : c \in holds'[o] => c \in roots \/ c \in holds[o]
      BY <3>1, <3>3, <1>0
    <3>5. \A c \in Boxes : c \in reach' \/ c \in roots' \/ (\E o \in Boxes : c \in holds'[o])
                           => c # b /\ (c \in reach \/ Rooted(c))
      BY <3>1, <3>2, <3>4 DEF Rooted
    <3> QED
      BY <3>1, <3>5, <2>0, <1>0, ReachKept
  <2>3. ASSUME NEW b \in Boxes, WrapNoRoom(b) PROVE ReachedOK'
    <3>1. /\ box[b] = "unmade" /\ box' = [box EXCEPT ![b] = "spent"]
          /\ UNCHANGED <<roots, reach, holds>>
      BY <2>3 DEF WrapNoRoom, Fresh
    <3>2. b \notin reach /\ ~Rooted(b)
      BY <3>1, <2>0, <1>t
    <3> QED
      BY <3>1, <3>2, <2>0, <1>0, ReachKept DEF Rooted
  <2>4. (\E f \in Fns, r \in Realms : MakeFunction(f, r)) =>
          /\ UNCHANGED <<box, holds>> /\ reach' \cap Boxes \subseteq reach \cup roots
          /\ roots' \subseteq roots \cup reach
    BY KindsDiffer DEF MakeFunction, natives
  <2> QED
    BY <1>2, <2>1, <2>2, <2>3, <2>4 DEF Embedder, NewContext, RetainContext,
       ReleaseContext, MakeGlobal, ReleaseGlobal, GlobalToSlot, natives
<1>3. CASE Script
  <2>1. UNCHANGED <<box, holds, roots>> /\ reach' \subseteq reach
    BY <1>3 DEF Script, ScriptDrops, ConstructorTrampoline, Call, natives
  <2> QED
    BY <1>3, <2>1, WhenLive, ReachKept DEF Rooted
<1>4. CASE Progress
  <2>0. isolate = "live" /\ isolate' = "live" /\ Busy
    BY <1>4, WhenLive DEF Progress, WrapDone, WrapFail, AttachFails, Return, Attach,
       Wrapping, Constructing
  <2>1. CASE Return
    BY <2>0, <2>1, ReachKept DEF Return, natives, Rooted
  <2>2. CASE WrapFail \/ AttachFails
    <3>1. /\ Top.subject \in Boxes /\ box[Top.subject] \in {"given", "unmade"}
      BY <2>2, TopFacts DEF WrapFail, AttachFails, Wrapping, Constructing
    <3>2. /\ box' = [box EXCEPT ![Top.subject] = "spent"]
          /\ UNCHANGED <<roots, reach>>
          /\ holds' = holds \/ holds' = [holds EXCEPT ![Top.subject] = {}]
      BY <2>2 DEF WrapFail, AttachFails, DestroyBox
    <3>3. Top.subject \notin reach /\ ~Rooted(Top.subject)
      BY <3>1, <2>0, <1>t
    <3>4. \A c, o \in Boxes : c \in holds'[o] => c \in holds[o]
      BY <3>1, <3>2, <1>0
    <3> QED
      BY <3>1, <3>2, <3>3, <3>4, <2>0, <1>0, ReachKept DEF Rooted
  <2>3. CASE WrapDone
    <3>1. /\ Top.subject \in Boxes
          /\ box' = [box EXCEPT ![Top.subject] = "wrapped"]
          /\ UNCHANGED <<roots, holds>> /\ reach' \subseteq reach \cup {Top.subject}
      BY <2>3, TopFacts DEF WrapDone, Wrapping
    <3> QED
      BY <3>1, <2>0, <1>0, ReachKept DEF Rooted
  <2>4. ASSUME NEW H \in Holdings, Attach(H) PROVE ReachedOK'
    <3>1. /\ Top.subject \in Boxes
          /\ box' = [box EXCEPT ![Top.subject] = "wrapped"]
          /\ holds' = [holds EXCEPT ![Top.subject] = H]
          /\ roots' = roots /\ reach' = reach \cup {Top.subject}
      BY <2>4, TopFacts DEF Attach, Constructing
    <3>2. \A c, o \in Boxes : c \in holds'[o] => c \in roots \/ c \in holds[o]
      BY <3>1, <1>0, Held
    <3> QED
      BY <3>1, <3>2, <2>0, <1>0, ReachKept DEF Rooted
  <2> QED
    BY <1>4, <2>1, <2>2, <2>3, <2>4 DEF Progress
<1>5. CASE Collector
  <2>0. isolate = "live" /\ isolate' = "live"
    BY <1>5, WhenLive
  <2>1. CASE UNCHANGED <<box, holds, roots, reach>>
    BY <2>0, <2>1, ReachKept DEF Rooted
  <2>2. ASSUME NEW b \in Boxes,
               FinalizeNative(b) \/ FinalizeNativeLate(b) \/ InstanceFinalize(b)
        PROVE  ReachedOK'
    <3>1. b \notin reach /\ ~Rooted(b)
      BY <2>2, <2>0, <1>t DEF FinalizeNative, FinalizeNativeLate, InstanceFinalize,
         Garbage
    <3>2. /\ \A c \in Boxes \ {b} : box'[c] = box[c]
          /\ UNCHANGED <<roots, reach>>
          /\ holds' = holds \/ holds' = [holds EXCEPT ![b] = {}]
      BY <2>2, <1>0 DEF FinalizeNative, FinalizeNativeLate, InstanceFinalize, DestroyBox
    <3>3. \A c, o \in Boxes : c \in holds'[o] => c \in holds[o]
      BY <3>2, <1>0
    <3> QED
      BY <3>1, <3>2, <3>3, <2>0, ReachKept DEF Rooted
  <2>3. ASSUME NEW f \in Fns,
               FinalizeCallbackRecord(f) \/ FinalizeCallbackRecordLate(f)
        PROVE  UNCHANGED <<box, holds, roots, reach>>
    BY <2>3 DEF FinalizeCallbackRecord, FinalizeCallbackRecordLate, natives
  <2> QED
    BY <1>5, <2>1, <2>2, <2>3 DEF Collector
<1> QED
  BY <1>1, <1>2, <1>3, <1>4, <1>5 DEF Next

-----------------------------------------------------------------------------
(* Records of realms: one made stays made, and a step that lets one go     *)
(* blanks the slot if it has to.                                           *)
RecordsFollow ==
  \A r \in Realms :
    /\ rec[r] # "none" => rec'[r] # "none"
    /\ ~V8 /\ isolate = "live" /\ rec'[r] = "freed" /\ (rec[r] = "freed" => slot[r] = "blank")
         => slot'[r] = "blank"

LEMMA ReleasedFollows ==
  ASSUME IInv, NEW S, Released(S)
  PROVE  RecordsFollow
  BY DEF Released, RecordsFollow, Blanks, IInv, TypeOK

LEMMA RecSteps == IInv /\ [Next]_vars => RecordsFollow
<1> SUFFICES ASSUME IInv, [Next]_vars PROVE RecordsFollow
  OBVIOUS
<1>0. rec \in [Realms -> {"none", "live", "freed"}]
  BY DEF IInv, TypeOK
<1>1. CASE UNCHANGED <<rec, slot>>
  BY <1>1 DEF RecordsFollow
<1>2. CASE \E r \in Realms : NewContext(r)
  BY <1>2, <1>0 DEF NewContext, RecordsFollow, IInv, TypeOK
<1>3. ASSUME NEW H \in Holdings, Attach(H) PROVE RecordsFollow
  <2>1. PICK freed : /\ rec' = [r \in Realms |-> IF r \in freed THEN "freed" ELSE rec[r]]
                     /\ slot' = [r \in Realms |->
                           IF Blanks /\ r \in freed THEN "blank" ELSE slot[r]]
    BY <1>3 DEF Attach
  <2> QED
    BY <2>1 DEF RecordsFollow, Blanks
<1>4. Embedder => \/ UNCHANGED <<rec, slot>>
                  \/ \E r \in Realms : NewContext(r) \/ Released({r})
  BY DEF Embedder, RetainContext, ReleaseContext, MakeGlobal, ReleaseGlobal,
     GlobalToSlot, Wrap, WrapNoRoom, MakeFunction, contextState
<1>5. Script => UNCHANGED <<rec, slot>>
  BY DEF Script, ScriptDrops, ConstructorTrampoline, Call, contextState
<1>6. Progress => \/ UNCHANGED <<rec, slot>> \/ (\E H \in Holdings : Attach(H))
                  \/ Released({Top.ctx}) \/ Released(holds[Top.subject])
  BY DEF Progress, WrapDone, WrapFail, AttachFails, Return, DestroyBox, contextState
<1>7. Collector => UNCHANGED <<rec, slot>> \/ \E b \in Boxes : Released(holds[b])
  BY DEF Collector, FinalizeNative, FinalizeNativeLate, InstanceFinalize, DestroyBox,
     FinalizeCallbackRecord, FinalizeCallbackRecordLate, contextState
<1>8. Teardown => UNCHANGED <<rec, slot>> \/ \E b \in Boxes : Released(holds[b])
  BY DEF Teardown, IsolateDtor, IsolateGone, FinalCollection, DestroySurvivor,
     DestroyBox, contextState
<1>9. Up \/ UNCHANGED vars => UNCHANGED <<rec, slot>>
  BY DEF Up, vars, contextState
<1> QED
  BY <1>1, <1>2, <1>3, <1>4, <1>5, <1>6, <1>7, <1>8, <1>9, ReleasedFollows DEF Next

(* The Context of a call: the one the stack grows by has a record, and is  *)
(* not stale on SpiderMonkey if the realm was reached.                     *)
LEMMA CurrentIsThere ==
  ASSUME IInv, isolate = "live", NEW r \in Realms, rec[r] # "none"
  PROVE  /\ CurrentContext(r) \in Realms => rec[CurrentContext(r)] # "none"
         /\ ~V8 => CurrentContext(r) # Stale
<1>1. r # Stale /\ NoRealm # Stale /\ NoRealm \notin Realms /\ Stale \notin Realms
  BY KindsDiffer DEF Stale, NoRealm
<1>2. rec[r] \in {"live", "freed"}
  BY DEF IInv, TypeOK
<1> QED
  BY <1>1, <1>2 DEF CurrentContext, IInv, CtxOK

LEMMA UsableIsThere ==
  ASSUME IInv, NEW r \in Realms, Usable(r)
  PROVE  rec[r] # "none"
<1>1. CASE copies[r] > 0
  BY <1>1 DEF IInv, CtxOK
<1>2. CASE Busy /\ Top.ctx = r
  <2>1. ops \in Seq(OpType) /\ ops # <<>>
    BY <1>2 DEF IInv, TypeOK, OpType, Busy
  <2>2. Len(ops) \in 1 .. Len(ops)
    BY <2>1, Popped
  <2> QED
    BY <1>2, <2>2 DEF IInv, CtxOK, Top
<1> QED
  BY <1>1, <1>2 DEF Usable

LEMMA NextCtx == IInv /\ [Next]_vars => CtxOK'
<1> SUFFICES ASSUME IInv, [Next]_vars PROVE CtxOK'
  OBVIOUS
<1>0. /\ copies \in [Realms -> 0 .. MaxCopies] /\ MaxCopies \in Nat
      /\ ops \in Seq(OpType)
  BY LifetimeBounds DEF IInv, TypeOK, OpType
<1>r. RecordsFollow
  BY RecSteps
<1>e. V8' <=> V8
  <2>1. Embedder \/ Script \/ Progress \/ Collector => engine' = engine
    BY WhenLive
  <2>2. Teardown \/ Up \/ UNCHANGED vars => engine' = engine
    BY DEF Up, Teardown, IsolateDtor, IsolateGone, FinalCollection, DestroySurvivor, vars
  <2>3. engine' = engine
    BY <2>1, <2>2 DEF Next
  <2> QED
    BY <2>3 DEF V8
<1>1. \A r \in Realms : copies'[r] > 0 => rec'[r] # "none"
  <2>0. \A r \in Realms : copies[r] > 0 => rec[r] # "none"
    BY DEF IInv, CtxOK
  <2>1. CASE UNCHANGED copies
    BY <2>0, <2>1, <1>r DEF RecordsFollow
  <2>2. ASSUME NEW r \in Realms,
               NewContext(r) \/ RetainContext(r) \/ ReleaseContext(r)
        PROVE  \A q \in Realms : copies'[q] > 0 => rec'[q] # "none"
    <3>1. \A q \in Realms \ {r} : copies'[q] = copies[q]
      BY <2>2, <1>0 DEF NewContext, RetainContext, ReleaseContext
    <3>2. rec'[r] # "none"
      <4>1. CASE NewContext(r)
        BY <4>1 DEF NewContext, IInv, TypeOK
      <4>2. CASE RetainContext(r)
        BY <4>2, UsableIsThere, <1>r DEF RetainContext, RecordsFollow
      <4>3. CASE ReleaseContext(r)
        BY <4>3, <2>0, <1>r DEF ReleaseContext, RecordsFollow
      <4> QED
        BY <2>2, <4>1, <4>2, <4>3
    <3> QED
      BY <3>1, <3>2, <2>0, <1>r DEF RecordsFollow
  <2>3. Embedder => \/ UNCHANGED copies
                    \/ \E r \in Realms :
                         NewContext(r) \/ RetainContext(r) \/ ReleaseContext(r)
    BY DEF Embedder, MakeGlobal, ReleaseGlobal, GlobalToSlot, Wrap, WrapNoRoom,
       MakeFunction, contextState
  <2>4. Script \/ Progress => UNCHANGED copies
    BY DEF Script, ScriptDrops, ConstructorTrampoline, Call, Progress, WrapDone,
       WrapFail, AttachFails, Return, Attach, contextState
  <2>5. Collector \/ Teardown => UNCHANGED copies
    BY DEF Collector, FinalizeNative, FinalizeNativeLate, InstanceFinalize,
       FinalizeCallbackRecord, FinalizeCallbackRecordLate, Teardown, IsolateDtor,
       IsolateGone, FinalCollection, DestroySurvivor, contextState
  <2>6. Up \/ UNCHANGED vars => UNCHANGED copies
    BY DEF Up, vars, contextState
  <2> QED
    BY <2>1, <2>2, <2>3, <2>4, <2>5, <2>6 DEF Next
<1>2. \A i \in 1 .. Len(ops') :
        /\ ops'[i].ctx \in Realms => rec'[ops'[i].ctx] # "none"
        /\ ~V8 => ops'[i].ctx # Stale
  <2> DEFINE There(c) == /\ c \in Realms => rec[c] # "none"
                         /\ ~V8 => c # Stale
  <2>0. \A i \in 1 .. Len(ops) : There(ops[i].ctx)
    BY DEF IInv, CtxOK
  <2> HIDE DEF There
  <2>1. \A i \in 1 .. Len(ops') : There(ops'[i].ctx)
    <3>1. CASE UNCHANGED ops
      BY <3>1, <2>0
    <3>2. CASE Progress
      <4>1. Busy /\ ops' = Front(ops)
        BY <3>2 DEF Progress, WrapDone, WrapFail, AttachFails, Return, Attach,
           Wrapping, Constructing
      <4>2. /\ Len(ops') = Len(ops) - 1 /\ Len(ops) \in Nat
            /\ \A i \in 1 .. Len(ops) - 1 : ops'[i] = ops[i]
        BY <4>1, <1>0, Popped DEF Busy
      <4>3. \A i \in 1 .. Len(ops) - 1 : i \in 1 .. Len(ops)
        BY <4>2
      <4> QED
        BY <4>2, <4>3, <2>0
    <3>3. ASSUME NEW op \in OpType, ops' = Append(ops, op), There(op.ctx)
          PROVE  \A i \in 1 .. Len(ops') : There(ops'[i].ctx)
      <4>1. /\ Len(ops') = Len(ops) + 1 /\ ops'[Len(ops) + 1] = op /\ Len(ops) \in Nat
            /\ \A i \in 1 .. Len(ops) : ops'[i] = ops[i]
        BY <3>3, <1>0, AppendFacts, LenProperties
      <4>2. \A i \in 1 .. Len(ops') : i \in 1 .. Len(ops) \/ i = Len(ops) + 1
        BY <4>1
      <4> QED
        BY <4>1, <4>2, <3>3, <2>0
    <3>4. ASSUME NEW b \in Boxes, NEW H \in Holdings, Wrap(b, H)
          PROVE  \A i \in 1 .. Len(ops') : There(ops'[i].ctx)
      <4>1. Op("wrap", b, NoRealm) \in OpType /\ ops' = Append(ops, Op("wrap", b, NoRealm))
        BY <3>4 DEF Op, OpType, Kinds, Wrap
      <4>2. There(Op("wrap", b, NoRealm).ctx)
        BY KindsDiffer DEF Op, NoRealm, Stale, There
      <4> QED
        BY <4>1, <4>2, <3>3
    <3>5. ASSUME NEW b \in Boxes, NEW r \in Realms, ConstructorTrampoline(b, r)
          PROVE  \A i \in 1 .. Len(ops') : There(ops'[i].ctx)
      <4> DEFINE op == Op("construct", b, CurrentContext(r))
      <4>1. op \in OpType /\ ops' = Append(ops, op)
        BY <3>5, CtxType DEF Op, OpType, Kinds, ConstructorTrampoline
      <4>2. rec[r] # "none" /\ isolate = "live"
        BY <3>5 DEF ConstructorTrampoline, EmbedderRuns, RealmReached, IInv, FnsOK
      <4>3. There(op.ctx)
        BY <4>2, CurrentIsThere DEF Op, There
      <4> QED
        BY <4>1, <4>3, <3>3
    <3>6. ASSUME NEW f \in Fns, Call(f)
          PROVE  \A i \in 1 .. Len(ops') : There(ops'[i].ctx)
      <4> DEFINE op == Op("call", f, CurrentContext(home[f]))
      <4>1. home[f] \in Realms /\ rec[home[f]] # "none" /\ isolate = "live"
        BY <3>6 DEF Call, EmbedderRuns, IInv, FnsOK
      <4>2. op \in OpType /\ ops' = Append(ops, op)
        BY <3>6, <4>1, CtxType DEF Op, OpType, Kinds, Call
      <4>3. There(op.ctx)
        BY <4>1, CurrentIsThere DEF Op, There
      <4> QED
        BY <4>2, <4>3, <3>3
    <3>7. Embedder => UNCHANGED ops \/ \E b \in Boxes, H \in Holdings : Wrap(b, H)
      BY DEF Embedder, NewContext, RetainContext, ReleaseContext, MakeGlobal,
         ReleaseGlobal, GlobalToSlot, WrapNoRoom, MakeFunction
    <3>8. Script => \/ UNCHANGED ops
                    \/ \E b \in Boxes, r \in Realms : ConstructorTrampoline(b, r)
                    \/ \E f \in Fns : Call(f)
      BY DEF Script, ScriptDrops
    <3>9. Collector => UNCHANGED ops
      BY DEF Collector, FinalizeNative, FinalizeNativeLate, InstanceFinalize,
         FinalizeCallbackRecord, FinalizeCallbackRecordLate
    <3> QED
      BY <3>1, <3>2, <3>4, <3>5, <3>6, <3>7, <3>8, <3>9, WhenNotLive DEF Next
  <2> QED
    BY <2>1, <1>r DEF There, RecordsFollow
<1>3. \A r \in Realms :
        ~V8 /\ isolate' = "live" /\ rec'[r] = "freed" => slot'[r] = "blank"
  <2>1. CASE isolate = "live"
    BY <2>1, <1>r DEF RecordsFollow, IInv, CtxOK
  <2>2. CASE isolate # "live" /\ isolate' = "live"
    <3>1. Up \/ Teardown \/ UNCHANGED vars
      BY <2>2, WhenLive DEF Next
    <3> QED
      BY <2>2, <3>1, WhenNotLive DEF IInv, StartOK
  <2> QED
    BY <2>1, <2>2
<1> QED
  BY <1>1, <1>2, <1>3, <1>e DEF CtxOK

-----------------------------------------------------------------------------
(* Functions and their records.                                            *)
LEMMA RunningSteps ==
  ASSUME IInv, [Next]_vars, NEW f \in Fns, Running(f)'
  PROVE  Running(f) \/ f \in reach
<1>0. ops \in Seq(OpType)
  BY DEF IInv, TypeOK, OpType
<1>1. PICK i \in 1 .. Len(ops') : ops'[i].subject = f
  BY DEF Running
<1>2. CASE UNCHANGED ops
  BY <1>1, <1>2 DEF Running
<1>3. CASE Progress
  <2>1. Busy /\ ops' = Front(ops)
    BY <1>3 DEF Progress, WrapDone, WrapFail, AttachFails, Return, Attach, Wrapping,
       Constructing
  <2>2. /\ Len(ops') = Len(ops) - 1 /\ Len(ops) \in Nat
        /\ \A k \in 1 .. Len(ops) - 1 : ops'[k] = ops[k]
    BY <2>1, <1>0, Popped DEF Busy
  <2> QED
    BY <1>1, <2>2 DEF Running
<1>4. ASSUME NEW op \in OpType, ops' = Append(ops, op), op.subject # f \/ f \in reach
      PROVE  Running(f) \/ f \in reach
  <2>1. /\ Len(ops') = Len(ops) + 1 /\ ops'[Len(ops) + 1] = op /\ Len(ops) \in Nat
        /\ \A k \in 1 .. Len(ops) : ops'[k] = ops[k]
    BY <1>4, <1>0, AppendFacts, LenProperties
  <2>2. i \in 1 .. Len(ops) \/ i = Len(ops) + 1
    BY <1>1, <2>1
  <2> QED
    BY <1>1, <1>4, <2>1, <2>2 DEF Running
<1>5. ASSUME NEW b \in Boxes, NEW H \in Holdings, Wrap(b, H)
      PROVE  Running(f) \/ f \in reach
  <2>1. Op("wrap", b, NoRealm) \in OpType /\ Op("wrap", b, NoRealm).subject # f
    BY KindsDiffer DEF Op, OpType, Kinds
  <2> QED
    BY <1>5, <2>1, <1>4 DEF Wrap
<1>6. ASSUME NEW b \in Boxes, NEW r \in Realms, ConstructorTrampoline(b, r)
      PROVE  Running(f) \/ f \in reach
  <2>1. /\ Op("construct", b, CurrentContext(r)) \in OpType
        /\ Op("construct", b, CurrentContext(r)).subject # f
    BY KindsDiffer, CtxType DEF Op, OpType, Kinds
  <2> QED
    BY <1>6, <2>1, <1>4 DEF ConstructorTrampoline
<1>7. ASSUME NEW g \in Fns, Call(g)
      PROVE  Running(f) \/ f \in reach
  <2>1. home[g] \in Realms /\ g \in reach
    BY <1>7 DEF Call, IInv, FnsOK
  <2>2. /\ Op("call", g, CurrentContext(home[g])) \in OpType
        /\ Op("call", g, CurrentContext(home[g])).subject = g
    BY <2>1, CtxType DEF Op, OpType, Kinds
  <2> QED
    BY <1>7, <2>1, <2>2, <1>4 DEF Call
<1>8. Embedder => UNCHANGED ops \/ \E b \in Boxes, H \in Holdings : Wrap(b, H)
  BY DEF Embedder, NewContext, RetainContext, ReleaseContext, MakeGlobal,
     ReleaseGlobal, GlobalToSlot, WrapNoRoom, MakeFunction
<1>9. Script => \/ UNCHANGED ops
                \/ \E b \in Boxes, r \in Realms : ConstructorTrampoline(b, r)
                \/ \E g \in Fns : Call(g)
  BY DEF Script, ScriptDrops
<1>10. Collector => UNCHANGED ops
  BY DEF Collector, FinalizeNative, FinalizeNativeLate, InstanceFinalize,
     FinalizeCallbackRecord, FinalizeCallbackRecordLate
<1> QED
  BY <1>2, <1>3, <1>5, <1>6, <1>7, <1>8, <1>9, <1>10, WhenNotLive DEF Next

LEMMA NextFns == IInv /\ [Next]_vars => FnsOK'
<1> SUFFICES ASSUME IInv, [Next]_vars PROVE FnsOK'
  OBVIOUS
<1>0. /\ fn \in [Fns -> {"unmade", "made", "fired", "gone"}]
      /\ home \in [Fns -> Realms \cup {NoRealm}]
      /\ records \subseteq Fns
  BY DEF IInv, TypeOK
<1>r. RecordsFollow
  BY RecSteps
<1>n. \A f \in Fns : Running(f)' => Running(f) \/ f \in reach
  BY RunningSteps
<1>f. \A f \in Fns :
        /\ f \in reach \/ Running(f) => f \in records
        /\ f \in records => fn[f] \in {"made", "fired"}
        /\ fn[f] = "fired" => f \notin reach /\ ~Running(f)
        /\ f \in reach => home[f] \in Realms /\ rec[home[f]] # "none"
  BY DEF IInv, FnsOK
<1>1. CASE UNCHANGED functions /\ reach' \cap Fns \subseteq reach
  BY <1>1, <1>n, <1>r, <1>f DEF FnsOK, functions, RecordsFollow
<1>2. ASSUME NEW f \in Fns, NEW r \in Realms, MakeFunction(f, r) PROVE FnsOK'
  <2>1. fn[f] = "unmade" /\ f \notin records /\ f \notin reach /\ ~Running(f)'
    BY <1>2, <1>f, <1>n DEF MakeFunction
  <2>2. rec'[r] # "none"
    BY <1>2, UsableIsThere, <1>r DEF MakeFunction, RecordsFollow
  <2>3. CASE /\ records' = records \cup {f}
             /\ fn' = [fn EXCEPT ![f] = "made"] /\ home' = [home EXCEPT ![f] = r]
             /\ reach' \in {reach, reach \cup {f}}
    <3>1. \A g \in Fns \ {f} : /\ fn'[g] = fn[g] /\ home'[g] = home[g]
                               /\ g \in records' <=> g \in records
                               /\ g \in reach' <=> g \in reach
      BY <2>3, <1>0
    <3>2. fn'[f] = "made" /\ home'[f] = r /\ f \in records'
      BY <2>3, <1>0
    <3> QED
      BY <2>1, <2>2, <3>1, <3>2, <1>n, <1>r, <1>f DEF FnsOK, RecordsFollow
  <2>4. CASE /\ fn' = [fn EXCEPT ![f] = "gone"] /\ records' = records \ {f}
             /\ UNCHANGED <<home, reach>>
    BY <2>1, <2>4, <1>0, <1>n, <1>r, <1>f DEF FnsOK, RecordsFollow
  <2> QED
    BY <1>2, <2>3, <2>4 DEF MakeFunction, ReleaseCallbackRecord
<1>3. ASSUME NEW f \in Fns, FinalizeCallbackRecord(f) \/ FinalizeCallbackRecordLate(f)
      PROVE  FnsOK'
  <2>1. f \notin reach /\ ~Running(f)
    BY <1>3, <1>f DEF FinalizeCallbackRecord, FinalizeCallbackRecordLate
  <2>2. /\ UNCHANGED <<home, reach>>
        /\ \/ fn' = [fn EXCEPT ![f] = "fired"] /\ records' = records
           \/ fn' = [fn EXCEPT ![f] = "gone"] /\ records' = records \ {f}
    BY <1>3 DEF FinalizeCallbackRecord, FinalizeCallbackRecordLate, ReleaseCallbackRecord
  <2>3. fn'[f] \in {"fired", "gone"} /\ \A g \in Fns \ {f} : fn'[g] = fn[g]
    BY <2>2, <1>0
  <2>4. f \in records' => fn'[f] = "fired"
    BY <2>2, <1>0
  <2> QED
    BY <2>1, <2>2, <2>3, <2>4, <1>n, <1>r, <1>f DEF FnsOK, RecordsFollow
<1>4. CASE IsolateGone
  <2>1. \A f \in Fns : f \notin reach' /\ ~Running(f)'
    BY <1>4, <1>n, EmptySeq DEF IsolateGone, IInv, OverOK, Running
  <2> QED
    BY <1>4, <2>1 DEF IsolateGone, FnsOK
<1>5. Embedder => \/ UNCHANGED functions /\ reach' \cap Fns \subseteq reach
                  \/ \E f \in Fns, r \in Realms : MakeFunction(f, r)
  BY KindsDiffer DEF Embedder, NewContext, RetainContext, ReleaseContext, MakeGlobal,
     ReleaseGlobal, GlobalToSlot, Wrap, WrapNoRoom
<1>6. Script => UNCHANGED functions /\ reach' \cap Fns \subseteq reach
  BY DEF Script, ScriptDrops, ConstructorTrampoline, Call
<1>7. Progress => UNCHANGED functions /\ reach' \cap Fns \subseteq reach
  <2>1. CASE WrapDone
    <3>1. Top.subject \in Boxes
      BY <2>1, TopFacts DEF WrapDone, Wrapping
    <3> QED
      BY <2>1, <3>1, KindsDiffer DEF WrapDone
  <2>2. ASSUME NEW H \in Holdings, Attach(H)
        PROVE  UNCHANGED functions /\ reach' \cap Fns \subseteq reach
    <3>1. Top.subject \in Boxes
      BY <2>2, TopFacts DEF Attach, Constructing
    <3>2. reach' = reach \cup {Top.subject} /\ UNCHANGED functions
      BY <2>2 DEF Attach
    <3> QED
      BY <3>1, <3>2, KindsDiffer
  <2> QED
    BY <2>1, <2>2 DEF Progress, WrapFail, AttachFails, Return
<1>8. Collector => \/ UNCHANGED functions /\ reach' \cap Fns \subseteq reach
                   \/ \E f \in Fns : \/ FinalizeCallbackRecord(f)
                                     \/ FinalizeCallbackRecordLate(f)
  BY DEF Collector, FinalizeNative, FinalizeNativeLate, InstanceFinalize
<1>9. Teardown => \/ UNCHANGED functions /\ reach' \cap Fns \subseteq reach
                  \/ IsolateGone
  BY DEF Teardown, IsolateDtor, FinalCollection, DestroySurvivor
<1>10. Up \/ UNCHANGED vars => UNCHANGED functions /\ reach' \cap Fns \subseteq reach
  BY DEF Up, vars
<1> QED
  BY <1>1, <1>2, <1>3, <1>4, <1>5, <1>6, <1>7, <1>8, <1>9, <1>10 DEF Next

-----------------------------------------------------------------------------
(* Types.                                                                  *)
LEMMA ReleasedTypes ==
  ASSUME TypeOK, NEW S, Released(S)
  PROVE  /\ rec' \in [Realms -> {"none", "live", "freed"}]
         /\ refs' \in [Realms -> Int]
         /\ slot' \in [Realms -> {"none", "record", "blank"}]
<1>1. \A r \in Realms : refs[r] \in Int /\ rec[r] \in {"none", "live", "freed"}
                        /\ slot[r] \in {"none", "record", "blank"}
  BY DEF TypeOK
<1> QED
  BY <1>1 DEF Released

LEMMA DroppedCount == ASSUME NEW S PROVE Cardinality(Dropping(S)) \in Int
  BY CountOK DEF Dropping

LEMMA HoldingsType == ASSUME IInv, NEW H \in Holdings PROVE H \in SUBSET (Realms \cup Boxes)
  BY DEF Holdings, IInv, TypeOK

NativesType ==
  /\ box \in [Boxes -> {"unmade", "given", "wrapped", "fired", "spent"}]
  /\ deaths \in [Boxes -> Nat]
  /\ holds \in [Boxes -> SUBSET (Realms \cup Boxes)]
  /\ filed \subseteq Boxes

ContextType ==
  /\ rec \in [Realms -> {"none", "live", "freed"}]
  /\ refs \in [Realms -> Int]
  /\ slot \in [Realms -> {"none", "record", "blank"}]
  /\ copies \in [Realms -> 0 .. MaxCopies]

RootsType == roots \subseteq Boxes /\ embedderRefs \in Int

FunctionsType ==
  /\ fn \in [Fns -> {"unmade", "made", "fired", "gone"}]
  /\ home \in [Fns -> Realms \cup {NoRealm}]
  /\ records \subseteq Fns

ReachType == reach \subseteq Boxes \cup Fns /\ ops \in Seq(OpType)

LEMMA TypeParts ==
  TypeOK <=> /\ BringupTypeOK /\ NativesType /\ ContextType /\ RootsType
             /\ FunctionsType /\ ReachType
  BY DEF TypeOK, NativesType, ContextType, RootsType, FunctionsType, ReachType, OpType

LEMMA NextNativesType == IInv /\ [Next]_vars => NativesType'
<1> SUFFICES ASSUME IInv, [Next]_vars PROVE NativesType'
  OBVIOUS
<1>0. NativesType
  BY TypeParts DEF IInv
<1>1. CASE UNCHANGED natives
  BY <1>1, <1>0 DEF natives, NativesType
<1>2. ASSUME NEW b \in Boxes, NEW H \in Holdings, Wrap(b, H) PROVE NativesType'
  BY <1>2, <1>0, HoldingsType DEF Wrap, TakeHoldings, NativesType
<1>3. ASSUME NEW b \in Boxes, WrapNoRoom(b) PROVE NativesType'
  BY <1>3, <1>0 DEF WrapNoRoom, NativesType
<1>4. ASSUME NEW b \in Boxes, DestroyBox(b), filed' \subseteq filed PROVE NativesType'
  BY <1>4, <1>0 DEF DestroyBox, NativesType
<1>5. CASE WrapDone \/ AttachFails
  BY <1>5, <1>0, TopFacts DEF WrapDone, AttachFails, Wrapping, Constructing, NativesType
<1>6. ASSUME NEW H \in Holdings, Attach(H) PROVE NativesType'
  <2>1. H \in SUBSET (Realms \cup Boxes) /\ Top.subject \in Boxes
    BY <1>6, HoldingsType, TopFacts DEF Attach, Constructing
  <2>2. /\ box' = [box EXCEPT ![Top.subject] = "wrapped"] /\ deaths' = deaths
        /\ holds' = [holds EXCEPT ![Top.subject] = H]
        /\ filed' = filed \cup {Top.subject}
    BY <1>6 DEF Attach
  <2> QED
    BY <2>1, <2>2, <1>0 DEF NativesType
<1>7. WrapFail => \E b \in Boxes : DestroyBox(b) /\ filed' \subseteq filed
  BY TopFacts DEF WrapFail, Wrapping, UnfileNative
<1>8. ASSUME NEW b \in Boxes, FinalizeNative(b) PROVE NativesType'
  BY <1>8, <1>0 DEF FinalizeNative, NativesType
<1>9. Embedder => \/ UNCHANGED natives
                  \/ \E b \in Boxes, H \in Holdings : Wrap(b, H)
                  \/ \E b \in Boxes : WrapNoRoom(b)
  BY DEF Embedder, NewContext, RetainContext, ReleaseContext, MakeGlobal,
     ReleaseGlobal, GlobalToSlot, MakeFunction
<1>10. Script \/ Return \/ Up \/ UNCHANGED vars => UNCHANGED natives
  BY DEF Script, ScriptDrops, ConstructorTrampoline, Call, Return, Up, vars
<1>11. Collector => \/ UNCHANGED natives \/ \E b \in Boxes : FinalizeNative(b)
                    \/ \E b \in Boxes : DestroyBox(b) /\ filed' \subseteq filed
  BY DEF Collector, FinalizeNativeLate, InstanceFinalize, FinalizeCallbackRecord,
     FinalizeCallbackRecordLate, UnfileNative
<1>12. Teardown => \/ UNCHANGED natives
                   \/ \E b \in Boxes : DestroyBox(b) /\ filed' \subseteq filed
  BY DEF Teardown, IsolateDtor, IsolateGone, FinalCollection, DestroySurvivor,
     UnfileNative
<1> QED
  BY <1>1, <1>2, <1>3, <1>4, <1>5, <1>6, <1>7, <1>8, <1>9, <1>10, <1>11, <1>12
     DEF Next, Progress

LEMMA NextContextType == IInv /\ [Next]_vars => ContextType'
<1> SUFFICES ASSUME IInv, [Next]_vars PROVE ContextType'
  OBVIOUS
<1>0. TypeOK /\ ContextType /\ MaxCopies \in Nat \ {0}
  BY TypeParts, LifetimeBounds DEF IInv
<1>1. CASE UNCHANGED contextState
  BY <1>1, <1>0 DEF contextState, ContextType
<1>2. CASE (\E S : Released(S)) /\ UNCHANGED copies
  BY <1>2, <1>0, ReleasedTypes DEF ContextType
<1>3. ASSUME NEW r \in Realms, NewContext(r) PROVE ContextType'
  <2>1. 1 \in 0 .. MaxCopies
    BY <1>3, <1>0
  <2> QED
    BY <1>3, <2>1, <1>0 DEF NewContext, ContextType
<1>4. ASSUME NEW r \in Realms, RetainContext(r) PROVE ContextType'
  <2>1. copies[r] + 1 \in 0 .. MaxCopies /\ refs[r] + 1 \in Int
    BY <1>4, <1>0 DEF RetainContext, ContextType
  <2> QED
    BY <1>4, <2>1, <1>0 DEF RetainContext, ContextType
<1>5. ASSUME NEW r \in Realms, ReleaseContext(r) PROVE ContextType'
  <2>1. copies[r] - 1 \in 0 .. MaxCopies
    BY <1>5, <1>0 DEF ReleaseContext, ContextType
  <2> QED
    BY <1>5, <2>1, <1>0, ReleasedTypes DEF ReleaseContext, ContextType
<1>6. CASE /\ UNCHANGED <<rec, slot, copies>>
           /\ \/ \E H : refs' = [r \in Realms |-> refs[r] + (IF r \in H THEN 1 ELSE 0)]
              \/ \E c : refs' = [r \in Realms |-> refs[r] + (IF c = r THEN 1 ELSE 0)]
              \/ \E r \in Realms : refs' = [refs EXCEPT ![r] = @ + 1]
              \/ refs' = refs
  <2>1. \A r \in Realms : refs[r] \in Int
    BY <1>0 DEF ContextType
  <2>2. refs' \in [Realms -> Int]
    BY <1>6, <2>1, <1>0 DEF ContextType
  <2> QED
    BY <1>6, <2>2, <1>0 DEF ContextType
<1>7. ASSUME NEW H \in Holdings, Attach(H) PROVE ContextType'
  <2> DEFINE kept == [r \in Realms |-> refs[r] + (IF r \in H THEN 1 ELSE 0)
                                             - (IF Top.ctx = r THEN 1 ELSE 0)]
  <2>1. PICK freed : /\ rec' = [r \in Realms |-> IF r \in freed THEN "freed" ELSE rec[r]]
                     /\ slot' = [r \in Realms |->
                           IF Blanks /\ r \in freed THEN "blank" ELSE slot[r]]
                     /\ refs' = kept /\ copies' = copies
    BY <1>7 DEF Attach
  <2>2. \A r \in Realms : refs[r] \in Int /\ rec[r] \in {"none", "live", "freed"}
                          /\ slot[r] \in {"none", "record", "blank"}
    BY <1>0 DEF ContextType
  <2>3. kept \in [Realms -> Int]
    BY <2>2
  <2> QED
    BY <2>1, <2>2, <2>3, <1>0 DEF ContextType
<1>8. (\E b \in Boxes, H \in Holdings : Wrap(b, H)) =>
        /\ UNCHANGED <<rec, slot, copies>>
        /\ \E H : refs' = [r \in Realms |-> refs[r] + (IF r \in H THEN 1 ELSE 0)]
  BY DEF Wrap, TakeHoldings
<1>9. Embedder => \/ UNCHANGED contextState
                  \/ \E r \in Realms : NewContext(r) \/ RetainContext(r) \/ ReleaseContext(r)
                  \/ \E b \in Boxes, H \in Holdings : Wrap(b, H)
  BY DEF Embedder, MakeGlobal, ReleaseGlobal, GlobalToSlot, WrapNoRoom, MakeFunction
<1>10. Script =>
         \/ UNCHANGED contextState
         \/ /\ UNCHANGED <<rec, slot, copies>>
            /\ \/ \E c : refs' = [r \in Realms |-> refs[r] + (IF c = r THEN 1 ELSE 0)]
               \/ \E r \in Realms : refs' = [refs EXCEPT ![r] = @ + 1]
               \/ refs' = refs
  <2>1. ASSUME NEW b \in Boxes, NEW r \in Realms, ConstructorTrampoline(b, r)
        PROVE  /\ UNCHANGED <<rec, slot, copies>>
               /\ refs' = refs \/ refs' = [refs EXCEPT ![r] = @ + 1]
    BY <2>1 DEF ConstructorTrampoline
  <2>2. ASSUME NEW f \in Fns, Call(f)
        PROVE  /\ UNCHANGED <<rec, slot, copies>>
               /\ \E c : refs' = [r \in Realms |-> refs[r] + (IF c = r THEN 1 ELSE 0)]
    BY <2>2 DEF Call
  <2> QED
    BY <2>1, <2>2 DEF Script, ScriptDrops
<1>11. Progress => \/ UNCHANGED contextState \/ (\E H \in Holdings : Attach(H))
                   \/ (\E S : Released(S)) /\ UNCHANGED copies
  BY DEF Progress, WrapDone, WrapFail, AttachFails, Return, DestroyBox
<1>12. Collector => \/ UNCHANGED contextState
                    \/ (\E S : Released(S)) /\ UNCHANGED copies
  BY DEF Collector, FinalizeNative, FinalizeNativeLate, InstanceFinalize, DestroyBox,
     FinalizeCallbackRecord, FinalizeCallbackRecordLate
<1>13. Teardown => \/ UNCHANGED contextState
                   \/ (\E S : Released(S)) /\ UNCHANGED copies
  BY DEF Teardown, IsolateDtor, IsolateGone, FinalCollection, DestroySurvivor, DestroyBox
<1>14. Up \/ UNCHANGED vars => UNCHANGED contextState
  BY DEF Up, vars
<1> QED
  BY <1>1, <1>2, <1>3, <1>4, <1>5, <1>6, <1>7, <1>8, <1>9, <1>10, <1>11, <1>12,
     <1>13, <1>14 DEF Next

LEMMA NextRootsType == IInv /\ [Next]_vars => RootsType'
<1> SUFFICES ASSUME IInv, [Next]_vars PROVE RootsType'
  OBVIOUS
<1>0. RootsType
  BY TypeParts DEF IInv
<1>1. \A S :
        /\ Cardinality(Dropping(S)) \in Int /\ Cardinality(S \cap Boxes) \in Int
  BY DroppedCount, CountOK
<1>2. Embedder => RootsType'
  <2>1. ASSUME NEW r \in Realms, NewContext(r) \/ RetainContext(r) \/ ReleaseContext(r)
        PROVE  RootsType'
    BY <2>1, <1>0, DroppedCount DEF NewContext, RetainContext, ReleaseContext, RootsType
  <2>2. ASSUME NEW b \in Boxes, MakeGlobal(b) \/ ReleaseGlobal(b) \/ GlobalToSlot(b)
        PROVE  RootsType'
    BY <2>2, <1>0 DEF MakeGlobal, ReleaseGlobal, GlobalToSlot, RootsType
  <2>3. ASSUME NEW b \in Boxes, NEW H \in Holdings, Wrap(b, H) PROVE RootsType'
    <3>1. Cardinality(H \cap Boxes) \in Int
      BY CountOK
    <3> QED
      BY <2>3, <3>1, <1>0 DEF Wrap, TakeHoldings, RootsType
  <2>4. ASSUME NEW b \in Boxes, WrapNoRoom(b) PROVE RootsType'
    BY <2>4, <1>0 DEF WrapNoRoom, RootsType
  <2>5. ASSUME NEW f \in Fns, NEW r \in Realms, MakeFunction(f, r) PROVE RootsType'
    BY <2>5, <1>0 DEF MakeFunction, RootsType
  <2> QED
    BY <2>1, <2>2, <2>3, <2>4, <2>5 DEF Embedder
<1>3. ASSUME NEW b, DestroyBox(b), UNCHANGED roots PROVE RootsType'
  <2>1. Cardinality(Dropping(holds[b])) \in Int /\ Cardinality(holds[b] \cap Boxes) \in Int
    BY DroppedCount, CountOK
  <2> QED
    BY <1>3, <2>1, <1>0 DEF DestroyBox, RootsType
<1>4. CASE AttachFails \/ Return
  BY <1>4, <1>0, DroppedCount DEF AttachFails, Return, RootsType
<1>5. ASSUME NEW H \in Holdings, Attach(H) PROVE RootsType'
  <2>1. PICK freed \in SUBSET Realms :
          /\ embedderRefs' = embedderRefs + Cardinality(H \cap Boxes) - Cardinality(freed)
          /\ roots' = roots
    BY <1>5 DEF Attach
  <2>2. Cardinality(H \cap Boxes) \in Int /\ Cardinality(freed) \in Int
    BY CountOK
  <2> QED
    BY <2>1, <2>2, <1>0 DEF RootsType
<1>6. CASE UNCHANGED <<roots, embedderRefs>>
  BY <1>6, <1>0 DEF RootsType
<1>7. Script \/ WrapDone \/ Up \/ UNCHANGED vars => UNCHANGED <<roots, embedderRefs>>
  BY DEF Script, ScriptDrops, ConstructorTrampoline, Call, WrapDone, Up, vars
<1>8. WrapFail => DestroyBox(Top.subject) /\ UNCHANGED roots
  BY DEF WrapFail
<1>9. Collector => \/ UNCHANGED <<roots, embedderRefs>>
                   \/ \E b \in Boxes : DestroyBox(b) /\ UNCHANGED roots
  BY DEF Collector, FinalizeNative, FinalizeNativeLate, InstanceFinalize,
     FinalizeCallbackRecord, FinalizeCallbackRecordLate
<1>10. Teardown => \/ UNCHANGED <<roots, embedderRefs>>
                   \/ \E b \in Boxes : DestroyBox(b) /\ UNCHANGED roots
  BY DEF Teardown, IsolateDtor, IsolateGone, FinalCollection, DestroySurvivor
<1> QED
  BY <1>2, <1>3, <1>4, <1>5, <1>6, <1>7, <1>8, <1>9, <1>10 DEF Next, Progress

LEMMA NextFunctionsType == IInv /\ [Next]_vars => FunctionsType'
<1> SUFFICES ASSUME IInv, [Next]_vars PROVE FunctionsType'
  OBVIOUS
<1>0. FunctionsType
  BY TypeParts DEF IInv
<1>1. CASE UNCHANGED functions
  BY <1>1, <1>0 DEF functions, FunctionsType
<1>2. ASSUME NEW f \in Fns, NEW r \in Realms, MakeFunction(f, r) PROVE FunctionsType'
  BY <1>2, <1>0 DEF MakeFunction, ReleaseCallbackRecord, FunctionsType
<1>3. ASSUME NEW f \in Fns, FinalizeCallbackRecord(f) \/ FinalizeCallbackRecordLate(f)
      PROVE  FunctionsType'
  BY <1>3, <1>0 DEF FinalizeCallbackRecord, FinalizeCallbackRecordLate,
     ReleaseCallbackRecord, FunctionsType
<1>4. CASE IsolateGone
  BY <1>4, <1>0 DEF IsolateGone, FunctionsType
<1>5. Embedder => UNCHANGED functions \/ \E f \in Fns, r \in Realms : MakeFunction(f, r)
  BY DEF Embedder, NewContext, RetainContext, ReleaseContext, MakeGlobal,
     ReleaseGlobal, GlobalToSlot, Wrap, WrapNoRoom
<1>6. Script \/ Progress \/ Up \/ UNCHANGED vars => UNCHANGED functions
  BY DEF Script, ScriptDrops, ConstructorTrampoline, Call, Progress, WrapDone,
     WrapFail, AttachFails, Return, Attach, Up, vars
<1>7. Collector => \/ UNCHANGED functions
                   \/ \E f \in Fns : \/ FinalizeCallbackRecord(f)
                                     \/ FinalizeCallbackRecordLate(f)
  BY DEF Collector, FinalizeNative, FinalizeNativeLate, InstanceFinalize
<1>8. Teardown => UNCHANGED functions \/ IsolateGone
  BY DEF Teardown, IsolateDtor, FinalCollection, DestroySurvivor
<1> QED
  BY <1>1, <1>2, <1>3, <1>4, <1>5, <1>6, <1>7, <1>8 DEF Next

LEMMA NextReachType == IInv /\ [Next]_vars => ReachType'
<1> SUFFICES ASSUME IInv, [Next]_vars PROVE ReachType'
  OBVIOUS
<1>0. ReachType /\ roots \subseteq Boxes
  BY TypeParts DEF IInv, RootsType
<1>1. CASE UNCHANGED ops /\ reach' \subseteq Boxes \cup Fns
  BY <1>1, <1>0 DEF ReachType
<1>2. ASSUME UNCHANGED reach, NEW op \in OpType, ops' = Append(ops, op) PROVE ReachType'
  BY <1>2, <1>0, AppendFacts DEF ReachType
<1>3. ASSUME NEW b \in Boxes, NEW H \in Holdings, Wrap(b, H) PROVE ReachType'
  <2>1. Op("wrap", b, NoRealm) \in OpType
    BY DEF Op, OpType, Kinds
  <2> QED
    BY <1>3, <2>1, <1>2 DEF Wrap
<1>4. ASSUME NEW b \in Boxes, NEW r \in Realms, ConstructorTrampoline(b, r)
      PROVE  ReachType'
  <2>1. Op("construct", b, CurrentContext(r)) \in OpType
    BY CtxType DEF Op, OpType, Kinds
  <2> QED
    BY <1>4, <2>1, <1>2 DEF ConstructorTrampoline
<1>5. ASSUME NEW f \in Fns, Call(f) PROVE ReachType'
  <2>1. Op("call", f, CurrentContext(home[f])) \in OpType
    BY <1>5, CtxType DEF Op, OpType, Kinds, Call, IInv, FnsOK
  <2> QED
    BY <1>5, <2>1, <1>2 DEF Call
<1>6. CASE Progress
  <2>1. Busy /\ ops' = Front(ops)
    BY <1>6 DEF Progress, WrapDone, WrapFail, AttachFails, Return, Attach, Wrapping,
       Constructing
  <2>2. ops' \in Seq(OpType)
    BY <2>1, <1>0, Popped DEF ReachType, Busy
  <2>3. reach' \subseteq reach \cup {Top.subject} /\ Top.subject \in Boxes \cup Fns
    BY <1>6, <2>1, TopFacts DEF Progress, WrapDone, WrapFail, AttachFails, Return,
       Attach, OpType
  <2> QED
    BY <2>2, <2>3, <1>0 DEF ReachType
<1>7. Embedder => \/ UNCHANGED ops /\ reach' \subseteq Boxes \cup Fns
                  \/ \E b \in Boxes, H \in Holdings : Wrap(b, H)
  BY <1>0 DEF ReachType, Embedder, NewContext, RetainContext, ReleaseContext,
     MakeGlobal, ReleaseGlobal, GlobalToSlot, WrapNoRoom, MakeFunction
<1>8. Script => \/ UNCHANGED ops /\ reach' \subseteq Boxes \cup Fns
                \/ \E b \in Boxes, r \in Realms : ConstructorTrampoline(b, r)
                \/ \E f \in Fns : Call(f)
  BY <1>0 DEF ReachType, Script, ScriptDrops
<1>9. Collector => UNCHANGED <<ops, reach>>
  BY DEF Collector, FinalizeNative, FinalizeNativeLate, InstanceFinalize,
     FinalizeCallbackRecord, FinalizeCallbackRecordLate
<1>10. Up \/ Teardown \/ UNCHANGED vars =>
         UNCHANGED ops /\ reach' \subseteq Boxes \cup Fns
  BY <1>0, WhenNotLive DEF ReachType
<1> QED
  BY <1>0, <1>1, <1>3, <1>4, <1>5, <1>6, <1>7, <1>8, <1>9, <1>10 DEF Next, ReachType

LEMMA NextIInv == IInv /\ [Next]_vars => IInv'
<1> SUFFICES ASSUME IInv, [Next]_vars PROVE IInv'
  OBVIOUS
<1>1. TypeOK'
  BY NextUp, NextNativesType, NextContextType, NextRootsType, NextFunctionsType,
     NextReachType DEF TypeOK, NativesType, ContextType, RootsType, FunctionsType,
     ReachType, OpType
<1> QED
  BY <1>1, NextUp, NextOver, NextOps, NextBoxes, NextReached, NextFns, NextCtx DEF IInv

-----------------------------------------------------------------------------
(* Where every box, function and Context is, in every reachable state.     *)
THEOREM Invariance == Spec => []IInv
  BY InitIInv, NextIInv, PTL DEF Spec

(* The variables keep their types.                                         *)
THEOREM TypeCorrect == Spec => []TypeOK
<1>1. IInv => TypeOK
  BY DEF IInv
<1> QED
  BY <1>1, Invariance, PTL

(* Every box is given back exactly once, and never one that a live wrapper *)
(* carries: what ClassInstantiate, the finalizers and ~Isolate do.         *)
THEOREM BoxesGivenBackOnce == Spec => []GivenBackOnce
<1>1. IInv => GivenBackOnce
  <2> SUFFICES ASSUME IInv PROVE GivenBackOnce
    OBVIOUS
  <2>1. ASSUME NEW b \in Boxes, isolate = "gone" PROVE box[b] \in {"unmade", "spent"}
    <3>1. filed = {} /\ ~Busy
      BY <2>1 DEF IInv, BoxesOK, OverOK, Busy
    <3>2. box[b] \in {"unmade", "given", "wrapped", "fired", "spent"}
      BY DEF IInv, TypeOK
    <3> QED
      BY <3>1, <3>2 DEF IInv, BoxesOK
  <2> QED
    BY <2>1 DEF GivenBackOnce, IInv, BoxesOK, ReachedOK
<1> QED
  BY <1>1, Invariance, PTL

(* A native call finds the record of its function, and on SpiderMonkey no  *)
(* record of a realm that has gone.                                        *)
THEOREM RecordsAreThere == Spec => []CallMeetsItsRecords
<1>1. IInv => CallMeetsItsRecords
  BY DEF IInv, FnsOK, CtxOK, CallMeetsItsRecords
<1> QED
  BY <1>1, Invariance, PTL

(* An Isolate::New that answers empty has left no engine context on its    *)
(* thread, and there is never more than one.                               *)
THEOREM EmptyMeansNone == Spec => []EmptyHoldsNothing
<1>1. IInv => EmptyHoldsNothing
  <2> SUFFICES ASSUME IInv PROVE EmptyHoldsNothing
    OBVIOUS
  <2>1. isolate = "building" =>
          contexts = Cardinality({i \in 1 .. Len(got) : got[i] = "context"})
    <3> SUFFICES ASSUME isolate = "building"
        PROVE contexts = Cardinality({i \in 1 .. Len(got) : got[i] = "context"})
      OBVIOUS
    <3>1. /\ Len(got) <= Len(Steps) /\ Len(got) \in Nat
          /\ \A i \in 1 .. Len(got) : got[i] = Steps[i]
          /\ contexts = (IF Len(got) >= ContextAt THEN 1 ELSE 0)
      BY LenProperties DEF IInv, UpOK, TypeOK, BringupTypeOK
    <3>2. /\ \A i \in 1 .. Len(Steps) : Steps[i] = "context" <=> i = ContextAt
          /\ ContextAt \in 1 .. Len(Steps) /\ Len(Steps) \in Nat
      BY DEF Steps, ContextAt
    <3>3. {i \in 1 .. Len(got) : got[i] = "context"}
            = IF Len(got) >= ContextAt THEN {ContextAt} ELSE {}
      BY <3>1, <3>2
    <3>4. Cardinality({ContextAt}) = 1 /\ Cardinality({}) = 0
      BY FS_Singleton, FS_EmptySet
    <3> QED
      BY <3>1, <3>3, <3>4
  <2>2. isolate \in {"none", "building", "live", "clearing", "gone"}
    BY DEF IInv, TypeOK, BringupTypeOK
  <2>3. isolate \in {"none", "gone"} => contexts = Len(got)
    <3>1. Len(<<>>) = 0 /\ Len(<<"probe">>) = 1
      OBVIOUS
    <3> QED
      BY <3>1 DEF IInv, UpOK
  <2> QED
    BY <2>1, <2>2, <2>3 DEF IInv, UpOK, EmptyHoldsNothing
<1> QED
  BY <1>1, Invariance, PTL

-----------------------------------------------------------------------------
(* Counting: a realm's holders, and what is outstanding.                   *)
HeldBy(h, r) == {b \in Boxes : r \in h[b]}
OpsIn(o, r) == {i \in 1 .. Len(o) : o[i].ctx = r}
OwnedIn(h) == {p \in Boxes \X Boxes : p[2] \in h[p[1]]}
LiveIn(x) == {r \in Realms : x[r] = "live"}

One(S, r) == IF r \in S THEN 1 ELSE 0

HeldIn(c, h, o, r) == c[r] + Cardinality(HeldBy(h, r)) + Cardinality(OpsIn(o, r))

Outstanding(x, rt, h) ==
  Cardinality(LiveIn(x)) + Cardinality(rt) + Cardinality(OwnedIn(h))

SpentOK(bx, h) == \A b \in Boxes : bx[b] \in {"unmade", "spent"} => h[b] = {}
WrapsOK(o) == \A i \in 1 .. Len(o) : o[i].kind = "wrap" => o[i].ctx = NoRealm

(* Every count is of what there is, a record is live while somebody has a  *)
(* reference, what has not been made or has gone owns nothing, and a       *)
(* hand-over is in no realm.                                               *)
RefsInv ==
  /\ \A r \in Realms : refs[r] = HeldIn(copies, holds, ops, r)
  /\ \A r \in Realms : rec[r] = "live" <=> refs[r] > 0
  /\ embedderRefs = Outstanding(rec, roots, holds)
  /\ SpentOK(box, holds)
  /\ WrapsOK(ops)

HoldsType == [Boxes -> SUBSET (Realms \cup Boxes)]

LEMMA OneFacts ==
  ASSUME NEW S, NEW r
  PROVE  One(S, r) \in Nat /\ (r \in S => One(S, r) = 1) /\ (r \notin S => One(S, r) = 0)
  BY DEF One

LEMMA HeldNumbers ==
  ASSUME NEW h, NEW r
  PROVE  /\ IsFiniteSet(HeldBy(h, r)) /\ Cardinality(HeldBy(h, r)) \in Nat
         /\ IsFiniteSet(OwnedIn(h)) /\ Cardinality(OwnedIn(h)) \in Nat
<1>1. IsFiniteSet(Boxes \X Boxes)
  BY FiniteAssumption, FS_Product
<1>2. OwnedIn(h) \in SUBSET (Boxes \X Boxes) /\ HeldBy(h, r) \in SUBSET Boxes
  BY DEF OwnedIn, HeldBy
<1>3. IsFiniteSet(OwnedIn(h)) /\ IsFiniteSet(HeldBy(h, r))
  BY <1>1, <1>2, FiniteAssumption, FS_Subset
<1> QED
  BY <1>3, FS_CardinalityType

(* A native that owned nothing owns H.                                     *)
Owning(h, k, b, H) ==
  /\ h \in HoldsType /\ k \in HoldsType /\ b \in Boxes
  /\ h[b] = {} /\ k[b] = H
  /\ \A c \in Boxes \ {b} : k[c] = h[c]

LEMMA HeldPut ==
  ASSUME NEW h, NEW k, NEW b, NEW H, Owning(h, k, b, H), NEW r
  PROVE  Cardinality(HeldBy(k, r)) = Cardinality(HeldBy(h, r)) + One(H, r)
<1>1. IsFiniteSet(HeldBy(h, r)) /\ Cardinality(HeldBy(h, r)) \in Nat
  BY HeldNumbers
<1>2. b \notin HeldBy(h, r)
  BY DEF HeldBy, Owning
<1>3. CASE r \in H
  <2>1. HeldBy(k, r) = HeldBy(h, r) \cup {b}
    BY <1>3 DEF HeldBy, Owning
  <2>2. Cardinality(HeldBy(k, r)) = Cardinality(HeldBy(h, r)) + 1
    BY <1>1, <1>2, <2>1, FS_AddElement
  <2> QED
    BY <1>3, <2>2 DEF One
<1>4. CASE r \notin H
  <2>1. HeldBy(k, r) = HeldBy(h, r)
    BY <1>4 DEF HeldBy, Owning
  <2> QED
    BY <1>1, <1>4, <2>1 DEF One
<1> QED
  BY <1>3, <1>4

LEMMA OwnedPut ==
  ASSUME NEW h, NEW k, NEW b, NEW H, Owning(h, k, b, H)
  PROVE  Cardinality(OwnedIn(k)) = Cardinality(OwnedIn(h)) + Cardinality(H \cap Boxes)
<1> DEFINE X == H \cap Boxes
           P == {b} \X X
<1>1. IsFiniteSet(X) /\ Cardinality(X) \in Nat
  BY FiniteAssumption, FS_Subset, FS_CardinalityType
<1>2. IsFiniteSet({b}) /\ Cardinality({b}) = 1
  BY FS_Singleton
<1>3. IsFiniteSet(P) /\ Cardinality(P) = Cardinality({b}) * Cardinality(X)
  BY <1>1, <1>2, FS_Product
<1>4. Cardinality(P) = Cardinality(X)
  BY <1>1, <1>2, <1>3
<1>5. IsFiniteSet(OwnedIn(h)) /\ Cardinality(OwnedIn(h)) \in Nat
  BY HeldNumbers
<1>6. OwnedIn(h) \cap P = {}
  BY DEF OwnedIn, Owning
<1>7. OwnedIn(k) = OwnedIn(h) \cup P
  BY DEF OwnedIn, Owning
<1> HIDE DEF X, P
<1>8. Cardinality(OwnedIn(h) \cap P) = 0
  BY <1>6, FS_EmptySet
<1>9. Cardinality(OwnedIn(k))
        = Cardinality(OwnedIn(h)) + Cardinality(P) - Cardinality(OwnedIn(h) \cap P)
  BY <1>3, <1>5, <1>7, FS_Union
<1>10. Cardinality(OwnedIn(k)) = Cardinality(OwnedIn(h)) + Cardinality(X)
  BY <1>1, <1>4, <1>5, <1>8, <1>9
<1> QED
  BY <1>10 DEF X

LEMMA OpsNumbers ==
  ASSUME NEW o \in Seq(OpType), NEW r
  PROVE  IsFiniteSet(OpsIn(o, r)) /\ Cardinality(OpsIn(o, r)) \in Nat
<1>1. IsFiniteSet(1 .. Len(o))
  BY LenProperties, FS_Interval
<1>2. OpsIn(o, r) \in SUBSET (1 .. Len(o))
  BY DEF OpsIn
<1>3. IsFiniteSet(OpsIn(o, r))
  BY <1>1, <1>2, FS_Subset
<1> QED
  BY <1>3, FS_CardinalityType

(* An operation begins, or ends.                                           *)
Grown(o, u, op) ==
  /\ o \in Seq(OpType) /\ u \in Seq(OpType)
  /\ Len(u) = Len(o) + 1 /\ u[Len(o) + 1] = op
  /\ \A i \in 1 .. Len(o) : u[i] = o[i]

LEMMA OpsGrow ==
  ASSUME NEW o, NEW u, NEW op, Grown(o, u, op), NEW r
  PROVE  Cardinality(OpsIn(u, r)) = Cardinality(OpsIn(o, r)) + One({op.ctx}, r)
<1> DEFINE n == Len(o)
<1>0. o \in Seq(OpType) /\ n \in Nat /\ Len(u) = n + 1
      /\ u[n + 1] = op /\ \A i \in 1 .. n : u[i] = o[i]
  BY LenProperties DEF Grown
<1>1. IsFiniteSet(OpsIn(o, r)) /\ Cardinality(OpsIn(o, r)) \in Nat
  BY <1>0, OpsNumbers
<1>2. Len(o) = n
  OBVIOUS
<1> HIDE DEF n
<1>3. n + 1 \notin OpsIn(o, r)
  BY <1>0, <1>2 DEF OpsIn
<1>4. \A i : i \in 1 .. n + 1 <=> i \in 1 .. n \/ i = n + 1
  BY <1>0
<1>5. CASE op.ctx = r
  <2>1. OpsIn(u, r) = OpsIn(o, r) \cup {n + 1}
    BY <1>0, <1>2, <1>4, <1>5 DEF OpsIn
  <2>2. Cardinality(OpsIn(u, r)) = Cardinality(OpsIn(o, r)) + 1
    BY <1>1, <1>3, <2>1, FS_AddElement
  <2> QED
    BY <1>5, <2>2 DEF One
<1>6. CASE op.ctx # r
  <2>1. OpsIn(u, r) = OpsIn(o, r)
    BY <1>0, <1>2, <1>4, <1>6 DEF OpsIn
  <2> QED
    BY <1>1, <1>6, <2>1 DEF One
<1> QED
  BY <1>5, <1>6

LEMMA OpsPushed ==
  ASSUME IInv, NEW op \in OpType, ops' = Append(ops, op)
  PROVE  /\ Grown(ops, ops', op)
         /\ \A i \in 1 .. Len(ops') : ops'[i] = op \/ \E j \in 1 .. Len(ops) : ops'[i] = ops[j]
<1>1. ops \in Seq(OpType) /\ Len(ops) \in Nat
  BY LenProperties DEF IInv, TypeOK, OpType
<1>2. Grown(ops, ops', op)
  <2>1. /\ ops' \in Seq(OpType) /\ Len(ops') = Len(ops) + 1 /\ ops'[Len(ops) + 1] = op
        /\ \A i \in 1 .. Len(ops) : ops'[i] = ops[i]
    BY <1>1, AppendFacts
  <2> QED
    BY <1>1, <2>1 DEF Grown
<1>3. ASSUME NEW n \in Nat, NEW i \in 1 .. n + 1
      PROVE  i \in 1 .. n \/ i = n + 1
  BY <1>3
<1>4. \A i \in 1 .. Len(ops) + 1 : i \in 1 .. Len(ops) \/ i = Len(ops) + 1
  BY <1>1, <1>3
<1>5. \A i \in 1 .. Len(ops) + 1 :
        ops'[i] = op \/ \E j \in 1 .. Len(ops) : ops'[i] = ops[j]
  BY <1>2, <1>4 DEF Grown
<1> QED
  BY <1>2, <1>5 DEF Grown

LEMMA OpsPopped ==
  ASSUME IInv, Busy, ops' = Front(ops)
  PROVE  /\ Grown(ops', ops, Top)
         /\ \A i \in 1 .. Len(ops') : \E j \in 1 .. Len(ops) : ops'[i] = ops[j]
<1> DEFINE n == Len(ops)
<1>1. /\ ops \in Seq(OpType) /\ ops' \in Seq(OpType)
      /\ n \in Nat /\ n >= 1 /\ Len(ops') = n - 1 /\ Top = ops[n]
      /\ \A i \in 1 .. n - 1 : ops'[i] = ops[i]
  BY Popped DEF IInv, TypeOK, OpType, Busy, Top
<1> HIDE DEF n
<1>2. n = (n - 1) + 1 /\ \A i \in 1 .. n - 1 : i \in 1 .. n
  BY <1>1
<1>3. Grown(ops', ops, Top)
  BY <1>1, <1>2 DEF Grown, n
<1>4. \A i \in 1 .. n - 1 : \E j \in 1 .. n : ops'[i] = ops[j]
  BY <1>1, <1>2
<1> QED
  BY <1>1, <1>3, <1>4 DEF n

LEMMA Numbers ==
  ASSUME IInv
  PROVE  /\ \A r \in Realms :
              /\ refs[r] \in Int /\ copies[r] \in Nat
              /\ Cardinality(HeldBy(holds, r)) \in Nat
              /\ Cardinality(OpsIn(ops, r)) \in Nat
         /\ Cardinality(LiveIn(rec)) \in Nat /\ Cardinality(roots) \in Nat
         /\ Cardinality(OwnedIn(holds)) \in Nat
         /\ IsFiniteSet(roots) /\ IsFiniteSet(LiveIn(rec))
<1>1. copies \in [Realms -> 0 .. MaxCopies] /\ MaxCopies \in Nat /\ ops \in Seq(OpType)
      /\ refs \in [Realms -> Int]
  BY LifetimeBounds DEF IInv, TypeOK, OpType
<1>2. \A r \in Realms : refs[r] \in Int /\ copies[r] \in Nat
  BY <1>1
<1>3. \A r \in Realms : Cardinality(OpsIn(ops, r)) \in Nat
  BY <1>1, OpsNumbers
<1>4. IsFiniteSet(roots) /\ IsFiniteSet(LiveIn(rec))
  BY FiniteAssumption, FS_Subset DEF LiveIn, IInv, TypeOK
<1> QED
  BY <1>2, <1>3, <1>4, HeldNumbers, FS_CardinalityType

(* A realm somebody holds has a live record.                               *)
LEMMA HeldIsLive ==
  ASSUME IInv, RefsInv, NEW r \in Realms,
         \/ copies[r] > 0
         \/ \E b \in Boxes : r \in holds[b]
         \/ \E i \in 1 .. Len(ops) : ops[i].ctx = r
  PROVE  refs[r] > 0 /\ rec[r] = "live"
<1>1. /\ copies[r] \in Nat /\ Cardinality(HeldBy(holds, r)) \in Nat
      /\ Cardinality(OpsIn(ops, r)) \in Nat
      /\ refs[r] = copies[r] + Cardinality(HeldBy(holds, r)) + Cardinality(OpsIn(ops, r))
  BY Numbers DEF RefsInv, HeldIn
<1>2. ASSUME NEW b \in Boxes, r \in holds[b]
      PROVE  Cardinality(HeldBy(holds, r)) # 0
  <2>1. HeldBy(holds, r) # {}
    BY <1>2 DEF HeldBy
  <2> QED
    BY <2>1, HeldNumbers, FS_EmptySet
<1>3. ASSUME NEW i \in 1 .. Len(ops), ops[i].ctx = r
      PROVE  Cardinality(OpsIn(ops, r)) # 0
  <2>1. OpsIn(ops, r) # {} /\ ops \in Seq(OpType)
    BY <1>3 DEF OpsIn, IInv, TypeOK, OpType
  <2> QED
    BY <2>1, OpsNumbers, FS_EmptySet
<1>4. refs[r] > 0
  BY <1>1, <1>2, <1>3
<1> QED
  BY <1>4 DEF RefsInv

LEMMA UsableIsLive ==
  ASSUME IInv, RefsInv, NEW r \in Realms, Usable(r)
  PROVE  refs[r] > 0 /\ rec[r] = "live"
<1>1. CASE copies[r] > 0
  BY <1>1, HeldIsLive
<1>2. CASE Busy /\ Top.ctx = r
  <2>1. ops \in Seq(OpType) /\ ops # <<>>
    BY <1>2 DEF IInv, TypeOK, OpType, Busy
  <2>2. Len(ops) \in 1 .. Len(ops)
    BY <2>1, Popped
  <2> QED
    BY <1>2, <2>2, HeldIsLive DEF Top
<1> QED
  BY <1>1, <1>2 DEF Usable

LEMMA LiveLess ==
  ASSUME NEW x, NEW y, NEW D, D \subseteq LiveIn(x), LiveIn(y) = LiveIn(x) \ D
  PROVE  /\ Cardinality(LiveIn(x)) \in Nat /\ Cardinality(LiveIn(y)) \in Nat
         /\ Cardinality(D) \in Nat
         /\ Cardinality(LiveIn(y)) = Cardinality(LiveIn(x)) - Cardinality(D)
<1>1. LiveIn(x) \subseteq Realms /\ LiveIn(y) \subseteq Realms /\ D \subseteq Realms
  BY DEF LiveIn
<1>2. IsFiniteSet(LiveIn(x)) /\ IsFiniteSet(LiveIn(y)) /\ IsFiniteSet(D)
  BY <1>1, FiniteAssumption, FS_Subset
<1>3. Cardinality(LiveIn(x)) \in Nat /\ Cardinality(LiveIn(y)) \in Nat
      /\ Cardinality(D) \in Nat
  BY <1>2, FS_CardinalityType
<1>4. LiveIn(x) = LiveIn(y) \cup D /\ LiveIn(y) \cap D = {}
  OBVIOUS
<1>5. Cardinality(LiveIn(y) \cap D) = 0
  BY <1>4, FS_EmptySet
<1>6. Cardinality(LiveIn(x))
        = Cardinality(LiveIn(y)) + Cardinality(D) - Cardinality(LiveIn(y) \cap D)
  BY <1>2, <1>4, FS_Union
<1> QED
  BY <1>3, <1>5, <1>6

(* References released, to realms somebody holds.                          *)
LEMMA ReleasedRefs ==
  ASSUME IInv, RefsInv, NEW S, Released(S), \A r \in Realms \cap S : refs[r] > 0
  PROVE  /\ \A r \in Realms : refs'[r] = refs[r] - One(S, r)
         /\ \A r \in Realms : rec'[r] = "live" <=> refs'[r] > 0
         /\ Cardinality(LiveIn(rec')) \in Nat /\ Cardinality(Dropping(S)) \in Nat
         /\ Cardinality(LiveIn(rec')) = Cardinality(LiveIn(rec)) - Cardinality(Dropping(S))
<1>1. \A r \in Realms : /\ refs[r] \in Int
                        /\ rec[r] = "live" <=> refs[r] > 0
  BY Numbers DEF RefsInv
<1>2. \A r \in Realms :
        /\ refs'[r] = refs[r] - (IF r \in S THEN 1 ELSE 0)
        /\ rec'[r] = IF r \in Dropping(S) THEN "freed" ELSE rec[r]
  BY DEF Released
<1>3. \A r \in Realms : r \in Dropping(S) <=> r \in S /\ refs[r] = 1
  BY DEF Dropping
<1>4. \A r \in Realms : rec'[r] = "live" <=> rec[r] = "live" /\ r \notin Dropping(S)
  BY <1>2
<1>5. \A r \in Realms : rec'[r] = "live" <=> refs'[r] > 0
  BY <1>1, <1>2, <1>3, <1>4
<1>6. Dropping(S) \subseteq LiveIn(rec) /\ LiveIn(rec') = LiveIn(rec) \ Dropping(S)
  BY <1>1, <1>3, <1>4 DEF LiveIn, Dropping
<1> QED
  BY <1>2, <1>5, <1>6, LiveLess DEF One

LEMMA ReleaseCounted ==
  ASSUME IInv, RefsInv, NEW S, Released(S), \A r \in Realms \cap S : refs[r] > 0,
         \A r \in Realms :
           HeldIn(copies', holds', ops', r) = HeldIn(copies, holds, ops, r) - One(S, r),
         NEW d \in Int, embedderRefs' = embedderRefs - Cardinality(Dropping(S)) - d,
         Cardinality(roots') \in Nat,
         Cardinality(roots') + Cardinality(OwnedIn(holds'))
           = Cardinality(roots) + Cardinality(OwnedIn(holds)) - d,
         SpentOK(box', holds'), WrapsOK(ops')
  PROVE  RefsInv'
<1>1. /\ \A r \in Realms : refs'[r] = refs[r] - One(S, r)
      /\ \A r \in Realms : rec'[r] = "live" <=> refs'[r] > 0
      /\ Cardinality(LiveIn(rec')) \in Nat /\ Cardinality(Dropping(S)) \in Nat
      /\ Cardinality(LiveIn(rec')) = Cardinality(LiveIn(rec)) - Cardinality(Dropping(S))
  BY ReleasedRefs
<1>2. \A r \in Realms : refs'[r] = HeldIn(copies', holds', ops', r)
  BY <1>1 DEF RefsInv
<1>3. Cardinality(LiveIn(rec)) \in Nat /\ Cardinality(roots) \in Nat
      /\ Cardinality(OwnedIn(holds)) \in Nat /\ Cardinality(OwnedIn(holds')) \in Nat
  BY Numbers, HeldNumbers
<1>4. embedderRefs = Cardinality(LiveIn(rec)) + Cardinality(roots)
                       + Cardinality(OwnedIn(holds))
  BY DEF RefsInv, Outstanding
<1>5. embedderRefs' = Cardinality(LiveIn(rec')) + Cardinality(roots')
                        + Cardinality(OwnedIn(holds'))
  BY <1>1, <1>3, <1>4
<1>6. embedderRefs' = Outstanding(rec', roots', holds')
  BY <1>5 DEF Outstanding
<1> QED
  BY <1>1, <1>2, <1>6 DEF RefsInv

(* References taken, to realms somebody holds, and Globals; or given back, *)
(* when they are Globals.                                                  *)
LEMMA GrowCounted ==
  ASSUME IInv, RefsInv, UNCHANGED rec,
         \A r \in Realms : refs'[r] = HeldIn(copies', holds', ops', r),
         \A r \in Realms : refs'[r] > 0 <=> refs[r] > 0,
         NEW d \in Int, embedderRefs' = embedderRefs + d,
         Cardinality(roots') \in Nat,
         Cardinality(roots') + Cardinality(OwnedIn(holds'))
           = Cardinality(roots) + Cardinality(OwnedIn(holds)) + d,
         SpentOK(box', holds'), WrapsOK(ops')
  PROVE  RefsInv'
<1>1. Cardinality(LiveIn(rec)) \in Nat /\ Cardinality(roots) \in Nat
      /\ Cardinality(OwnedIn(holds)) \in Nat /\ Cardinality(OwnedIn(holds')) \in Nat
  BY Numbers, HeldNumbers
<1>2. embedderRefs = Cardinality(LiveIn(rec)) + Cardinality(roots)
                       + Cardinality(OwnedIn(holds))
  BY DEF RefsInv, Outstanding
<1>3. embedderRefs' = Cardinality(LiveIn(rec)) + Cardinality(roots')
                        + Cardinality(OwnedIn(holds'))
  BY <1>1, <1>2
<1>4. embedderRefs' = Outstanding(rec', roots', holds')
  BY <1>3 DEF Outstanding
<1>5. \A r \in Realms : rec'[r] = "live" <=> refs'[r] > 0
  BY DEF RefsInv
<1> QED
  BY <1>4, <1>5 DEF RefsInv

(* What ends with the innermost operation is its own Context.              *)
LEMMA PoppedCounts ==
  ASSUME IInv, RefsInv, Busy, ops' = Front(ops)
  PROVE  /\ \A r \in Realms :
              /\ Cardinality(OpsIn(ops', r)) \in Nat
              /\ Cardinality(OpsIn(ops', r))
                   = Cardinality(OpsIn(ops, r)) - One({Top.ctx}, r)
         /\ WrapsOK(ops')
<1>1. /\ Grown(ops', ops, Top)
      /\ \A i \in 1 .. Len(ops') : \E j \in 1 .. Len(ops) : ops'[i] = ops[j]
  BY OpsPopped
<1>2. ops' \in Seq(OpType) /\ ops \in Seq(OpType)
  BY <1>1 DEF Grown
<1>3. ASSUME NEW r \in Realms
      PROVE  /\ Cardinality(OpsIn(ops', r)) \in Nat
             /\ Cardinality(OpsIn(ops', r))
                  = Cardinality(OpsIn(ops, r)) - One({Top.ctx}, r)
  <2>1. Cardinality(OpsIn(ops', r)) \in Nat /\ One({Top.ctx}, r) \in Nat
    BY <1>2, OpsNumbers, OneFacts
  <2>2. Cardinality(OpsIn(ops, r)) = Cardinality(OpsIn(ops', r)) + One({Top.ctx}, r)
    BY <1>1, OpsGrow
  <2> QED
    BY <2>1, <2>2
<1>4. WrapsOK(ops')
  BY <1>1 DEF RefsInv, WrapsOK
<1> QED
  BY <1>3, <1>4

LEMMA PushedCounts ==
  ASSUME IInv, RefsInv, NEW op \in OpType, ops' = Append(ops, op),
         op.kind = "wrap" => op.ctx = NoRealm
  PROVE  /\ \A r \in Realms :
              /\ Cardinality(OpsIn(ops', r)) \in Nat
              /\ Cardinality(OpsIn(ops', r))
                   = Cardinality(OpsIn(ops, r)) + One({op.ctx}, r)
         /\ WrapsOK(ops')
<1>1. /\ Grown(ops, ops', op)
      /\ \A i \in 1 .. Len(ops') : ops'[i] = op \/ \E j \in 1 .. Len(ops) : ops'[i] = ops[j]
  BY OpsPushed
<1>2. ops' \in Seq(OpType)
  BY <1>1 DEF Grown
<1>3. ASSUME NEW r \in Realms
      PROVE  /\ Cardinality(OpsIn(ops', r)) \in Nat
             /\ Cardinality(OpsIn(ops', r))
                  = Cardinality(OpsIn(ops, r)) + One({op.ctx}, r)
  <2>1. Cardinality(OpsIn(ops', r)) \in Nat
    BY <1>2, OpsNumbers
  <2>2. Cardinality(OpsIn(ops', r)) = Cardinality(OpsIn(ops, r)) + One({op.ctx}, r)
    BY <1>1, OpsGrow
  <2> QED
    BY <2>1, <2>2
<1>4. WrapsOK(ops')
  BY <1>1 DEF RefsInv, WrapsOK
<1> QED
  BY <1>3, <1>4

(* A wrap is in no realm.                                                  *)
LEMMA WrapInNone ==
  ASSUME IInv, RefsInv, Busy, Top.kind = "wrap"
  PROVE  \A r \in Realms : One({Top.ctx}, r) = 0
<1>1. ops \in Seq(OpType) /\ ops # <<>>
  BY DEF IInv, TypeOK, OpType, Busy
<1>2. Len(ops) \in 1 .. Len(ops)
  BY <1>1, Popped
<1>3. Top.ctx = NoRealm
  BY <1>2 DEF Top, RefsInv, WrapsOK
<1>4. \A r \in Realms : r \notin {Top.ctx}
  BY <1>3, KindsDiffer DEF NoRealm
<1> QED
  BY <1>4, OneFacts

(* Nothing that is counted changes.                                        *)
LEMMA NothingCounted ==
  ASSUME IInv, RefsInv, UNCHANGED <<refs, rec, copies, holds, roots, embedderRefs>>,
         \A r \in Realms : Cardinality(OpsIn(ops', r)) = Cardinality(OpsIn(ops, r)),
         SpentOK(box', holds), WrapsOK(ops')
  PROVE  RefsInv'
  BY DEF RefsInv, HeldIn

(* A native's destructor gives back what the native owns.                  *)
LEMMA DestroyCounted ==
  ASSUME IInv, RefsInv, NEW b \in Boxes, DestroyBox(b), UNCHANGED <<copies, roots>>,
         \A r \in Realms : Cardinality(OpsIn(ops', r)) = Cardinality(OpsIn(ops, r)),
         WrapsOK(ops')
  PROVE  RefsInv'
<1>1. holds \in HoldsType /\ holds' = [holds EXCEPT ![b] = {}]
      /\ box \in [Boxes -> {"unmade", "given", "wrapped", "fired", "spent"}]
      /\ box' = [box EXCEPT ![b] = "spent"]
  BY DEF DestroyBox, IInv, TypeOK, HoldsType
<1>2. Owning(holds', holds, b, holds[b])
  BY <1>1 DEF Owning, HoldsType
<1>3. \A r \in Realms \cap holds[b] : refs[r] > 0
  BY HeldIsLive
<1>4. ASSUME NEW r \in Realms
      PROVE  HeldIn(copies', holds', ops', r) = HeldIn(copies, holds, ops, r) - One(holds[b], r)
  <2>1. Cardinality(HeldBy(holds, r)) = Cardinality(HeldBy(holds', r)) + One(holds[b], r)
    BY <1>2, HeldPut
  <2>2. Cardinality(HeldBy(holds', r)) \in Nat /\ One(holds[b], r) \in Nat
        /\ copies[r] \in Nat /\ Cardinality(OpsIn(ops, r)) \in Nat
    BY HeldNumbers, OneFacts, Numbers
  <2> QED
    BY <2>1, <2>2 DEF HeldIn
<1>5. Cardinality(OwnedIn(holds))
        = Cardinality(OwnedIn(holds')) + Cardinality(holds[b] \cap Boxes)
  BY <1>2, OwnedPut
<1>6. Cardinality(OwnedIn(holds')) \in Nat /\ Cardinality(roots) \in Nat
  BY HeldNumbers, Numbers
<1>7. Cardinality(holds[b] \cap Boxes) \in Int
  BY CountOK
<1>8. Cardinality(roots') + Cardinality(OwnedIn(holds'))
        = Cardinality(roots) + Cardinality(OwnedIn(holds)) - Cardinality(holds[b] \cap Boxes)
  BY <1>5, <1>6, <1>7
<1>9. SpentOK(box', holds')
  BY <1>1 DEF SpentOK, RefsInv, HoldsType
<1>10. Released(holds[b])
       /\ embedderRefs' = embedderRefs - Cardinality(Dropping(holds[b]))
                                       - Cardinality(holds[b] \cap Boxes)
  BY DEF DestroyBox
<1>11. Cardinality(roots') \in Nat
  BY <1>6
<1> QED
  BY <1>3, <1>4, <1>7, <1>8, <1>9, <1>10, <1>11, ReleaseCounted

(* An operation's Context goes with it.                                    *)
LEMMA ContextGoes ==
  ASSUME IInv, RefsInv, Busy, ops' = Front(ops), Released({Top.ctx}),
         embedderRefs' = embedderRefs - Cardinality(Dropping({Top.ctx})),
         UNCHANGED <<holds, copies, roots>>, SpentOK(box', holds)
  PROVE  RefsInv'
<1>1. \A r \in Realms \cap {Top.ctx} : refs[r] > 0
  BY UsableIsLive DEF Usable
<1>2. WrapsOK(ops')
  BY PoppedCounts
<1>3. ASSUME NEW r \in Realms
      PROVE  HeldIn(copies', holds', ops', r) = HeldIn(copies, holds, ops, r) - One({Top.ctx}, r)
  <2>1. /\ Cardinality(OpsIn(ops', r)) \in Nat
        /\ Cardinality(OpsIn(ops', r)) = Cardinality(OpsIn(ops, r)) - One({Top.ctx}, r)
    BY PoppedCounts
  <2>2. /\ Cardinality(HeldBy(holds, r)) \in Nat /\ One({Top.ctx}, r) \in Nat
        /\ copies[r] \in Nat /\ Cardinality(OpsIn(ops, r)) \in Nat
    BY OneFacts, Numbers
  <2> QED
    BY <2>1, <2>2 DEF HeldIn
<1>4. /\ Cardinality(roots) \in Nat /\ Cardinality(OwnedIn(holds)) \in Nat
      /\ Cardinality(Dropping({Top.ctx})) \in Int /\ embedderRefs \in Int
  BY Numbers, DroppedCount DEF IInv, TypeOK
<1>5. Cardinality(roots') + Cardinality(OwnedIn(holds'))
        = Cardinality(roots) + Cardinality(OwnedIn(holds)) - 0
  BY <1>4
<1>6. embedderRefs' = embedderRefs - Cardinality(Dropping({Top.ctx})) - 0
  BY <1>4
<1>7. Cardinality(roots') \in Nat /\ 0 \in Int /\ SpentOK(box', holds')
  BY <1>4
<1> QED
  BY <1>1, <1>2, <1>3, <1>5, <1>6, <1>7, ReleaseCounted

(* The embedder's own copies.                                              *)
LEMMA NewContextCounted ==
  ASSUME IInv, RefsInv, NEW q \in Realms, NewContext(q)
  PROVE  RefsInv'
<1>1. /\ rec \in [Realms -> {"none", "live", "freed"}] /\ rec[q] = "none"
      /\ rec' = [rec EXCEPT ![q] = "live"]
      /\ refs \in [Realms -> Int] /\ refs' = [refs EXCEPT ![q] = 1]
      /\ copies \in [Realms -> 0 .. MaxCopies] /\ copies' = [copies EXCEPT ![q] = 1]
      /\ embedderRefs' = embedderRefs + 1
      /\ holds' = holds /\ roots' = roots /\ ops' = ops /\ box' = box
  BY DEF NewContext, IInv, TypeOK, natives, functions
<1>2. \A r \in Realms :
        /\ refs[r] \in Int /\ copies[r] \in Nat
        /\ Cardinality(HeldBy(holds, r)) \in Nat /\ Cardinality(OpsIn(ops, r)) \in Nat
        /\ refs[r] = copies[r] + Cardinality(HeldBy(holds, r)) + Cardinality(OpsIn(ops, r))
        /\ rec[r] = "live" <=> refs[r] > 0
  BY Numbers DEF RefsInv, HeldIn
<1>3. /\ copies[q] = 0 /\ Cardinality(HeldBy(holds, q)) = 0
      /\ Cardinality(OpsIn(ops, q)) = 0
  BY <1>1, <1>2
<1>4. ASSUME NEW r \in Realms
      PROVE  /\ refs'[r] = HeldIn(copies', holds', ops', r)
             /\ rec'[r] = "live" <=> refs'[r] > 0
  <2>1. CASE r = q
    <3>1. refs'[r] = 1 /\ copies'[r] = 1 /\ rec'[r] = "live"
      BY <1>1, <2>1
    <3> QED
      BY <1>1, <1>3, <2>1, <3>1 DEF HeldIn
  <2>2. CASE r # q
    <3>1. refs'[r] = refs[r] /\ copies'[r] = copies[r] /\ rec'[r] = rec[r]
      BY <1>1, <2>2
    <3> QED
      BY <1>1, <1>2, <3>1 DEF HeldIn
  <2> QED
    BY <2>1, <2>2
<1>5. LiveIn(rec') = LiveIn(rec) \cup {q} /\ q \notin LiveIn(rec)
  BY <1>1 DEF LiveIn
<1>6. Cardinality(LiveIn(rec')) = Cardinality(LiveIn(rec)) + 1
  BY <1>5, Numbers, FS_AddElement
<1>7. embedderRefs' = Outstanding(rec', roots', holds')
  <2>1. /\ Cardinality(LiveIn(rec)) \in Nat /\ Cardinality(roots) \in Nat
        /\ Cardinality(OwnedIn(holds)) \in Nat
    BY Numbers
  <2>2. embedderRefs = Cardinality(LiveIn(rec)) + Cardinality(roots)
                         + Cardinality(OwnedIn(holds))
    BY DEF RefsInv, Outstanding
  <2>3. embedderRefs' = Cardinality(LiveIn(rec')) + Cardinality(roots)
                         + Cardinality(OwnedIn(holds))
    BY <1>1, <1>6, <2>1, <2>2
  <2> QED
    BY <1>1, <2>3 DEF Outstanding
<1>8. SpentOK(box', holds') /\ WrapsOK(ops')
  BY <1>1 DEF RefsInv
<1> QED
  BY <1>4, <1>7, <1>8 DEF RefsInv

LEMMA RetainCounted ==
  ASSUME IInv, RefsInv, NEW q \in Realms, RetainContext(q)
  PROVE  RefsInv'
<1>1. /\ refs \in [Realms -> Int] /\ refs' = [refs EXCEPT ![q] = @ + 1]
      /\ copies \in [Realms -> 0 .. MaxCopies] /\ copies' = [copies EXCEPT ![q] = @ + 1]
      /\ UNCHANGED <<rec, holds, roots, ops, box, embedderRefs>> /\ Usable(q)
      /\ embedderRefs \in Int
  BY DEF RetainContext, IInv, TypeOK, natives, functions
<1>2. \A r \in Realms :
        /\ refs[r] \in Int /\ copies[r] \in Nat
        /\ Cardinality(HeldBy(holds, r)) \in Nat /\ Cardinality(OpsIn(ops, r)) \in Nat
        /\ refs[r] = copies[r] + Cardinality(HeldBy(holds, r)) + Cardinality(OpsIn(ops, r))
  BY Numbers DEF RefsInv, HeldIn
<1>3. refs[q] > 0
  BY <1>1, UsableIsLive
<1>4. ASSUME NEW r \in Realms
      PROVE  /\ refs'[r] = HeldIn(copies', holds', ops', r)
             /\ refs'[r] > 0 <=> refs[r] > 0
  <2>1. CASE r = q
    <3>1. refs'[r] = refs[r] + 1 /\ copies'[r] = copies[r] + 1
      BY <1>1, <2>1
    <3> QED
      BY <1>1, <1>2, <1>3, <2>1, <3>1 DEF HeldIn
  <2>2. CASE r # q
    <3>1. refs'[r] = refs[r] /\ copies'[r] = copies[r]
      BY <1>1, <2>2
    <3> QED
      BY <1>1, <1>2, <3>1 DEF HeldIn
  <2> QED
    BY <2>1, <2>2
<1>5. /\ Cardinality(roots') \in Nat /\ 0 \in Int /\ embedderRefs' = embedderRefs + 0
      /\ Cardinality(roots') + Cardinality(OwnedIn(holds'))
           = Cardinality(roots) + Cardinality(OwnedIn(holds)) + 0
  BY <1>1, Numbers
<1>6. SpentOK(box', holds') /\ WrapsOK(ops') /\ UNCHANGED rec
  BY <1>1 DEF RefsInv
<1> QED
  BY <1>4, <1>5, <1>6, GrowCounted

LEMMA ReleaseContextCounted ==
  ASSUME IInv, RefsInv, NEW q \in Realms, ReleaseContext(q)
  PROVE  RefsInv'
<1>1. /\ copies \in [Realms -> 0 .. MaxCopies] /\ copies' = [copies EXCEPT ![q] = @ - 1]
      /\ copies[q] > 0 /\ Released({q})
      /\ embedderRefs' = embedderRefs - Cardinality(Dropping({q}))
      /\ UNCHANGED <<holds, roots, ops, box>> /\ embedderRefs \in Int
  BY DEF ReleaseContext, IInv, TypeOK, natives, functions
<1>2. \A r \in Realms \cap {q} : refs[r] > 0
  BY <1>1, HeldIsLive
<1>3. ASSUME NEW r \in Realms
      PROVE  HeldIn(copies', holds', ops', r) = HeldIn(copies, holds, ops, r) - One({q}, r)
  <2>1. /\ copies[r] \in Nat /\ Cardinality(HeldBy(holds, r)) \in Nat
        /\ Cardinality(OpsIn(ops, r)) \in Nat
    BY Numbers
  <2>2. CASE r = q
    <3>1. copies'[r] = copies[r] - 1 /\ One({q}, r) = 1
      BY <1>1, <2>2, OneFacts
    <3> QED
      BY <1>1, <2>1, <3>1 DEF HeldIn
  <2>3. CASE r # q
    <3>1. r \notin {q}
      BY <2>3
    <3>2. copies'[r] = copies[r] /\ One({q}, r) = 0
      BY <1>1, <2>3, <3>1, OneFacts
    <3> QED
      BY <1>1, <2>1, <3>2 DEF HeldIn
  <2> QED
    BY <2>2, <2>3
<1>4. Cardinality(Dropping({q})) \in Int
  BY DroppedCount
<1>5. /\ Cardinality(roots') \in Nat /\ 0 \in Int
      /\ Cardinality(roots') + Cardinality(OwnedIn(holds'))
           = Cardinality(roots) + Cardinality(OwnedIn(holds)) - 0
  BY <1>1, Numbers
<1>6. embedderRefs' = embedderRefs - Cardinality(Dropping({q})) - 0
  BY <1>1, <1>4
<1>7. SpentOK(box', holds') /\ WrapsOK(ops')
  BY <1>1 DEF RefsInv
<1> QED
  BY <1>1, <1>2, <1>3, <1>5, <1>6, <1>7, ReleaseCounted

(* The embedder's Globals.                                                 *)
LEMMA GlobalsCounted ==
  ASSUME IInv, RefsInv, NEW b \in Boxes, MakeGlobal(b) \/ ReleaseGlobal(b)
  PROVE  RefsInv'
<1>1. /\ UNCHANGED <<box, holds, rec, refs, copies, ops>> /\ embedderRefs \in Int
      /\ roots \subseteq Boxes
  BY DEF MakeGlobal, ReleaseGlobal, IInv, TypeOK, natives, contextState
<1>2. /\ IsFiniteSet(roots) /\ Cardinality(roots) \in Nat
      /\ Cardinality(OwnedIn(holds)) \in Nat
  BY Numbers
<1>3. \A r \in Realms : refs'[r] = HeldIn(copies', holds', ops', r)
                        /\ (refs'[r] > 0 <=> refs[r] > 0)
  BY <1>1 DEF RefsInv
<1>4. SpentOK(box', holds') /\ WrapsOK(ops') /\ UNCHANGED rec
  BY <1>1 DEF RefsInv
<1>5. CASE MakeGlobal(b)
  <2>1. b \notin roots /\ roots' = roots \cup {b} /\ embedderRefs' = embedderRefs + 1
    BY <1>5 DEF MakeGlobal
  <2>2. Cardinality(roots') = Cardinality(roots) + 1
    BY <1>2, <2>1, FS_AddElement
  <2>3. /\ Cardinality(roots') \in Nat /\ 1 \in Int
        /\ Cardinality(roots') + Cardinality(OwnedIn(holds'))
             = Cardinality(roots) + Cardinality(OwnedIn(holds)) + 1
    BY <1>1, <1>2, <2>2
  <2> QED
    BY <1>3, <1>4, <2>1, <2>3, GrowCounted
<1>6. CASE ReleaseGlobal(b)
  <2>1. b \in roots /\ roots' = roots \ {b} /\ embedderRefs' = embedderRefs - 1
    BY <1>6 DEF ReleaseGlobal
  <2>2. IsFiniteSet(roots') /\ Cardinality(roots') = Cardinality(roots) - 1
    BY <1>2, <2>1, FS_RemoveElement
  <2>3. Cardinality(roots') \in Nat
    BY <2>2, FS_CardinalityType
  <2>4. /\ -1 \in Int /\ embedderRefs' = embedderRefs + (-1)
        /\ Cardinality(roots') + Cardinality(OwnedIn(holds'))
             = Cardinality(roots) + Cardinality(OwnedIn(holds)) + (-1)
    BY <1>1, <1>2, <2>1, <2>2
  <2> QED
    BY <1>3, <1>4, <2>3, <2>4, GrowCounted
<1> QED
  BY <1>5, <1>6

(* What a native takes, its owner could use.                               *)
LEMMA TakenIsLive ==
  ASSUME IInv, RefsInv, NEW H \in Holdings, NEW r \in Realms \cap H
  PROVE  refs[r] > 0
<1>1. CASE H = {}
  BY <1>1
<1>2. CASE \E q \in Realms : Usable(q) /\ H = {q}
  BY <1>2, UsableIsLive
<1>3. CASE \E b \in roots : H = {b}
  BY <1>3, KindsDiffer DEF IInv, TypeOK
<1> QED
  BY <1>1, <1>2, <1>3 DEF Holdings

LEMMA WrapCounted ==
  ASSUME IInv, RefsInv, NEW b \in Boxes, NEW H \in Holdings, Wrap(b, H)
  PROVE  RefsInv'
<1>1. /\ holds \in HoldsType /\ holds' = [holds EXCEPT ![b] = H]
      /\ box \in [Boxes -> {"unmade", "given", "wrapped", "fired", "spent"}]
      /\ box[b] = "unmade" /\ box' = [box EXCEPT ![b] = "given"]
      /\ refs' = [r \in Realms |-> refs[r] + (IF r \in H THEN 1 ELSE 0)]
      /\ embedderRefs' = embedderRefs + Cardinality(H \cap Boxes)
      /\ ops' = Append(ops, Op("wrap", b, NoRealm))
      /\ UNCHANGED <<rec, copies, roots>>
  BY DEF Wrap, TakeHoldings, Fresh, IInv, TypeOK, HoldsType
<1>2. H \in SUBSET (Realms \cup Boxes)
  BY HoldingsType
<1>3. holds[b] = {}
  BY <1>1 DEF RefsInv, SpentOK
<1>4. Owning(holds, holds', b, H)
  BY <1>1, <1>2, <1>3 DEF Owning, HoldsType
<1>5. Op("wrap", b, NoRealm) \in OpType
  BY DEF Op, OpType, Kinds
<1>6. Op("wrap", b, NoRealm).ctx = NoRealm
  BY DEF Op
<1>7. \A r \in Realms : /\ Cardinality(OpsIn(ops', r)) \in Nat
                        /\ Cardinality(OpsIn(ops', r))
                             = Cardinality(OpsIn(ops, r)) + One({NoRealm}, r)
  BY <1>1, <1>5, <1>6, PushedCounts
<1>8. WrapsOK(ops')
  BY <1>1, <1>5, <1>6, PushedCounts
<1>9. \A r \in Realms : r \notin {NoRealm}
  BY KindsDiffer DEF NoRealm
<1>10. \A r \in Realms : One({NoRealm}, r) = 0
  BY <1>9, OneFacts
<1>11. ASSUME NEW r \in Realms
       PROVE  /\ refs'[r] = HeldIn(copies', holds', ops', r)
              /\ refs'[r] > 0 <=> refs[r] > 0
  <2>1. /\ refs[r] \in Int /\ copies[r] \in Nat
        /\ Cardinality(HeldBy(holds, r)) \in Nat /\ Cardinality(OpsIn(ops, r)) \in Nat
        /\ refs[r] = copies[r] + Cardinality(HeldBy(holds, r)) + Cardinality(OpsIn(ops, r))
    BY Numbers DEF RefsInv, HeldIn
  <2>2. Cardinality(HeldBy(holds', r)) = Cardinality(HeldBy(holds, r)) + One(H, r)
    BY <1>4, HeldPut
  <2>3. One(H, r) \in Nat /\ (r \notin H => One(H, r) = 0)
    BY OneFacts
  <2>4. refs'[r] = refs[r] + One(H, r)
    BY <1>1 DEF One
  <2>5. Cardinality(OpsIn(ops', r)) = Cardinality(OpsIn(ops, r))
    <3>1. /\ Cardinality(OpsIn(ops', r)) = Cardinality(OpsIn(ops, r)) + One({NoRealm}, r)
          /\ One({NoRealm}, r) = 0
      BY <1>7, <1>10
    <3> QED
      BY <2>1, <3>1
  <2>6. refs'[r] = HeldIn(copies', holds', ops', r)
    BY <1>1, <2>1, <2>2, <2>3, <2>4, <2>5 DEF HeldIn
  <2>7. CASE r \in H
    BY <2>1, <2>3, <2>4, <2>6, <2>7, TakenIsLive
  <2>8. CASE r \notin H
    BY <2>1, <2>3, <2>4, <2>6, <2>8
  <2> QED
    BY <2>7, <2>8
<1>12. Cardinality(OwnedIn(holds')) = Cardinality(OwnedIn(holds)) + Cardinality(H \cap Boxes)
  BY <1>4, OwnedPut
<1>13. /\ Cardinality(OwnedIn(holds)) \in Nat /\ Cardinality(roots) \in Nat
       /\ Cardinality(H \cap Boxes) \in Int
  BY Numbers, CountOK
<1>14. /\ Cardinality(roots') \in Nat
       /\ Cardinality(roots') + Cardinality(OwnedIn(holds'))
            = Cardinality(roots) + Cardinality(OwnedIn(holds)) + Cardinality(H \cap Boxes)
  BY <1>1, <1>12, <1>13
<1>15. SpentOK(box', holds')
  BY <1>1 DEF RefsInv, SpentOK, HoldsType
<1>16. embedderRefs' = embedderRefs + Cardinality(H \cap Boxes) /\ UNCHANGED rec
  BY <1>1
<1> QED
  BY <1>8, <1>11, <1>13, <1>14, <1>15, <1>16, GrowCounted

(* A native call, or a constructor, is given a Context of its own.         *)
LEMMA EnterCounted ==
  ASSUME IInv, RefsInv, NEW op \in OpType, op.kind # "wrap", ops' = Append(ops, op),
         \A r \in Realms : refs'[r] = refs[r] + One({op.ctx}, r),
         op.ctx \in Realms => refs[op.ctx] > 0,
         UNCHANGED <<box, holds, rec, copies, roots, embedderRefs>>
  PROVE  RefsInv'
<1>1. \A r \in Realms : /\ Cardinality(OpsIn(ops', r)) \in Nat
                        /\ Cardinality(OpsIn(ops', r))
                             = Cardinality(OpsIn(ops, r)) + One({op.ctx}, r)
  BY PushedCounts
<1>2. WrapsOK(ops')
  BY PushedCounts
<1>3. ASSUME NEW r \in Realms
      PROVE  /\ refs'[r] = HeldIn(copies', holds', ops', r)
             /\ refs'[r] > 0 <=> refs[r] > 0
  <2>1. /\ refs[r] \in Int /\ copies[r] \in Nat
        /\ Cardinality(HeldBy(holds, r)) \in Nat /\ Cardinality(OpsIn(ops, r)) \in Nat
        /\ refs[r] = copies[r] + Cardinality(HeldBy(holds, r)) + Cardinality(OpsIn(ops, r))
    BY Numbers DEF RefsInv, HeldIn
  <2>2. One({op.ctx}, r) \in Nat /\ (r \notin {op.ctx} => One({op.ctx}, r) = 0)
    BY OneFacts
  <2>3. HeldIn(copies', holds', ops', r)
          = copies[r] + Cardinality(HeldBy(holds, r)) + Cardinality(OpsIn(ops', r))
    BY DEF HeldIn
  <2>4. /\ Cardinality(OpsIn(ops', r)) = Cardinality(OpsIn(ops, r)) + One({op.ctx}, r)
        /\ refs'[r] = refs[r] + One({op.ctx}, r)
    BY <1>1
  <2>5. refs'[r] = HeldIn(copies', holds', ops', r)
    BY <2>1, <2>2, <2>3, <2>4
  <2>6. CASE r = op.ctx
    BY <2>1, <2>2, <2>4, <2>5, <2>6
  <2>7. CASE r # op.ctx
    <3>1. r \notin {op.ctx}
      BY <2>7
    <3>2. One({op.ctx}, r) = 0
      BY <3>1, OneFacts
    <3> QED
      BY <2>1, <2>4, <2>5, <3>2
  <2> QED
    BY <2>6, <2>7
<1>4. /\ embedderRefs \in Int /\ Cardinality(roots) \in Nat
      /\ Cardinality(OwnedIn(holds)) \in Nat
  BY Numbers DEF IInv, TypeOK
<1>5. /\ Cardinality(roots') \in Nat /\ 0 \in Int /\ embedderRefs' = embedderRefs + 0
      /\ Cardinality(roots') + Cardinality(OwnedIn(holds'))
           = Cardinality(roots) + Cardinality(OwnedIn(holds)) + 0
  BY <1>4
<1>6. SpentOK(box', holds') /\ UNCHANGED rec
  BY DEF RefsInv
<1> QED
  BY <1>2, <1>3, <1>5, <1>6, GrowCounted

LEMMA CurrentIsLive ==
  ASSUME IInv, RefsInv, NEW r \in Realms
  PROVE  /\ CurrentContext(r) \in {r, NoRealm, Stale}
         /\ CurrentContext(r) \in Realms => CurrentContext(r) = r /\ refs[r] > 0
<1>1. r \notin {NoRealm, Stale} /\ NoRealm \notin Realms /\ Stale \notin Realms
  BY KindsDiffer DEF NoRealm, Stale
<1>2. rec[r] = "live" <=> refs[r] > 0
  BY DEF RefsInv
<1> QED
  BY <1>1, <1>2 DEF CurrentContext

LEMMA ConstructorCounted ==
  ASSUME IInv, RefsInv, NEW b \in Boxes, NEW q \in Realms, ConstructorTrampoline(b, q)
  PROVE  RefsInv'
<1> DEFINE c == CurrentContext(q)
           op == Op("construct", b, c)
<1>1. /\ c \in {q, NoRealm, Stale}
      /\ c \in Realms => c = q /\ refs[q] > 0
  BY CurrentIsLive
<1>2. /\ ops' = Append(ops, op)
      /\ refs' = IF c = q THEN [refs EXCEPT ![q] = @ + 1] ELSE refs
      /\ refs \in [Realms -> Int]
      /\ UNCHANGED <<box, holds, rec, copies, roots, embedderRefs>>
  BY DEF ConstructorTrampoline, natives, IInv, TypeOK
<1> HIDE DEF c
<1>3. op \in OpType /\ op.kind # "wrap" /\ op.ctx = c
  BY <1>1 DEF Op, OpType, Kinds
<1>4. NoRealm \notin Realms /\ Stale \notin Realms
  BY KindsDiffer DEF NoRealm, Stale
<1> HIDE DEF op
<1>5. ASSUME NEW r \in Realms
      PROVE  refs'[r] = refs[r] + One({op.ctx}, r)
  <2>1. refs[r] \in Int
    BY <1>2
  <2>2. CASE r = c
    <3>1. One({op.ctx}, r) = 1
      BY <1>3, <2>2, OneFacts
    <3>2. refs'[r] = refs[r] + 1
      BY <1>1, <1>2, <2>2
    <3> QED
      BY <3>1, <3>2
  <2>3. CASE r # c
    <3>1. r \notin {op.ctx}
      BY <1>3, <2>3
    <3>2. One({op.ctx}, r) = 0
      BY <3>1, OneFacts
    <3>3. refs'[r] = refs[r]
      BY <1>2, <2>3
    <3> QED
      BY <2>1, <3>2, <3>3
  <2> QED
    BY <2>2, <2>3
<1>6. op.ctx \in Realms => refs[op.ctx] > 0
  BY <1>1, <1>3
<1> QED
  BY <1>2, <1>3, <1>5, <1>6, EnterCounted

LEMMA CallCounted ==
  ASSUME IInv, RefsInv, NEW f \in Fns, Call(f)
  PROVE  RefsInv'
<1>1. home[f] \in Realms
  BY DEF Call, IInv, FnsOK
<1> DEFINE q == home[f]
           c == CurrentContext(q)
           op == Op("call", f, c)
<1>2. /\ c \in {q, NoRealm, Stale}
      /\ c \in Realms => c = q /\ refs[q] > 0
  BY <1>1, CurrentIsLive
<1>3. /\ ops' = Append(ops, op)
      /\ refs' = [r \in Realms |-> refs[r] + (IF c = r THEN 1 ELSE 0)]
      /\ UNCHANGED <<box, holds, rec, copies, roots, embedderRefs>>
  BY DEF Call, natives
<1>4. q \in Realms
  BY <1>1
<1> HIDE DEF c, q
<1>5. op \in OpType /\ op.kind # "wrap" /\ op.ctx = c
  BY <1>2, <1>4 DEF Op, OpType, Kinds
<1> HIDE DEF op
<1>6. \A r \in Realms : refs'[r] = refs[r] + One({op.ctx}, r)
  BY <1>3, <1>5 DEF One
<1>7. op.ctx \in Realms => refs[op.ctx] > 0
  BY <1>2, <1>5
<1> QED
  BY <1>3, <1>5, <1>6, <1>7, EnterCounted

(* The constructor's answer is attached, and its own Context goes.         *)
AttachLeaves(H, r) == refs[r] + (IF r \in H THEN 1 ELSE 0) - (IF Top.ctx = r THEN 1 ELSE 0)

LEMMA AttachCounted ==
  ASSUME IInv, RefsInv, NEW H \in Holdings, Attach(H)
  PROVE  RefsInv'
<1> DEFINE b == Top.subject
           freed == {r \in Realms : rec[r] = "live" /\ AttachLeaves(H, r) = 0}
<1>1. /\ holds \in HoldsType /\ holds' = [holds EXCEPT ![b] = H]
      /\ box \in [Boxes -> {"unmade", "given", "wrapped", "fired", "spent"}]
      /\ box' = [box EXCEPT ![b] = "wrapped"]
      /\ refs' = [r \in Realms |-> AttachLeaves(H, r)]
      /\ rec' = [r \in Realms |-> IF r \in freed THEN "freed" ELSE rec[r]]
      /\ embedderRefs' = embedderRefs + Cardinality(H \cap Boxes) - Cardinality(freed)
      /\ ops' = Front(ops) /\ UNCHANGED <<copies, roots>>
      /\ Busy /\ Top.kind = "construct"
  BY DEF Attach, AttachLeaves, Constructing, IInv, TypeOK, HoldsType
<1>2. b \in Boxes /\ box[b] = "unmade"
  <2>1. ops \in Seq(OpType) /\ ops # <<>>
    BY <1>1 DEF IInv, TypeOK, OpType, Busy
  <2>2. Len(ops) \in 1 .. Len(ops)
    BY <2>1, Popped
  <2> QED
    BY <1>1, <2>2 DEF Top, IInv, OpsOK
<1> HIDE DEF b
<1>3. H \in SUBSET (Realms \cup Boxes)
  BY HoldingsType
<1>4. holds[b] = {}
  BY <1>2 DEF RefsInv, SpentOK
<1>5. Owning(holds, holds', b, H)
  BY <1>1, <1>2, <1>3, <1>4 DEF Owning, HoldsType
<1>6. WrapsOK(ops')
  BY <1>1, PoppedCounts
<1>7. ASSUME NEW r \in Realms
      PROVE  /\ refs'[r] = HeldIn(copies', holds', ops', r)
             /\ rec'[r] = "live" <=> refs'[r] > 0
             /\ rec'[r] = "live" <=> rec[r] = "live" /\ r \notin freed
  <2>1. /\ refs[r] \in Int /\ copies[r] \in Nat
        /\ Cardinality(HeldBy(holds, r)) \in Nat /\ Cardinality(OpsIn(ops, r)) \in Nat
        /\ refs[r] = copies[r] + Cardinality(HeldBy(holds, r)) + Cardinality(OpsIn(ops, r))
        /\ rec[r] = "live" <=> refs[r] > 0
    BY Numbers DEF RefsInv, HeldIn
  <2>2. /\ Cardinality(HeldBy(holds', r)) = Cardinality(HeldBy(holds, r)) + One(H, r)
        /\ Cardinality(HeldBy(holds', r)) \in Nat
    BY <1>5, HeldPut, HeldNumbers
  <2>3. /\ Cardinality(OpsIn(ops', r)) \in Nat
        /\ Cardinality(OpsIn(ops', r)) = Cardinality(OpsIn(ops, r)) - One({Top.ctx}, r)
    BY <1>1, PoppedCounts
  <2>4. One(H, r) \in Nat /\ One({Top.ctx}, r) \in Nat
    BY OneFacts
  <2>5. refs'[r] = AttachLeaves(H, r)
        /\ AttachLeaves(H, r) = refs[r] + One(H, r) - One({Top.ctx}, r)
    BY <1>1 DEF AttachLeaves, One
  <2>6. HeldIn(copies', holds', ops', r)
          = copies[r] + Cardinality(HeldBy(holds', r)) + Cardinality(OpsIn(ops', r))
    BY <1>1 DEF HeldIn
  <2>7. refs'[r] = HeldIn(copies', holds', ops', r) /\ refs'[r] \in Nat
    BY <2>1, <2>2, <2>3, <2>4, <2>5, <2>6
  <2>8. r \in freed <=> rec[r] = "live" /\ refs'[r] = 0
    BY <2>5
  <2>9. rec'[r] = IF r \in freed THEN "freed" ELSE rec[r]
    BY <1>1
  <2> HIDE DEF freed
  <2>10. rec'[r] = "live" <=> rec[r] = "live" /\ r \notin freed
    BY <2>9
  <2>11. CASE rec[r] = "live"
    BY <2>7, <2>8, <2>10, <2>11
  <2>12. CASE rec[r] # "live"
    <3>1. refs[r] = 0
      BY <2>1, <2>12
    <3>2. r \notin H /\ r \notin {Top.ctx}
      BY <1>1, <2>12, <3>1, TakenIsLive, UsableIsLive DEF Usable
    <3>3. One(H, r) = 0 /\ One({Top.ctx}, r) = 0
      BY <3>2, OneFacts
    <3>4. refs'[r] = 0
      BY <2>5, <3>1, <3>3
    <3> QED
      BY <2>7, <2>10, <2>12, <3>4
  <2> QED
    BY <2>11, <2>12
<1>8. freed \subseteq LiveIn(rec) /\ LiveIn(rec') = LiveIn(rec) \ freed
  BY <1>7 DEF LiveIn
<1> HIDE DEF freed
<1>9. /\ Cardinality(LiveIn(rec)) \in Nat /\ Cardinality(LiveIn(rec')) \in Nat
      /\ Cardinality(freed) \in Nat
      /\ Cardinality(LiveIn(rec')) = Cardinality(LiveIn(rec)) - Cardinality(freed)
  BY <1>8, LiveLess
<1>10. Cardinality(OwnedIn(holds')) = Cardinality(OwnedIn(holds)) + Cardinality(H \cap Boxes)
  BY <1>5, OwnedPut
<1>11. /\ Cardinality(OwnedIn(holds)) \in Nat /\ Cardinality(roots) \in Nat
       /\ Cardinality(H \cap Boxes) \in Int
  BY Numbers, CountOK
<1>12. embedderRefs = Cardinality(LiveIn(rec)) + Cardinality(roots)
                        + Cardinality(OwnedIn(holds))
  BY DEF RefsInv, Outstanding
<1>13. embedderRefs' = Cardinality(LiveIn(rec')) + Cardinality(roots)
                         + Cardinality(OwnedIn(holds'))
  BY <1>1, <1>9, <1>10, <1>11, <1>12
<1>14. embedderRefs' = Outstanding(rec', roots', holds')
  BY <1>1, <1>13 DEF Outstanding
<1>15. SpentOK(box', holds')
  BY <1>1, <1>2 DEF RefsInv, SpentOK, HoldsType
<1> QED
  BY <1>6, <1>7, <1>14, <1>15 DEF RefsInv

LEMMA ReturnCounted ==
  ASSUME IInv, RefsInv, Return \/ AttachFails
  PROVE  RefsInv'
<1>1. /\ Busy /\ ops' = Front(ops) /\ Released({Top.ctx})
      /\ embedderRefs' = embedderRefs - Cardinality(Dropping({Top.ctx}))
      /\ UNCHANGED <<holds, copies, roots>>
  BY DEF Return, AttachFails, Constructing, natives
<1>2. SpentOK(box', holds)
  <2>1. CASE Return
    BY <2>1 DEF Return, natives, RefsInv
  <2>2. CASE AttachFails
    <3>1. ops \in Seq(OpType) /\ ops # <<>>
      BY <1>1 DEF IInv, TypeOK, OpType, Busy
    <3>2. Len(ops) \in 1 .. Len(ops)
      BY <3>1, Popped
    <3>3. box[Top.subject] = "unmade"
      BY <2>2, <3>2 DEF AttachFails, Constructing, Top, IInv, OpsOK
    <3>4. /\ box \in [Boxes -> {"unmade", "given", "wrapped", "fired", "spent"}]
          /\ box' = [box EXCEPT ![Top.subject] = "spent"]
      BY <2>2 DEF AttachFails, IInv, TypeOK
    <3> QED
      BY <3>3, <3>4 DEF RefsInv, SpentOK
  <2> QED
    BY <2>1, <2>2
<1> QED
  BY <1>1, <1>2, ContextGoes

(* Natives given back, and hand-overs that end.                            *)
LEMMA NativesCounted ==
  ASSUME IInv, RefsInv, NEW b \in Boxes,
         \/ FinalizeNativeLate(b) \/ InstanceFinalize(b)
         \/ FinalCollection(b) \/ DestroySurvivor(b)
  PROVE  RefsInv'
<1>1. DestroyBox(b) /\ UNCHANGED <<copies, roots, ops>>
  BY DEF FinalizeNativeLate, InstanceFinalize, FinalCollection, DestroySurvivor
<1>2. \A r \in Realms : Cardinality(OpsIn(ops', r)) = Cardinality(OpsIn(ops, r))
  BY <1>1
<1>3. WrapsOK(ops')
  BY <1>1 DEF RefsInv
<1> QED
  BY <1>1, <1>2, <1>3, DestroyCounted

LEMMA WrappedCounted ==
  ASSUME IInv, RefsInv, WrapDone \/ WrapFail
  PROVE  RefsInv'
<1>1. Busy /\ Top.kind = "wrap" /\ ops' = Front(ops) /\ UNCHANGED <<copies, roots>>
  BY DEF WrapDone, WrapFail, Wrapping, contextState
<1>2. Top.subject \in Boxes
  <2>1. ops \in Seq(OpType) /\ ops # <<>>
    BY <1>1 DEF IInv, TypeOK, OpType, Busy
  <2>2. Len(ops) \in 1 .. Len(ops)
    BY <2>1, Popped
  <2> QED
    BY <1>1, <2>2 DEF Top, IInv, OpsOK
<1>3. ASSUME NEW r \in Realms
      PROVE  Cardinality(OpsIn(ops', r)) = Cardinality(OpsIn(ops, r))
  <2>1. /\ Cardinality(OpsIn(ops', r)) = Cardinality(OpsIn(ops, r)) - One({Top.ctx}, r)
        /\ One({Top.ctx}, r) = 0
    BY <1>1, PoppedCounts, WrapInNone
  <2>2. Cardinality(OpsIn(ops, r)) \in Nat
    BY Numbers
  <2> QED
    BY <2>1, <2>2
<1>4. WrapsOK(ops')
  BY <1>1, PoppedCounts
<1>5. CASE WrapFail
  <2>1. DestroyBox(Top.subject)
    BY <1>5 DEF WrapFail
  <2> QED
    BY <1>1, <1>2, <1>3, <1>4, <2>1, DestroyCounted
<1>6. CASE WrapDone
  <2>1. /\ box' = [box EXCEPT ![Top.subject] = "wrapped"]
        /\ UNCHANGED <<refs, rec, copies, holds, roots, embedderRefs>>
    BY <1>6 DEF WrapDone, contextState
  <2>2. box \in [Boxes -> {"unmade", "given", "wrapped", "fired", "spent"}]
    BY DEF IInv, TypeOK
  <2>3. SpentOK(box', holds)
    BY <2>1, <2>2 DEF RefsInv, SpentOK
  <2> QED
    BY <1>3, <1>4, <2>1, <2>3, NothingCounted
<1> QED
  BY <1>5, <1>6

(* Everything else leaves what is counted alone.                           *)
LEMMA OthersCounted ==
  ASSUME IInv, RefsInv,
         \/ Up \/ IsolateDtor \/ IsolateGone \/ UNCHANGED vars
         \/ \E b \in Boxes : GlobalToSlot(b) \/ WrapNoRoom(b) \/ FinalizeNative(b)
         \/ \E f \in Fns, r \in Realms : MakeFunction(f, r)
         \/ \E f \in Fns : FinalizeCallbackRecord(f) \/ FinalizeCallbackRecordLate(f)
         \/ \E x \in Boxes \cup Fns : ScriptDrops(x)
  PROVE  RefsInv'
<1>1. UNCHANGED <<refs, rec, copies, holds, roots, embedderRefs, ops>>
  BY DEF Up, IsolateDtor, IsolateGone, vars, GlobalToSlot, WrapNoRoom, FinalizeNative,
         MakeFunction, FinalizeCallbackRecord, FinalizeCallbackRecordLate, ScriptDrops,
         natives, contextState
<1>2. \/ box' = box
      \/ \E b \in Boxes : WrapNoRoom(b) \/ FinalizeNative(b)
  BY DEF Up, IsolateDtor, IsolateGone, vars, GlobalToSlot,
         MakeFunction, FinalizeCallbackRecord, FinalizeCallbackRecordLate, ScriptDrops,
         natives
<1>3. box \in [Boxes -> {"unmade", "given", "wrapped", "fired", "spent"}]
  BY DEF IInv, TypeOK
<1>4. SpentOK(box', holds)
  <2>1. CASE box' = box
    BY <2>1 DEF RefsInv
  <2>2. ASSUME NEW b \in Boxes, WrapNoRoom(b) PROVE SpentOK(box', holds)
    <3>1. box[b] = "unmade" /\ box' = [box EXCEPT ![b] = "spent"]
      BY <2>2 DEF WrapNoRoom, Fresh
    <3> QED
      BY <1>3, <3>1 DEF RefsInv, SpentOK
  <2>3. ASSUME NEW b \in Boxes, FinalizeNative(b) PROVE SpentOK(box', holds)
    <3>1. box' = [box EXCEPT ![b] = "fired"]
      BY <2>3 DEF FinalizeNative
    <3> QED
      BY <1>3, <3>1 DEF RefsInv, SpentOK
  <2> QED
    BY <1>2, <2>1, <2>2, <2>3
<1>5. \A r \in Realms : Cardinality(OpsIn(ops', r)) = Cardinality(OpsIn(ops, r))
  BY <1>1
<1>6. WrapsOK(ops') /\ UNCHANGED <<refs, rec, copies, holds, roots, embedderRefs>>
  BY <1>1 DEF RefsInv
<1> QED
  BY <1>4, <1>5, <1>6, NothingCounted

LEMMA InitRefsInv == Init => RefsInv
<1> SUFFICES ASSUME Init PROVE RefsInv
  OBVIOUS
<1>1. /\ \A b \in Boxes : holds[b] = {}
      /\ \A r \in Realms : rec[r] = "none" /\ refs[r] = 0 /\ copies[r] = 0
      /\ roots = {} /\ embedderRefs = 0 /\ ops = <<>>
  BY DEF Init
<1>2. Len(ops) = 0
  BY <1>1, EmptySeq
<1>3. OwnedIn(holds) = {} /\ LiveIn(rec) = {}
  BY <1>1 DEF OwnedIn, LiveIn
<1>4. ASSUME NEW r \in Realms PROVE refs[r] = HeldIn(copies, holds, ops, r)
  <2>1. HeldBy(holds, r) = {} /\ OpsIn(ops, r) = {}
    BY <1>1, <1>2 DEF HeldBy, OpsIn
  <2>2. Cardinality(HeldBy(holds, r)) = 0 /\ Cardinality(OpsIn(ops, r)) = 0
    BY <2>1, FS_EmptySet
  <2> QED
    BY <1>1, <2>2 DEF HeldIn
<1>5. Cardinality(OwnedIn(holds)) = 0 /\ Cardinality(LiveIn(rec)) = 0
      /\ Cardinality(roots) = 0
  BY <1>1, <1>3, FS_EmptySet
<1>6. embedderRefs = Outstanding(rec, roots, holds)
  BY <1>1, <1>5 DEF Outstanding
<1>7. \A r \in Realms : rec[r] = "live" <=> refs[r] > 0
  BY <1>1
<1>8. SpentOK(box, holds) /\ WrapsOK(ops)
  BY <1>1, <1>2 DEF SpentOK, WrapsOK
<1> QED
  BY <1>4, <1>6, <1>7, <1>8 DEF RefsInv

LEMMA NextRefsInv == IInv /\ RefsInv /\ [Next]_vars => RefsInv'
<1> SUFFICES ASSUME IInv, RefsInv, [Next]_vars PROVE RefsInv'
  OBVIOUS
<1>1. CASE Up \/ UNCHANGED vars
  BY <1>1, OthersCounted
<1>2. CASE Embedder
  <2>1. ASSUME NEW r \in Realms, NewContext(r) \/ RetainContext(r) \/ ReleaseContext(r)
        PROVE  RefsInv'
    BY <2>1, NewContextCounted, RetainCounted, ReleaseContextCounted
  <2>2. ASSUME NEW b \in Boxes, MakeGlobal(b) \/ ReleaseGlobal(b) PROVE RefsInv'
    BY <2>2, GlobalsCounted
  <2>3. ASSUME NEW b \in Boxes, GlobalToSlot(b) \/ WrapNoRoom(b) PROVE RefsInv'
    BY <2>3, OthersCounted
  <2>4. ASSUME NEW b \in Boxes, NEW H \in Holdings, Wrap(b, H) PROVE RefsInv'
    BY <2>4, WrapCounted
  <2>5. ASSUME NEW f \in Fns, NEW r \in Realms, MakeFunction(f, r) PROVE RefsInv'
    BY <2>5, OthersCounted
  <2> QED
    BY <1>2, <2>1, <2>2, <2>3, <2>4, <2>5 DEF Embedder
<1>3. CASE Script
  <2>1. ASSUME NEW x \in Boxes \cup Fns, ScriptDrops(x) PROVE RefsInv'
    BY <2>1, OthersCounted
  <2>2. ASSUME NEW b \in Boxes, NEW r \in Realms, ConstructorTrampoline(b, r)
        PROVE  RefsInv'
    BY <2>2, ConstructorCounted
  <2>3. ASSUME NEW f \in Fns, Call(f) PROVE RefsInv'
    BY <2>3, CallCounted
  <2> QED
    BY <1>3, <2>1, <2>2, <2>3 DEF Script
<1>4. CASE Progress
  <2>1. ASSUME NEW H \in Holdings, Attach(H) PROVE RefsInv'
    BY <2>1, AttachCounted
  <2> QED
    BY <1>4, <2>1, WrappedCounted, ReturnCounted DEF Progress
<1>5. CASE Collector
  <2>1. ASSUME NEW b \in Boxes,
               FinalizeNative(b) \/ FinalizeNativeLate(b) \/ InstanceFinalize(b)
        PROVE  RefsInv'
    BY <2>1, OthersCounted, NativesCounted
  <2>2. ASSUME NEW f \in Fns, FinalizeCallbackRecord(f) \/ FinalizeCallbackRecordLate(f)
        PROVE  RefsInv'
    BY <2>2, OthersCounted
  <2> QED
    BY <1>5, <2>1, <2>2 DEF Collector
<1>6. CASE Teardown
  <2>1. ASSUME NEW b \in Boxes, FinalCollection(b) \/ DestroySurvivor(b) PROVE RefsInv'
    BY <2>1, NativesCounted
  <2> QED
    BY <1>6, <2>1, OthersCounted DEF Teardown
<1> QED
  BY <1>1, <1>2, <1>3, <1>4, <1>5, <1>6 DEF Next

(* Whatever the order of copies, hand-overs, calls and collections, every  *)
(* count is of what there is.                                              *)
THEOREM RefsInvariance == Spec => []RefsInv
  BY InitIInv, NextIInv, InitRefsInv, NextRefsInv, PTL DEF Spec

LEMMA OwnersAreHolders ==
  ASSUME NEW r \in Realms
  PROVE  Holders(r) = HeldIn(copies, holds, ops, r)
  BY DEF Holders, HeldIn, HeldBy, OpsIn

LEMMA GoneIsCopies ==
  ASSUME IInv, RefsInv, isolate = "gone"
  PROVE  /\ LiveIn(rec) = {r \in Realms : copies[r] > 0}
         /\ OwnedIn(holds) = {}
<1>1. filed = {} /\ ops = <<>> /\ ~Busy
  BY DEF IInv, BoxesOK, OverOK, Busy
<1>2. ASSUME NEW b \in Boxes PROVE holds[b] = {}
  <2>1. box[b] \in {"unmade", "given", "wrapped", "fired", "spent"}
    BY DEF IInv, TypeOK
  <2>2. box[b] \in {"unmade", "spent"}
    BY <1>1, <2>1 DEF IInv, BoxesOK
  <2> QED
    BY <2>2 DEF RefsInv, SpentOK
<1>3. OwnedIn(holds) = {}
  BY <1>2 DEF OwnedIn
<1>4. ASSUME NEW r \in Realms PROVE rec[r] = "live" <=> copies[r] > 0
  <2>1. Len(ops) = 0
    BY <1>1, EmptySeq
  <2>2. HeldBy(holds, r) = {} /\ OpsIn(ops, r) = {}
    BY <1>2, <2>1 DEF HeldBy, OpsIn
  <2>3. Cardinality(HeldBy(holds, r)) = 0 /\ Cardinality(OpsIn(ops, r)) = 0
    BY <2>2, FS_EmptySet
  <2>4. copies[r] \in Nat /\ refs[r] = copies[r] + 0 + 0 /\ (rec[r] = "live" <=> refs[r] > 0)
    BY <2>3, Numbers DEF RefsInv, HeldIn
  <2> QED
    BY <2>4
<1>5. LiveIn(rec) = {r \in Realms : copies[r] > 0}
  BY <1>4 DEF LiveIn
<1> QED
  BY <1>3, <1>5

(* Every realm's count is its holders, and Impl::embedderRefs is what is   *)
(* outstanding: the assertion that ends ~Isolate fails exactly when the    *)
(* embedder itself kept something.                                         *)
THEOREM CountsInStep == Spec => []RefsInStep
<1>1. IInv /\ RefsInv => RefsInStep
  <2> SUFFICES ASSUME IInv, RefsInv PROVE RefsInStep
    OBVIOUS
  <2>1. \A r \in Realms : refs[r] = Holders(r) /\ (rec[r] = "live" <=> refs[r] > 0)
    BY OwnersAreHolders DEF RefsInv
  <2>2. embedderRefs = Cardinality({r \in Realms : rec[r] = "live"})
                         + Cardinality(roots) + Cardinality(OwnedGlobals)
    BY DEF RefsInv, Outstanding, LiveIn, OwnedIn, OwnedGlobals
  <2>3. ASSUME isolate = "gone"
        PROVE  embedderRefs = Cardinality({r \in Realms : copies[r] > 0})
                                + Cardinality(roots)
    <3>1. /\ LiveIn(rec) = {r \in Realms : copies[r] > 0}
          /\ OwnedIn(holds) = {}
      BY <2>3, GoneIsCopies
    <3>2. Cardinality(OwnedIn(holds)) = 0
      BY <3>1, FS_EmptySet
    <3>3. /\ Cardinality(LiveIn(rec)) \in Nat /\ Cardinality(roots) \in Nat
          /\ embedderRefs = Cardinality(LiveIn(rec)) + Cardinality(roots) + 0
      BY <3>2, Numbers DEF RefsInv, Outstanding
    <3> QED
      BY <3>1, <3>3
  <2> QED
    BY <2>1, <2>2, <2>3 DEF RefsInStep
<1> QED
  BY <1>1, Invariance, RefsInvariance, PTL

=============================================================================
