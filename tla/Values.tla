-------------------------------- MODULE Values --------------------------------
(***************************************************************************)
(* What a value is, on two engines: the kind and the types each backend    *)
(* answers (KindOf, IsType), int32s read out of numbers, property          *)
(* attributes there and back, and which operations ask whether the isolate *)
(* is stopped before they reach the engine.                                *)
(*                                                                         *)
(* Pure operators: each ASSUME compares the two backends' translations     *)
(* with each other or with ECMAScript's definition, over every case.  TLC  *)
(* evaluates them with the runs of MCScripts.                              *)
(***************************************************************************)
LOCAL INSTANCE Integers
LOCAL INSTANCE Sequences

-----------------------------------------------------------------------------
(* Shapes: the values the questions tell apart.  An object may stand in    *)
(* another realm; SpiderMonkey then holds a wrapper and looks through it.  *)

Primitives == {"undefined", "null", "boolean", "int32", "double", "string", "symbol", "bigint"}
Objects == {"plain", "array", "function", "array buffer", "typed array", "data view",
            "promise", "external", "proxy of object", "proxy of array", "proxy of function"}
Shapes == Primitives \cup Objects

\* The engines' own predicates (external), which agree on what ECMAScript
\* defines.  V8's IsArray is of real arrays; SpiderMonkey's looks through a
\* proxy, and may throw at one.
Is(pred, s) ==
  CASE pred = "Number" -> s \in {"int32", "double"}
    [] pred = "Name" -> s \in {"string", "symbol"}
    [] pred = "Object" -> s \in Objects
    [] pred = "Callable" -> s \in {"function", "proxy of function"}
    [] pred = "Proxy" -> s \in {"proxy of object", "proxy of array", "proxy of function"}
    [] pred = "View" -> s \in {"typed array", "data view"}
    [] pred = "SM IsArray" -> s \in {"array", "proxy of array"}
    [] OTHER -> s = pred

\* KindOf asks in order, and the first predicate that holds answers.
V8Questions ==
  <<<<"undefined", "Undefined">>, <<"null", "Null">>, <<"boolean", "Boolean">>, <<"Number", "Number">>,
    <<"string", "String">>, <<"symbol", "Symbol">>, <<"bigint", "BigInt">>, <<"external", "External">>,
    <<"Callable", "Function">>, <<"array", "Array">>, <<"Object", "Object">>>>
V8KindOf(s) ==
  LET yes == {i \in DOMAIN V8Questions : Is(V8Questions[i][1], s)}
  IN IF yes = {} THEN "Other" ELSE V8Questions[CHOOSE i \in yes : \A j \in yes : i <= j][2]

\* SpiderMonkey: a callable first, then a proxy is an object before anybody
\* asks whether it is an array - the asking is what could throw.
SMKindOf(s) ==
  CASE s \in Primitives -> V8KindOf(s)
    [] s = "external" -> "External"
    [] s # "external" /\ Is("Callable", s) -> "Function"
    [] Is("Proxy", s) /\ ~Is("Callable", s) -> "Object"
    [] OTHER -> IF Is("SM IsArray", s) THEN "Array" ELSE "Object"

TypeCodes == {"Value", "Primitive", "Boolean", "Number", "Integer", "Name", "String", "Symbol", "BigInt",
              "Object", "Array", "Function", "ArrayBuffer", "ArrayBufferView", "TypedArray", "DataView",
              "Promise", "External"}

\* The predicate each code names; Value, Primitive and Object are their own.
Predicate ==
  [Boolean |-> "boolean", Number |-> "Number", Integer |-> "int32", Name |-> "Name", String |-> "string",
   Symbol |-> "symbol", BigInt |-> "bigint", Function |-> "Callable", ArrayBuffer |-> "array buffer",
   ArrayBufferView |-> "View", TypedArray |-> "typed array", DataView |-> "data view",
   Promise |-> "promise", External |-> "external", Array |-> "array"]

V8IsType(s, type) ==
  CASE type = "Value" -> TRUE
    [] type = "Primitive" -> ~Is("Object", s)
    [] type = "Object" -> Is("Object", s) /\ s # "external"
    [] OTHER -> Is(Predicate[type], s)

SMIsType(s, type) ==
  IF type = "Array" THEN Is("Object", s) /\ ~Is("Proxy", s) /\ Is("SM IsArray", s)
                    ELSE V8IsType(s, type)

\* The tag lattice of value.h: what a handle may be read as once it is known
\* to be the first.
Base ==
  [Primitive |-> "Value", Boolean |-> "Primitive", Number |-> "Primitive", Integer |-> "Number",
   Name |-> "Primitive", String |-> "Name", Symbol |-> "Name", BigInt |-> "Primitive", Object |-> "Value",
   Array |-> "Object", Function |-> "Object", ArrayBuffer |-> "Object", ArrayBufferView |-> "Object",
   TypedArray |-> "ArrayBufferView", DataView |-> "ArrayBufferView", Promise |-> "Object",
   External |-> "Value", Value |-> "Value"]

\* A script's value has one kind and the same types on both backends.
ASSUME BackendsAgreeOnKinds ==
  \A s \in Shapes : /\ V8KindOf(s) = SMKindOf(s)
                    /\ \A type \in TypeCodes : V8IsType(s, type) = SMIsType(s, type)

\* A checked cast up the lattice never fails where a cast to the leaf did not.
ASSUME TypesFollowTheLattice ==
  \A s \in Shapes, type \in TypeCodes : V8IsType(s, type) => V8IsType(s, Base[type])

\* The kind is a type the value has: a switch over kinds may cast.
ASSUME KindIsAType ==
  \A s \in Shapes : /\ V8KindOf(s) \in {"Undefined", "Null"} \/ V8IsType(s, V8KindOf(s))
                    /\ (V8KindOf(s) \in {"Object", "Array", "Function"}) <=> V8IsType(s, "Object")

-----------------------------------------------------------------------------
(* Numbers.  Word stands for 2^32; a double is a number of halves, or NaN, *)
(* an infinity or -0.                                                      *)

Word == 8
Doubles == [halves : -5 * Word .. 5 * Word, finite : BOOLEAN, minusZero : {FALSE}]
             \cup {[halves |-> 0, finite |-> TRUE, minusZero |-> TRUE]}

Trunc(x) == IF x >= 0 THEN x \div 2 ELSE -((-x) \div 2)
Fmod(x, m) == IF x >= 0 THEN x % m ELSE -((-x) % m)
AsSigned(u) == IF u >= Word \div 2 THEN u - Word ELSE u

NumberToInt32(d) ==
  LET wrapped == Fmod(Trunc(d.halves), Word)
  IN IF ~d.finite THEN 0 ELSE AsSigned(IF wrapped < 0 THEN wrapped + Word ELSE wrapped)

IsInt32(d) ==
  /\ d.finite /\ ~d.minusZero
  /\ d.halves % 2 = 0
  /\ d.halves \div 2 \in -(Word \div 2) .. (Word \div 2) - 1

\* Integer: a double that is exactly an int32, and not -0.
SMIsInteger(d) ==
  /\ d.finite
  /\ d.halves >= -Word /\ d.halves <= Word - 2
  /\ d.halves = 2 * Trunc(d.halves)
  /\ ~d.minusZero

Int32Value(d) == IF IsInt32(d) THEN d.halves \div 2 ELSE NumberToInt32(d)
MakeUnsigned(u) == [halves |-> 2 * u, finite |-> TRUE, minusZero |-> FALSE]

\* Int32Value is ECMAScript's ToInt32 of every number, without the cast whose
\* overflow is undefined; an Integer is read unchanged.
ASSUME Int32ValueIsToInt32 ==
  \A d \in Doubles :
    /\ Int32Value(d) \in -(Word \div 2) .. (Word \div 2) - 1
    /\ d.finite => (Int32Value(d) - Trunc(d.halves)) % Word = 0
    /\ SMIsInteger(d) = IsInt32(d)
    /\ IsInt32(d) => 2 * Int32Value(d) = d.halves

\* NewFromUnsigned above the largest int32 is no Integer, and reads wrapped.
ASSUME UnsignedReadsWrapped ==
  \A u \in 0 .. Word - 1 :
    /\ IsInt32(MakeUnsigned(u)) <=> u < Word \div 2
    /\ Int32Value(MakeUnsigned(u)) = AsSigned(u)

-----------------------------------------------------------------------------
(* Property attributes: a set of ReadOnly, DontEnum, DontDelete.           *)

Attributes == SUBSET {"ReadOnly", "DontEnum", "DontDelete"}

\* V8's flags are the same bits; SpiderMonkey's are ENUMERATE (inverted),
\* READONLY, PERMANENT.
RawAttributes(a) == a
ToNativeAttributes(a) ==
  {x \in {"ENUMERATE", "READONLY", "PERMANENT"} :
     CASE x = "ENUMERATE" -> "DontEnum" \notin a
       [] x = "READONLY" -> "ReadOnly" \in a
       [] x = "PERMANENT" -> "DontDelete" \in a}

\* The descriptor either engine then keeps (external).
V8Descriptor(flags, data) ==
  [enumerable |-> "DontEnum" \notin flags, configurable |-> "DontDelete" \notin flags,
   writable |-> data /\ "ReadOnly" \notin flags, data |-> data]
SMDescriptor(flags, data) ==
  [enumerable |-> "ENUMERATE" \in flags, configurable |-> "PERMANENT" \notin flags,
   writable |-> data /\ "READONLY" \notin flags, data |-> data]

\* An accessor is not writable or otherwise: ReadOnly is dropped.
AccessorAttributes(a) == a \ {"ReadOnly"}
SMAccessorFlags(a) == ToNativeAttributes(a) \ {"READONLY"}
V8SetAccessorProperty(a) ==
  [enumerable |-> "DontEnum" \notin a, configurable |-> "DontDelete" \notin a,
   writable |-> FALSE, data |-> FALSE]

V8Read(d) ==
  (IF d.enumerable THEN {} ELSE {"DontEnum"}) \cup (IF d.configurable THEN {} ELSE {"DontDelete"})
    \cup (IF d.data /\ ~d.writable THEN {"ReadOnly"} ELSE {})

\* A chain of objects, each a descriptor, none, or a proxy that says the key
\* is there and shows no descriptor: V8 walks it, the proxies by the realm's
\* getPrototypeOf.
V8GetPropertyAttributes(chain) ==
  LET shows == {i \in DOMAIN chain : chain[i].shows}
  IN IF \A i \in DOMAIN chain : ~chain[i].has THEN "none"
     ELSE IF shows = {} THEN "none"
     ELSE V8Read(chain[CHOOSE i \in shows : \A j \in shows : i <= j].descriptor)

\* SpiderMonkey asks whether the key is there at all, then its engine walks the
\* chain for the descriptor (external); finding none is not an error either.
SMGetPropertyAttributes(chain) ==
  LET present == \E i \in DOMAIN chain : chain[i].has
      nearest == {i \in DOMAIN chain : chain[i].shows /\ \A j \in 1 .. i - 1 : ~chain[j].shows}
  IN IF present /\ nearest # {}
     THEN LET d == chain[CHOOSE i \in nearest : TRUE].descriptor
          IN {x \in {"ReadOnly", "DontEnum", "DontDelete"} :
                CASE x = "DontEnum" -> ~d.enumerable
                  [] x = "DontDelete" -> ~d.configurable
                  [] x = "ReadOnly" -> d.data /\ ~d.writable}
     ELSE "none"

Links ==
  {l \in [has : BOOLEAN, shows : BOOLEAN,
          descriptor : {V8Descriptor(RawAttributes(a), data) : a \in Attributes, data \in BOOLEAN}] :
     l.shows => l.has}

\* What was declared is what is read back, on both backends, of a value and of
\* an accessor; a property of no object of the chain has no attributes.
ASSUME AttributesReadBack ==
  \A a \in Attributes :
    /\ V8Read(V8Descriptor(RawAttributes(a), TRUE)) = a
    /\ SMDescriptor(ToNativeAttributes(a), TRUE) = V8Descriptor(RawAttributes(a), TRUE)
    /\ V8Read(V8Descriptor(RawAttributes(AccessorAttributes(a)), FALSE)) = AccessorAttributes(a)
    /\ SMDescriptor(SMAccessorFlags(a), FALSE) = V8SetAccessorProperty(a)
    /\ V8Descriptor(RawAttributes(AccessorAttributes(a)), FALSE) = V8SetAccessorProperty(a)

\* Both backends read an inherited property's attributes off the nearest object
\* that shows it, past a proxy that claims it and shows nothing.
ASSUME AttributesAreTheNearest ==
  \A first, second \in Links :
    V8GetPropertyAttributes(<<first, second>>) = SMGetPropertyAttributes(<<first, second>>)

-----------------------------------------------------------------------------
(* Lengths and indexes cross the boundary as 32-bit words; V8's take an    *)
(* int or an array index.  LongArray stands for 2^16.                      *)

LongArray == 2
AsInt(length) == AsSigned(length % Word)

\* Short arrays are made at their length, long ones grow by their property.
V8MakeArray(length) == IF length <= LongArray THEN AsInt(length) ELSE length
SMMakeArray(length) == IF length <= LongArray THEN length ELSE length

\* The key an index names: V8's index form means 0 .. 2^32 - 2 only.
V8IndexKey(index) == IF index > Word - 2 THEN <<"number", index>> ELSE <<"index", index>>

\* Every length a word can say is the array's, negative for none.
ASSUME ArraysHaveTheirLength ==
  \A length \in 0 .. Word - 1 : V8MakeArray(length) = length /\ SMMakeArray(length) = length

\* V8 is never asked for the one word that is not an index.
ASSUME IndexesAreIndexes ==
  \A index \in 0 .. Word - 1 : V8IndexKey(index)[1] = "index" => index <= Word - 2

-----------------------------------------------------------------------------
(* The gate.  A stopped isolate runs no script: an operation that could    *)
(* reach a getter, a trap, a thenable or a function asks first and comes   *)
(* back empty.  engine is what it would otherwise have answered.           *)

Conversions == {"ToBoolean", "ToNumber", "ToInt32", "ToUint32", "ToString", "ToObject"}
PropertyOps == {"Get", "GetIndex", "Set", "SetIndex", "Define", "SetAccessor", "Has", "HasOwn", "Delete"}
ReflectOps == {"Attributes", "Keys", "GetPrototype", "SetPrototype"}
Calls == {"Call", "Construct"}
Settlings == {"NewPromise", "Resolve", "Reject"}
Clones == {"Serialize", "Deserialize"}
Operations == Conversions \cup PropertyOps \cup ReflectOps \cup Calls \cup Settlings \cup Clones
                \cup {"LooseEquals"}

\* What may run script (external): all but reading a boolean, rejecting, and
\* making what no script sees yet.
RunsScript == Operations \ {"ToBoolean", "NewPromise", "Reject", "Deserialize"}

\* An ask is [stopped, bad, engine]: bad when an operand cannot be brought into
\* the realm - V8 has no such step.  Settling a settled promise is false.
V8Conversion(op, ask) == IF op # "ToBoolean" /\ ask.stopped THEN "empty" ELSE ask.engine
V8LooseEquals(ask) == IF ask.stopped THEN "empty" ELSE ask.engine
V8PropertyOp(ask) == IF ask.stopped THEN "empty" ELSE ask.engine
V8ReflectOp(ask) == IF ask.stopped THEN "empty" ELSE ask.engine
V8Call(ask) == IF ask.stopped THEN "empty" ELSE ask.engine
V8Settle(op, ask, pending) ==
  IF op = "Resolve" /\ ask.stopped THEN "empty"
  ELSE IF op # "NewPromise" /\ ~pending THEN "false" ELSE ask.engine
V8Clone(op, ask) == IF op = "Serialize" /\ ask.stopped THEN "empty" ELSE ask.engine

SMConversion(ask) == IF ask.stopped \/ ask.bad THEN "empty" ELSE ask.engine
SMLooseEquals(ask) == IF ask.stopped \/ ask.bad THEN "empty" ELSE ask.engine
\* ObjectOp: the gate of every object operation at once.
Valid(ask) == ~ask.stopped /\ ~ask.bad
SMPropertyOp(ask) == IF Valid(ask) THEN ask.engine ELSE "empty"
SMReflectOp(ask) == IF Valid(ask) THEN ask.engine ELSE "empty"
SMCall(ask) == IF ask.stopped \/ ask.bad THEN "empty" ELSE ask.engine
SMMakePromise(ask) == IF ask.stopped THEN "empty" ELSE ask.engine
SMSettle(ask, pending) ==
  IF ask.stopped \/ ask.bad THEN "empty" ELSE IF ~pending THEN "false" ELSE ask.engine
SMClone(ask) == IF ask.stopped \/ ask.bad THEN "empty" ELSE ask.engine

V8Answer(op, ask, pending) ==
  CASE op \in Conversions -> V8Conversion(op, ask)
    [] op = "LooseEquals" -> V8LooseEquals(ask)
    [] op \in PropertyOps -> V8PropertyOp(ask)
    [] op \in ReflectOps -> V8ReflectOp(ask)
    [] op \in Calls -> V8Call(ask)
    [] op \in Settlings -> V8Settle(op, ask, pending)
    [] op \in Clones -> V8Clone(op, ask)
SMAnswer(op, ask, pending) ==
  CASE op \in Conversions -> SMConversion(ask)
    [] op = "LooseEquals" -> SMLooseEquals(ask)
    [] op \in PropertyOps -> SMPropertyOp(ask)
    [] op \in ReflectOps -> SMReflectOp(ask)
    [] op \in Calls -> SMCall(ask)
    [] op = "NewPromise" -> SMMakePromise(ask)
    [] op \in Settlings \ {"NewPromise"} -> SMSettle(ask, pending)
    [] op \in Clones -> SMClone(ask)

Asks == [stopped : BOOLEAN, bad : {FALSE}, engine : {"empty", "true", "value"}]

\* No operation that may run script reaches a stopped engine, on either
\* backend; asked of an isolate that is not stopped, both give the engine's
\* answer, and settling what is settled is false on both.
ASSUME StoppedRunsNothing ==
  \A op \in Operations, ask \in Asks, pending \in BOOLEAN :
    /\ op \in RunsScript /\ ask.stopped =>
         V8Answer(op, ask, pending) = "empty" /\ SMAnswer(op, ask, pending) = "empty"
    /\ ~ask.stopped => V8Answer(op, ask, pending) = SMAnswer(op, ask, pending)

=============================================================================
