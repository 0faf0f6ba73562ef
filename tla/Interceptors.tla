----------------------------- MODULE Interceptors -----------------------------
(***************************************************************************)
(* What one access to an intercepted object comes to.  V8 calls one of ten *)
(* trampolines (backend.cpp 2496-2685), each of which turns the hook's C++ *)
(* answer into V8's; SpiderMonkey has no interceptor, and the object is a  *)
(* proxy whose traps ask the hooks and otherwise go to the hidden target   *)
(* (templates.cpp 664-1118).  template.h 35-60 promises one outcome for    *)
(* both: a hook that throws has intercepted whatever it returned, one that *)
(* answers is believed, one that declines leaves the ordinary lookup.      *)
(*                                                                         *)
(* Pure operators: the ASSUMEs compare the two translations with each      *)
(* other and with the contract over every hook of every key.  TLC          *)
(* evaluates them with the runs of MCTemplates.                            *)
(***************************************************************************)
LOCAL INSTANCE Integers
LOCAL INSTANCE Sequences
LOCAL INSTANCE FiniteSets
LOCAL INSTANCE SequencesExt

-----------------------------------------------------------------------------
(* What one call of a hook does: says is its C++ return, throws whether it *)
(* left an exception pending.  A hook the handler does not have is absent. *)

HookAnswers ==
  {h \in [says : {"absent", "declines", "yes", "no"}, throws : BOOLEAN] :
     h.says = "absent" => ~h.throws}
Silent == [says |-> "absent", throws |-> FALSE]

\* What the contract makes of it.
Promised(h) ==
  CASE h.throws -> "throws"
    [] ~h.throws /\ h.says \in {"absent", "declines"} -> "ordinary"
    [] OTHER -> h.says

-----------------------------------------------------------------------------
(* V8.  A hook the handler lacks is registered as null, and V8 does the    *)
(* ordinary lookup; otherwise it reads the exception, kYes, then kNo.      *)

HasTrampoline(h) == h.says # "absent"

\* An exception left behind makes a declined access an intercepted one.
RawIntercepted(pending, answered) == pending \/ answered

\* deep: RefuseDeeperNative threw a RangeError and the hook was not called.
\* kYes, whether an exception is pending, and what the return slot holds.
V8NamedHook(hook, deep, h) ==
  IF deep THEN [yes |-> TRUE, pending |-> TRUE, slot |-> "yes"]
  ELSE IF hook \in {"getter", "setter"}
    THEN [yes |-> RawIntercepted(h.throws, h.says = "yes"),
          pending |-> h.throws, slot |-> "yes"]
    ELSE [yes |-> IF h.says = "declines" THEN RawIntercepted(h.throws, FALSE) ELSE TRUE,
          pending |-> h.throws,
          slot |-> IF hook = "deleter" THEN h.says ELSE "yes"]

\* The indexed five differ in what they hand the hook, not in its answer.
V8IndexedHook(hook, deep, h) == V8NamedHook(hook, deep, h)

V8Engine(answer) ==
  CASE answer.pending -> "throws"
    [] ~answer.pending /\ answer.yes -> answer.slot
    [] OTHER -> "ordinary"

\* An enumerator has no way to decline: no keys is an empty array, and V8
\* hears of a throw by the exception alone.
WriteKeys(keys) == keys

-----------------------------------------------------------------------------
(* Keys.  The indexed half is the integers an array could index, which on  *)
(* SpiderMonkey come as an int id or, past the largest int id, as a        *)
(* string.  Ints stands for 2^31: ids 0 .. Ints-1 are ints, the last index *)
(* is 2^32 - 2, here 2 * Ints - 2.                                         *)

Ints == 4
LastIndex == 2 * Ints - 2

KeyIds ==
  [id : {"int"}, value : -1 .. Ints - 1, canonical : {TRUE}]
    \cup [id : {"string"}, value : 0 .. 2 * Ints, canonical : BOOLEAN]
    \cup [id : {"symbol"}, value : {0}, canonical : {FALSE}]

\* Which half the engine asks (external): V8's, by the number the key names.
IsElement(key) ==
  key.id # "symbol" /\ key.canonical /\ key.value \in 0 .. LastIndex

\* js::StringIsArrayIndex (external).
StringIsArrayIndex(key) == key.canonical /\ key.value <= LastIndex

AsIndex(key) ==
  \/ key.id = "string" /\ StringIsArrayIndex(key)
  \/ key.id = "int" /\ key.value >= 0

-----------------------------------------------------------------------------
(* SpiderMonkey's traps.  tpl is what HooksOf finds: the two halves, each  *)
(* a function from hook to answer; onTarget is the outcome of the same     *)
(* access on the hidden target.                                            *)

Hooks == {"getter", "setter", "query", "deleter"}
Hook(tpl, key, hook) == IF AsIndex(key) THEN tpl.indexed[hook] ELSE tpl.named[hook]

\* The one place each trap settles what a hook answered: the exception is
\* read after the answer, whichever it was.
Settle(h, yes) ==
  CASE h.throws -> "throws"
    [] ~h.throws /\ h.says \in {"absent", "declines"} -> "ordinary"
    [] OTHER -> yes

SMGet(tpl, key) ==
  LET h == Hook(tpl, key, "getter")
  IN IF h.says = "yes"
     THEN IF h.throws THEN "throws" ELSE "yes"
     ELSE IF h.throws THEN "throws" ELSE "ordinary"

\* The descriptor asks the query for attributes, then the getter for a value;
\* an answer of either is a property.
InterceptDescriptor(tpl, key) ==
  LET query == Hook(tpl, key, "query")
      getter == Hook(tpl, key, "getter")
  IN CASE query.throws \/ getter.throws -> "throws"
       [] ~(query.throws \/ getter.throws) /\ (query.says = "yes" \/ getter.says = "yes") -> "yes"
       [] OTHER -> "ordinary"

SMGetOwnPropertyDescriptor(tpl, key, ownsIt) ==
  LET asked == InterceptDescriptor(tpl, key)
  IN IF asked = "ordinary" THEN (IF ownsIt THEN "yes" ELSE "no") ELSE asked

\* A write reaching the object through another receiver asks no setter: the
\* base handler reads the descriptor and writes to the receiver.
SMSet(tpl, key, ownReceiver) ==
  IF ~ownReceiver
  THEN (IF InterceptDescriptor(tpl, key) = "throws" THEN "throws" ELSE "receiver")
  ELSE Settle(Hook(tpl, key, "setter"), "yes")

SMDelete(tpl, key) ==
  LET h == Hook(tpl, key, "deleter") IN Settle(h, h.says)

SMHasOwn(tpl, key, ownsIt) == SMGetOwnPropertyDescriptor(tpl, key, ownsIt)

SMHas(tpl, key, ownsIt, inherits) ==
  LET own == SMHasOwn(tpl, key, ownsIt)
  IN IF own = "no" THEN (IF inherits THEN "yes" ELSE "no") ELSE own

\* The target's keys, then each enumerator's; the first of a repeated key
\* stays.  A listed answer is [throws, keys]; no keys at all is a skip.
SMOwnPropertyKeys(onTarget, named, indexed) ==
  LET Kept(seq) ==
        SelectSeq([i \in DOMAIN seq |-> [key |-> seq[i], first |-> \A j \in 1 .. i - 1 : seq[j] # seq[i]]],
                  LAMBDA entry : entry.first)
      all == onTarget \o named.keys \o indexed.keys
  IN IF named.throws \/ indexed.throws
     THEN [throws |-> TRUE, keys |-> <<>>]
     ELSE [throws |-> FALSE, keys |-> [i \in DOMAIN Kept(all) |-> Kept(all)[i].key]]

-----------------------------------------------------------------------------
(* The enumerated cases: one half answers, the other must not be asked.    *)

Answers(hook) ==
  {h \in HookAnswers : h.says = "no" => hook \in {"deleter"}}
Half(hook, h) == [k \in Hooks |-> IF k = hook THEN h ELSE Silent]
Poisoned == [k \in Hooks |-> [says |-> "yes", throws |-> TRUE]]

\* A template whose half for key answers h to hook; the other half throws at
\* every question, so asking it shows.
Handled(key, hook, h) ==
  IF IsElement(key) THEN [named |-> Poisoned, indexed |-> Half(hook, h)]
                    ELSE [named |-> Half(hook, h), indexed |-> Poisoned]

V8Access(key, hook, h) ==
  IF ~HasTrampoline(h) THEN "ordinary"
  ELSE V8Engine(IF IsElement(key) THEN V8IndexedHook(hook, FALSE, h)
                                  ELSE V8NamedHook(hook, FALSE, h))

\* V8's trampolines keep the contract: the throw wins, then the answer
\* (RawIntercepted 2516-2528, and the query and the deleter, which answer
\* without it).
ASSUME V8KeepsTheContract ==
  \A key \in KeyIds, hook \in Hooks : \A h \in Answers(hook) :
    V8Access(key, hook, h) = Promised(h)

\* A hook refused for want of stack fails the access like a hook that threw.
ASSUME RefusedHookThrows ==
  \A hook \in Hooks, h \in HookAnswers : V8Engine(V8NamedHook(hook, TRUE, h)) = "throws"

\* The proxy answers every access as V8's interceptor does, on both sides of
\* 2^31 and at the last index, and never asks the other half.
ASSUME ProxyAgreesWithInterceptor ==
  \A key \in KeyIds :
    /\ \A h \in Answers("getter") :
         SMGet(Handled(key, "getter", h), key) = V8Access(key, "getter", h)
    /\ \A h \in Answers("setter") :
         SMSet(Handled(key, "setter", h), key, TRUE) = V8Access(key, "setter", h)
    /\ \A h \in Answers("deleter") :
         SMDelete(Handled(key, "deleter", h), key) = V8Access(key, "deleter", h)
    /\ \A h \in Answers("query"), ownsIt \in BOOLEAN :
         LET v8 == V8Access(key, "query", h)
         IN SMHasOwn(Handled(key, "query", h), key, ownsIt)
              = IF v8 = "ordinary" THEN (IF ownsIt THEN "yes" ELSE "no") ELSE v8

\* `in` finds what reading finds: a key the getter answers is there, and a key
\* no hook claims is there exactly when the ordinary object has it.
ASSUME HasFindsWhatGetFinds ==
  \A key \in KeyIds, ownsIt, inherits \in BOOLEAN : \A h \in Answers("getter") :
    LET tpl == Handled(key, "getter", h)
    IN CASE SMGet(tpl, key) = "yes" -> SMHas(tpl, key, ownsIt, inherits) = "yes"
         [] SMGet(tpl, key) = "throws" -> SMHas(tpl, key, ownsIt, inherits) = "throws"
         [] OTHER -> (SMHas(tpl, key, ownsIt, inherits) = "yes") <=> (ownsIt \/ inherits)

\* A proxy may not list a key twice: the engine refuses it.  Every key listed
\* by the target or an enumerator is there once, in the order first listed.
ASSUME KeysAreListedOnce ==
  LET Lists == UNION {[1 .. n -> {"a", "b"}] : n \in 0 .. 2}
  IN \A target \in {l \in Lists : IsInjective(l)}, named, indexed \in Lists :
       LET listed == SMOwnPropertyKeys(target, [throws |-> FALSE, keys |-> WriteKeys(named)],
                                               [throws |-> FALSE, keys |-> WriteKeys(indexed)])
       IN /\ IsInjective(listed.keys)
          /\ ToSet(listed.keys) = ToSet(target) \cup ToSet(named) \cup ToSet(indexed)
          /\ IsPrefix(target, listed.keys)

=============================================================================
