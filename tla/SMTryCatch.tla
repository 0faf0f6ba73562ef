----------------------------- MODULE SMTryCatch ------------------------------
(***************************************************************************)
(* Exceptions on the SpiderMonkey backend.  The engine has no TryCatch: a  *)
(* throw is pending on the context until somebody takes it.  The backend   *)
(* keeps handlers of its own, and a handler takes what is pending when it  *)
(* is asked, when it closes, or at the next operation that enters a realm  *)
(* in the native it was opened in.  A handler opened over a pending        *)
(* exception parks it, and puts it back when it closes.                    *)
(*                                                                         *)
(* Taking late has to look like catching at once: ExceptionDelivery.       *)
(***************************************************************************)
EXTENDS Naturals, Sequences, FiniteSets, SequencesExt

CONSTANTS
  Throws,    \* things thrown, each once
  MaxScopes   \* bound on the scopes of the isolate's thread

ASSUME ScopesAssumption == MaxScopes \in Nat
ASSUME NoneIsNotThrown == "none" \notin Throws

VARIABLES
  stack,        \* scopes of the isolate's thread, innermost last
  pending,      \* what is pending on the JSContext
  terminating,  \* Isolate::Impl::terminating
  thrown        \* history: what has been thrown

tryCatchVars == <<stack, pending, terminating, thrown>>

-----------------------------------------------------------------------------
(* Scripts, natives called by script, and handlers: a TryCatchState with   *)
(* the native depth it was opened at.  "void" is history: a stop was in    *)
(* force while the scope was open.                                         *)
None == "none"
NativeDepth == Cardinality({i \in DOMAIN stack : stack[i].is = "native"})

Scope(kind) == [is |-> kind, void |-> terminating]
Handler(parked) ==
  [is |-> "handler", void |-> terminating,
   caught |-> FALSE, rethrow |-> FALSE, terminated |-> FALSE,
   exception |-> None, outer |-> parked, nativeDepth |-> NativeDepth]

InScript == stack # <<>> /\ Last(stack).is = "script"
InHost == ~InScript
InHandler == stack # <<>> /\ Last(stack).is = "handler"
RoomForScope == Len(stack) < MaxScopes
HandlerAt(i) == stack[i].is = "handler"

TryCatchTypeOK ==
  /\ pending \in Throws \cup {None}
  /\ terminating \in BOOLEAN /\ thrown \subseteq Throws
  /\ Len(stack) <= MaxScopes
  /\ \A i \in DOMAIN stack :
       HandlerAt(i) =>
         /\ {stack[i].exception, stack[i].outer} \subseteq thrown \cup {None}
         /\ ~stack[i].caught => stack[i].exception = None /\ ~stack[i].terminated

TryCatchInit ==
  /\ stack = <<>>
  /\ pending = None
  /\ terminating = FALSE
  /\ thrown = {}

-----------------------------------------------------------------------------
(* Taking what is pending into a handler.                                  *)

Drained(h) ==
  IF terminating
  THEN [h EXCEPT !.caught = TRUE, !.terminated = TRUE, !.exception = None]
  ELSE IF pending = None
  THEN h
  ELSE [h EXCEPT !.caught = TRUE, !.exception = pending]
PendingDrained == IF terminating THEN pending ELSE None

(* The innermost handler, in whichever native it was opened.               *)
Innermost == SelectLastInSeq(stack, LAMBDA s : s.is = "handler")

(* The context and the handlers, and what taking into the innermost leaves. *)
Now == [stack |-> stack, pending |-> pending]
TakenByInnermost ==
  [stack |-> [stack EXCEPT ![Innermost] = Drained(@)],
   pending |-> PendingDrained]

(* Mutants: taking into a handler of any native; carrying an exception no  *)
(* handler will take into the engine.                                      *)
CatchAnywhere ==
  CASE pending = None -> Now
    [] pending # None /\ Innermost = 0 -> [Now EXCEPT !.pending = None]
    [] OTHER -> TakenByInnermost

CatchLeavingUncaught ==
  IF pending # None /\ Innermost # 0 /\ stack[Innermost].nativeDepth = NativeDepth
  THEN TakenByInnermost
  ELSE Now

CatchPendingException ==
  CASE pending = None -> Now
    [] pending # None /\ Innermost = 0 ->
         IF NativeDepth = 0 THEN [Now EXCEPT !.pending = None] ELSE Now
    [] OTHER ->
         IF stack[Innermost].nativeDepth = NativeDepth THEN TakenByInnermost ELSE Now

-----------------------------------------------------------------------------
(* Native code.                                                            *)

Throw(e) ==
  /\ InHost
  /\ e \notin thrown
  /\ thrown' = thrown \cup {e}
  /\ pending' = e
  /\ UNCHANGED <<stack, terminating>>

(* An operation that enters a realm and runs no script, or is refused at   *)
(* its gate.                                                               *)
Operation ==
  /\ InHost
  /\ stack' = CatchPendingException.stack
  /\ pending' = CatchPendingException.pending
  /\ UNCHANGED <<terminating, thrown>>

(* An operation that goes on to run script.  A native that threw and has   *)
(* no handler of its own does not, as Throw asks of it.                    *)
CallFunction ==
  /\ InHost /\ RoomForScope
  /\ ~terminating
  /\ ~(stack # <<>> /\ Last(stack).is = "native" /\ pending # None)
  /\ stack' = Append(CatchPendingException.stack, Scope("script"))
  /\ pending' = CatchPendingException.pending
  /\ UNCHANGED <<terminating, thrown>>

NativeReturns ==
  /\ stack # <<>> /\ Last(stack).is = "native"
  /\ stack' = Front(stack)
  /\ UNCHANGED <<pending, terminating, thrown>>

-----------------------------------------------------------------------------
(* Script.                                                                 *)

ScriptThrows(e) ==
  /\ InScript /\ pending = None
  /\ e \notin thrown
  /\ thrown' = thrown \cup {e}
  /\ pending' = e
  /\ UNCHANGED <<stack, terminating>>

ScriptCatches ==
  /\ InScript /\ pending # None
  /\ pending' = None
  /\ UNCHANGED <<stack, terminating, thrown>>

(* It returned, was unwound by what is pending, or was stopped, which      *)
(* leaves nothing pending.                                                 *)
ScriptEnds ==
  /\ InScript
  /\ stack' = Front(stack)
  /\ UNCHANGED <<pending, terminating, thrown>>

CallNative ==
  /\ InScript /\ pending = None /\ RoomForScope
  /\ stack' = Append(stack, Scope("native"))
  /\ UNCHANGED <<pending, terminating, thrown>>

-----------------------------------------------------------------------------
(* ub::TryCatch.  What C++ holds and asks is its innermost handler.        *)

TryCatchOpen ==
  /\ InHost /\ RoomForScope
  /\ stack' = Append(stack, Handler(pending))
  /\ pending' = None
  /\ UNCHANGED <<terminating, thrown>>

(* HasCaught, HasTerminated, Exception, Message and the rest.              *)
TryCatchAsked ==
  /\ InHandler
  /\ stack' = Append(Front(stack), Drained(Last(stack)))
  /\ pending' = PendingDrained
  /\ UNCHANGED <<terminating, thrown>>

TryCatchReThrow ==
  /\ InHandler
  /\ stack' = Append(Front(stack), [Drained(Last(stack)) EXCEPT !.rethrow = TRUE])
  /\ pending' = PendingDrained
  /\ UNCHANGED <<terminating, thrown>>

(* On a termination it does nothing.                                       *)
TryCatchReset ==
  /\ InHandler /\ ~Last(stack).terminated
  /\ stack' = Append(Front(stack),
                     [Last(stack) EXCEPT !.caught = FALSE, !.rethrow = FALSE,
                                         !.exception = None])
  /\ pending' = None
  /\ UNCHANGED <<terminating, thrown>>

(* What closing puts on the context.                                       *)
SentOn(h) == ~h.terminated /\ h.caught /\ h.rethrow
PutBack(h) ==
  CASE h.terminated -> PendingDrained
    [] SentOn(h) -> h.exception
    [] OTHER -> h.outer

TryCatchClose ==
  /\ InHandler
  /\ stack' = Front(stack)
  /\ pending' = PutBack(Drained(Last(stack)))
  /\ UNCHANGED <<terminating, thrown>>

-----------------------------------------------------------------------------
TerminateExecution ==
  /\ terminating' = TRUE
  /\ stack' = [i \in DOMAIN stack |-> [stack[i] EXCEPT !.void = TRUE]]
  /\ UNCHANGED <<pending, thrown>>

(* On the isolate's thread, every frame the stop unwound having returned.  *)
CancelTerminateExecution ==
  /\ terminating
  /\ \A i \in DOMAIN stack : HandlerAt(i)
  /\ terminating' = FALSE
  /\ UNCHANGED <<stack, pending, thrown>>

TryCatchNext ==
  \/ \E e \in Throws : Throw(e) \/ ScriptThrows(e)
  \/ Operation \/ CallFunction \/ NativeReturns
  \/ ScriptCatches \/ ScriptEnds \/ CallNative
  \/ TryCatchOpen \/ TryCatchAsked \/ TryCatchReThrow \/ TryCatchReset \/ TryCatchClose
  \/ TerminateExecution \/ CancelTerminateExecution

TryCatchSpec == TryCatchInit /\ [][TryCatchNext]_tryCatchVars

-----------------------------------------------------------------------------
(* The engine, which asserts it, is never entered with an exception        *)
(* pending: whatever natives threw and handlers put back has been taken or *)
(* let go by then.                                                         *)
EnteredClean == [][~InScript /\ InScript' /\ Len(stack') > Len(stack)
                     => pending' = None]_tryCatchVars

(* Taking late looks like catching at once.  The scope an exception is in: *)
(* pending, if it is the innermost; parked in the handler above it; or     *)
(* taken.                                                                  *)
Has(i) ==
  LET taken == IF HandlerAt(i) /\ stack[i].caught THEN stack[i].exception ELSE None
  IN CASE stack[i].void -> None
       [] ~stack[i].void /\ i = Len(stack) -> IF pending # None THEN pending ELSE taken
       [] OTHER -> IF HandlerAt(i + 1) /\ stack[i + 1].outer # None
                   THEN stack[i + 1].outer ELSE taken

SeenScopes ==
  [i \in DOMAIN stack |->
     [is |-> stack[i].is, has |-> Has(i), void |-> stack[i].void,
      onward |-> HandlerAt(i) /\ ~stack[i].void /\ stack[i].rethrow]]

Delivery == INSTANCE ExceptionDelivery WITH
  scopes <- SeenScopes,
  stopped <- terminating

DeliveryOK == Delivery!Spec

(* What unibind/exception.h says of a stop: "Only                          *)
(* `Isolate::CancelTerminateExecution`, on the isolate's own thread,       *)
(* clears the state" - so a handler says HasTerminated only while one is   *)
(* in force.  Refuted: a cancel does not reach the handlers.               *)
TerminatedMeansStopped ==
  \A i \in DOMAIN stack : HandlerAt(i) /\ stack[i].terminated => terminating
=============================================================================
