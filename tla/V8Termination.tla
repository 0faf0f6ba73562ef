---------------------------- MODULE V8Termination ----------------------------
(***************************************************************************)
(* Stopping script on the V8 backend.                                      *)
(*                                                                         *)
(* A stop is two stores made by whatever thread asks for it: V8's own      *)
(* termination request, then the library's flag                            *)
(* (Isolate::TerminateExecution).  A cancel is two stores made by the      *)
(* isolate's thread, in the opposite order.  Between any two of them the   *)
(* script thread moves: V8 spends its request when it starts to unwind, a  *)
(* TryCatch stops the unwind at a native, and the library puts the request *)
(* back wherever its flag says the isolate is still stopped.               *)
(*                                                                         *)
(* V8 itself is modelled from how the backend uses it: a request that the  *)
(* next check of running script turns into an unwind, and an unwind that   *)
(* ends at a v8::TryCatch or below the last script frame.                  *)
(***************************************************************************)
EXTENDS Naturals, Sequences, SequencesExt

CONSTANTS
  Terminators,  \* threads other than the isolate's that stop it
  MaxDepth      \* bound on the activations of the isolate's thread

ASSUME DepthAssumption == MaxDepth \in Nat

VARIABLES
  terminating,  \* Isolate::Impl::terminating
  armed,        \* V8 holds a termination request for the next check
  unwinding,    \* V8 holds the termination as its pending exception
  half,         \* terminators between the two stores of TerminateExecution
  stack,        \* activations on the isolate's thread, innermost last
  host,         \* where the isolate's thread is inside a library call
  slipped       \* history: V8's request was spent before the flag was
                \* stored, or by the inspector over running script

vars == <<terminating, armed, unwinding, half, stack, host, slipped>>

-----------------------------------------------------------------------------
(* A "script" activation is JavaScript; "native" is a callback that script *)
(* called; "handler" is an open TryCatch and "caught" one that has caught  *)
(* the termination; "agent" is V8's inspector answering a message, behind  *)
(* a handler of its own.  The embedder's C++ runs unless a script or an    *)
(* agent is innermost.                                                     *)

Activation == {"script", "native", "handler", "caught", "agent"}

HasScript(s) == \E i \in DOMAIN s : s[i] = "script"
ScriptOnTop == stack # <<>> /\ Last(stack) = "script"
IsAgent(s) == s # <<>> /\ Last(s) = "agent"
InHost == host = "run" /\ ~ScriptOnTop /\ ~IsAgent(stack)
IsHandler(s) == s # <<>> /\ Last(s) \in {"handler", "caught"}

(* What V8 does with a termination that has left the activations above s.  *)
Caught(s) == IF IsHandler(s) THEN Append(Front(s), "caught") ELSE s
StillUnwinding(s) == HasScript(s) /\ ~IsHandler(s) /\ ~IsAgent(s)

TypeOK ==
  /\ terminating \in BOOLEAN
  /\ armed \in BOOLEAN
  /\ unwinding \in BOOLEAN
  /\ half \subseteq Terminators
  /\ stack \in Seq(Activation)
  /\ host \in {"run", "entering", "failed", "cancelling"}
  /\ slipped \in BOOLEAN
  /\ unwinding => HasScript(stack)  \* V8 unwinds script, never the embedder

Init ==
  /\ terminating = FALSE
  /\ armed = FALSE
  /\ unwinding = FALSE
  /\ half = {}
  /\ stack = <<>>
  /\ host = "run"
  /\ slipped = FALSE

(* The library asks V8 to terminate: whatever was spent is there again.    *)
Arm ==
  /\ armed' = TRUE
  /\ slipped' = FALSE

(* Where a stop is in force, the library puts V8's request back.           *)
RearmIfStopped ==
  IF terminating THEN Arm ELSE UNCHANGED <<armed, slipped>>

-----------------------------------------------------------------------------
(* Mutant: the flag first.                                                 *)
TerminateFlagFirst(t) ==
  \/ /\ t \notin half
     /\ half' = half \cup {t}
     /\ terminating' = TRUE
     /\ UNCHANGED <<armed, unwinding, stack, host, slipped>>
  \/ /\ t \in half
     /\ half' = half \ {t}
     /\ Arm
     /\ UNCHANGED <<terminating, unwinding, stack, host>>

(* TerminateExecution on another thread: the engine first, then the flag.  *)
TerminateExecution(t) ==
  \/ /\ t \notin half
     /\ half' = half \cup {t}
     /\ Arm
     /\ UNCHANGED <<terminating, unwinding, stack, host>>
  \/ /\ t \in half
     /\ half' = half \ {t}
     /\ terminating' = TRUE
     /\ UNCHANGED <<armed, unwinding, stack, host, slipped>>

(* TerminateExecution on the isolate's thread - in a native, a heap-limit  *)
(* handler or an interrupt: nothing of that thread happens in between.     *)
TerminateHere ==
  /\ host = "run"
  /\ terminating' = TRUE
  /\ Arm
  /\ UNCHANGED <<unwinding, half, stack, host>>

-----------------------------------------------------------------------------
(* CancelTerminateExecution: the isolate's thread, every frame the stop    *)
(* unwound having returned; the flag first, then the engine.               *)

CancelFlag ==
  /\ InHost
  /\ ~HasScript(stack)
  /\ terminating' = FALSE
  /\ host' = "cancelling"
  /\ UNCHANGED <<armed, unwinding, half, stack, slipped>>

CancelEngine ==
  /\ host = "cancelling"
  /\ armed' = FALSE
  /\ unwinding' = FALSE
  /\ slipped' = (slipped \/ half # {})
  /\ host' = "run"
  /\ stack' = [i \in DOMAIN stack |->
                 IF stack[i] = "caught" THEN "handler" ELSE stack[i]]
  /\ UNCHANGED <<terminating, half>>

-----------------------------------------------------------------------------
(* Every operation that can run script: the gate reads the flag and V8 is  *)
(* entered afterwards.                                                     *)

(* Mutant: a gate that forgets to ask.                                     *)
OpenGate ==
  /\ InHost
  /\ host' = "entering"
  /\ UNCHANGED <<terminating, armed, unwinding, half, stack, slipped>>

Gate ==
  /\ InHost
  /\ RearmIfStopped
  /\ host' = IF terminating THEN "run" ELSE "entering"
  /\ UNCHANGED <<terminating, unwinding, half, stack>>

Enter ==
  /\ host = "entering"
  /\ IF unwinding \/ Len(stack) >= MaxDepth
     THEN host' = "failed" /\ UNCHANGED stack
     ELSE host' = "run" /\ stack' = Append(stack, "script")
  /\ UNCHANGED <<terminating, armed, unwinding, half, slipped>>

(* CallFunction, ConstructObject and RunScript ask again; a property or a   *)
(* conversion just answers empty.                                          *)
CameBackEmpty ==
  /\ host = "failed" /\ ~IsAgent(stack)
  /\ RearmIfStopped \/ UNCHANGED <<armed, slipped>>
  /\ host' = "run"
  /\ UNCHANGED <<terminating, unwinding, half, stack>>

(* DispatchProtocolMessage has no gate: on a stopped isolate it arms V8     *)
(* and lets the first check end whatever DevTools asked to be run.         *)
DispatchProtocolMessage ==
  /\ InHost
  /\ Len(stack) < MaxDepth
  /\ RearmIfStopped
  /\ host' = "entering"
  /\ stack' = Append(stack, "agent")
  /\ UNCHANGED <<terminating, unwinding, half>>

(* The answer is sent and the dispatch returns; nothing is armed again.    *)
AgentAnswers ==
  /\ IsAgent(stack) /\ host \in {"run", "failed"}
  /\ stack' = Front(stack)
  /\ host' = "run"
  /\ UNCHANGED <<terminating, armed, unwinding, half, slipped>>

-----------------------------------------------------------------------------
(* V8 running script.  A check turns the request into an unwind; script    *)
(* may call a native, or return, between two checks.                       *)

Check ==
  /\ host = "run" /\ ScriptOnTop
  /\ armed /\ ~unwinding
  /\ armed' = FALSE
  /\ unwinding' = TRUE
  /\ slipped' = (slipped \/ ~terminating)
  /\ UNCHANGED <<terminating, half, stack, host>>

Unwind ==
  /\ host = "run" /\ ScriptOnTop
  /\ unwinding
  /\ stack' = Caught(Front(stack))
  /\ unwinding' = StillUnwinding(Front(stack))
  /\ slipped' = (slipped \/ (IsAgent(Front(stack)) /\ HasScript(Front(stack))))
  /\ host' = "failed"
  /\ UNCHANGED <<terminating, armed, half>>

ScriptReturns ==
  /\ host = "run" /\ ScriptOnTop
  /\ ~unwinding
  /\ stack' = Front(stack)
  /\ UNCHANGED <<terminating, armed, unwinding, half, host, slipped>>

CallNative ==
  /\ host = "run" /\ ScriptOnTop
  /\ ~unwinding
  /\ Len(stack) < MaxDepth
  /\ stack' = Append(stack, "native")
  /\ UNCHANGED <<terminating, armed, unwinding, half, host, slipped>>

NativeReturns ==
  /\ InHost
  /\ stack # <<>> /\ Last(stack) = "native"
  /\ stack' = Front(stack)
  /\ UNCHANGED <<terminating, armed, unwinding, half, host, slipped>>

-----------------------------------------------------------------------------
(* ub::TryCatch.                                                           *)

TryCatchOpen ==
  /\ InHost
  /\ Len(stack) < MaxDepth
  /\ stack' = Append(stack, "handler")
  /\ UNCHANGED <<terminating, armed, unwinding, half, host, slipped>>

(* Mutant: a close that takes a stop for an exception of its own.          *)
CloseSwallowing ==
  /\ InHost /\ IsHandler(stack)
  /\ stack' = Front(stack)
  /\ UNCHANGED <<terminating, armed, unwinding, half, host, slipped>>

(* A handler that caught the termination sends it on; one closed while a   *)
(* stop is in force re-arms, whatever Reset took away before.              *)
TryCatchClose ==
  /\ InHost /\ IsHandler(stack)
  /\ LET below == Front(stack)
         rethrown == Last(stack) = "caught"
     IN /\ stack' = IF rethrown THEN Caught(below) ELSE below
        /\ unwinding' = IF rethrown THEN StillUnwinding(below) ELSE unwinding
  /\ RearmIfStopped
  /\ UNCHANGED <<terminating, half, host>>

TryCatchReset ==
  /\ InHost /\ IsHandler(stack)
  /\ stack' = Append(Front(stack), "handler")
  /\ RearmIfStopped
  /\ UNCHANGED <<terminating, unwinding, half, host>>

-----------------------------------------------------------------------------
Next ==
  \/ \E t \in Terminators : TerminateExecution(t)
  \/ TerminateHere
  \/ CancelFlag \/ CancelEngine
  \/ Gate \/ Enter \/ CameBackEmpty
  \/ DispatchProtocolMessage \/ AgentAnswers
  \/ Check \/ Unwind \/ ScriptReturns \/ CallNative \/ NativeReturns
  \/ TryCatchOpen \/ TryCatchClose \/ TryCatchReset

(* Script and natives need not return: nothing but the stop is what ends a *)
(* runaway loop.  V8 does check, however its script interleaves calls; a   *)
(* library call already made runs to its end; a terminator returns; and a  *)
(* native called by script that is being stopped closes the handlers it    *)
(* opened and returns, as TerminateExecution asks of it.                   *)
Fairness ==
  /\ \A t \in Terminators : WF_vars(t \in half /\ TerminateExecution(t))
  /\ WF_vars(CancelEngine)
  /\ WF_vars(Enter) /\ WF_vars(CameBackEmpty) /\ WF_vars(AgentAnswers)
  /\ SF_vars(Check) /\ WF_vars(Unwind)
  /\ \A d \in 1 .. MaxDepth :
       SF_vars(terminating /\ Len(stack) = d /\ (NativeReturns \/ TryCatchClose))

Spec == Init /\ [][Next]_vars
FairSpec == Spec /\ Fairness

-----------------------------------------------------------------------------
(* Never "not stopped, and the next script fails anyway": V8 is left with  *)
(* a termination request only while the flag is set, or while one of the   *)
(* two calls that change both is between its stores.                       *)
ArmedMeansStopped ==
  armed => terminating \/ half # {} \/ host = "cancelling"

(* A stop that has returned is waiting where running script will meet it,  *)
(* at V8's next check or already in the unwind, however many natives and   *)
(* handlers it passed on the way and whatever Reset they called - unless   *)
(* V8's half was spent before the flag half was stored, or the inspector   *)
(* took it for its own.                                                    *)
StopMeetsScript ==
  terminating /\ host = "run" /\ ScriptOnTop => armed \/ unwinding \/ slipped

(* A call that passed its gate just before the stop enters script armed:   *)
(* what slips through the gate is stopped at its first check.              *)
StopMeetsEntry ==
  terminating /\ host = "entering" => armed \/ slipped

(* A stop in force ends the script it finds running, all the way down to   *)
(* the embedder, unless it slipped.                                        *)
StoppedScriptUnwinds ==
  (terminating /\ ~slipped /\ HasScript(stack))
    ~> (~HasScript(stack) \/ slipped)

(* What unibind/isolate.h says of TerminateExecution without exception:    *)
(* "Running script unwinds at the next check the engine makes", and a      *)
(* stopped isolate runs nothing until it is cancelled.                     *)
EveryStopUnwinds ==
  (terminating /\ HasScript(stack)) ~> ~HasScript(stack)

(* What unibind/isolate.h says of a stop however it was found - "Running   *)
(* script unwinds at the next check the engine makes" - of a message       *)
(* answered over running script: once the answer is sent, V8 is armed for  *)
(* the script below.  Refuted, by the caught termination of AgentAnswers.  *)
DispatchKeepsStop ==
  [][AgentAnswers /\ terminating /\ HasScript(stack') => armed' \/ unwinding']_vars
=============================================================================
