----------------------------- MODULE SMExecution -----------------------------
(***************************************************************************)
(* Stops and interrupts on the SpiderMonkey backend, which are one thing   *)
(* there: the engine has a single "call me back at the next check" bit,    *)
(* and OnInterrupt is what it calls.  Nothing in the engine is sticky: a   *)
(* stop unwinds the innermost script and the context is live again, so a   *)
(* flag of the library's, asked at every gate, is the whole enforcement.   *)
(*                                                                         *)
(* The engine is modelled from how the backend uses it: a check clears the *)
(* bit and calls OnInterrupt, and an answer of false unwinds script down   *)
(* to the native that entered it.                                          *)
(***************************************************************************)
EXTENDS Naturals, Sequences, SequencesExt

CONSTANTS
  Terminators,  \* threads that call TerminateExecution
  Requests,     \* calls of RequestInterrupt, from any thread
  MaxDepth      \* bound on nested script and native activations

ASSUME DepthAssumption == MaxDepth \in Nat

VARIABLES
  terminating,  \* Isolate::Impl::terminating
  half,         \* terminators between the flag and the engine's request
  requested,    \* the engine's interrupt bit
  unwinding,    \* OnInterrupt answered false; script is on its way out
  interrupts,   \* Isolate::Impl::interrupts
  asking,       \* requests pushed whose call has not set the bit yet
  refused,      \* requests answered false: no memory for the entry
  batch,        \* what OnInterrupt took off the queue and has not called
  pass,         \* where OnInterrupt is: "out", "loop" or "flag"
  ran,          \* requests whose callback has been called, in order
  depth,        \* activations on the thread: odd is script, even is C++
  entering,     \* a call is between its gate and the engine
  late          \* history: requests made while a stop was in force

execVars == <<terminating, half, requested, unwinding, depth, entering>>
queueVars == <<interrupts, asking, refused, batch, pass, ran, late>>
vars == <<execVars, queueVars>>

-----------------------------------------------------------------------------
ScriptOnTop == depth % 2 = 1
InHost == ~ScriptOnTop /\ ~entering
Made == ToSet(interrupts \o batch \o ran) \cup refused

(* A request is in one place at a time, nowhere twice, and taken for a     *)
(* pass only while one is under way.                                       *)
TypeOK ==
  /\ {terminating, requested, unwinding, entering} \subseteq BOOLEAN
  /\ half \subseteq Terminators
  /\ {asking, refused, late} \subseteq SUBSET Requests
  /\ pass \in {"out", "loop", "flag"}
  /\ depth \in 0 .. MaxDepth
  /\ ran \o batch \o interrupts \in Seq(Requests \ refused)
  /\ IsInjective(ran \o batch \o interrupts)
  /\ pass # "loop" => batch = <<>>

Init ==
  /\ terminating = FALSE /\ half = {}
  /\ requested = FALSE /\ unwinding = FALSE
  /\ interrupts = <<>> /\ asking = {} /\ refused = {}
  /\ batch = <<>> /\ pass = "out" /\ ran = <<>>
  /\ depth = 0 /\ entering = FALSE
  /\ late = {}

-----------------------------------------------------------------------------
(* Calls from any thread.                                                  *)

(* TerminateExecution: the flag, then the engine's request.                *)
TerminateExecution(t) ==
  /\ \/ /\ t \notin half
        /\ half' = half \cup {t}
        /\ terminating' = TRUE
        /\ UNCHANGED requested
     \/ /\ t \in half
        /\ half' = half \ {t}
        /\ requested' = TRUE
        /\ UNCHANGED terminating
  /\ UNCHANGED <<unwinding, depth, entering, queueVars>>

(* Mutant: the engine is asked only for the first entry of the queue.      *)
RequestUnannounced(r) ==
  \/ /\ r \notin Made
     /\ interrupts' = Append(interrupts, r)
     /\ asking' = IF interrupts = <<>> THEN asking \cup {r} ELSE asking
     /\ late' = IF terminating THEN late \cup {r} ELSE late
     /\ UNCHANGED <<refused, batch, pass, ran, execVars>>
  \/ /\ r \in asking
     /\ asking' = asking \ {r}
     /\ requested' = (interrupts # <<>> /\ Head(interrupts) = r)
     /\ UNCHANGED <<terminating, half, unwinding, depth, entering>>
     /\ UNCHANGED <<interrupts, refused, batch, pass, ran, late>>

(* RequestInterrupt: the push under interruptMutex, the request outside.   *)
RequestInterrupt(r) ==
  \/ /\ r \notin Made
     /\ \/ /\ interrupts' = Append(interrupts, r)
           /\ asking' = asking \cup {r}
           /\ UNCHANGED refused
        \/ refused' = refused \cup {r} /\ UNCHANGED <<interrupts, asking>>
     /\ late' = IF terminating THEN late \cup {r} ELSE late
     /\ UNCHANGED <<batch, pass, ran, execVars>>
  \/ /\ r \in asking
     /\ asking' = asking \ {r}
     /\ requested' = TRUE
     /\ UNCHANGED <<terminating, half, unwinding, depth, entering>>
     /\ UNCHANGED <<interrupts, refused, batch, pass, ran, late>>

-----------------------------------------------------------------------------
(* OnInterrupt, called by a check of running script that found the bit.    *)

(* Mutants: no second request behind a stop, and interrupts first.         *)
CheckNotRequestingAgain ==
  /\ ScriptOnTop /\ ~unwinding /\ pass = "out"
  /\ requested
  /\ requested' = FALSE
  /\ IF terminating
     THEN unwinding' = TRUE /\ UNCHANGED pass
     ELSE pass' = "loop" /\ UNCHANGED unwinding
  /\ UNCHANGED <<terminating, half, depth, entering>>
  /\ UNCHANGED <<interrupts, asking, refused, batch, ran, late>>

CheckInterruptsFirst ==
  /\ ScriptOnTop /\ ~unwinding /\ pass = "out"
  /\ requested
  /\ requested' = FALSE
  /\ pass' = "loop"
  /\ UNCHANGED <<terminating, half, unwinding, depth, entering>>
  /\ UNCHANGED <<interrupts, asking, refused, batch, ran, late>>

Check ==
  /\ ScriptOnTop /\ ~unwinding /\ pass = "out"
  /\ requested
  /\ IF terminating
     THEN unwinding' = TRUE /\ UNCHANGED <<requested, pass>>  \* asked again
     ELSE requested' = FALSE /\ pass' = "loop" /\ UNCHANGED unwinding
  /\ UNCHANGED <<terminating, half, depth, entering>>
  /\ UNCHANGED <<interrupts, asking, refused, batch, ran, late>>

(* The swap under the lock; an empty queue ends the loop.                  *)
TakeBatch ==
  /\ pass = "loop" /\ batch = <<>>
  /\ IF interrupts = <<>>
     THEN pass' = "flag" /\ UNCHANGED <<interrupts, batch>>
     ELSE batch' = interrupts /\ interrupts' = <<>> /\ UNCHANGED pass
  /\ UNCHANGED <<execVars, asking, refused, ran, late>>

Callback ==
  /\ pass = "loop" /\ batch # <<>>
  /\ ran' = Append(ran, Head(batch))
  /\ batch' = Tail(batch)
  /\ UNCHANGED <<execVars, interrupts, asking, refused, pass, late>>

(* The flag is read again when the loop is done.                           *)
LeavePass ==
  /\ pass = "flag"
  /\ pass' = "out"
  /\ IF terminating
     THEN requested' = TRUE /\ unwinding' = TRUE
     ELSE UNCHANGED <<requested, unwinding>>
  /\ UNCHANGED <<terminating, half, depth, entering>>
  /\ UNCHANGED <<interrupts, asking, refused, batch, ran, late>>

-----------------------------------------------------------------------------
(* The isolate's thread outside OnInterrupt.                               *)

(* A cancel clears the flag and leaves the engine's bit where it is.       *)
CancelTerminateExecution ==
  /\ depth = 0 /\ ~entering
  /\ terminating' = FALSE
  /\ late' = {}
  /\ UNCHANGED <<half, requested, unwinding, depth, entering>>
  /\ UNCHANGED <<interrupts, asking, refused, batch, pass, ran>>

(* Mutant: an entry point that forgets to ask.                             *)
OpenGate ==
  /\ InHost /\ depth < MaxDepth
  /\ entering' = TRUE
  /\ UNCHANGED <<terminating, half, requested, unwinding, depth, queueVars>>

Gate ==
  /\ InHost /\ depth < MaxDepth
  /\ ~terminating
  /\ entering' = TRUE
  /\ UNCHANGED <<terminating, half, requested, unwinding, depth, queueVars>>

Enter ==
  /\ entering
  /\ entering' = FALSE
  /\ depth' = depth + 1
  /\ UNCHANGED <<terminating, half, requested, unwinding, queueVars>>

CallNative ==
  /\ ScriptOnTop /\ ~unwinding /\ pass = "out"
  /\ depth < MaxDepth
  /\ depth' = depth + 1
  /\ UNCHANGED <<terminating, half, requested, unwinding, entering, queueVars>>

(* The unwind ends at the C++ that entered script, with nothing pending:   *)
(* its native goes on, and returns into the script below it as usual.      *)
ScriptEnds ==
  /\ ScriptOnTop /\ pass = "out"
  /\ unwinding' = FALSE
  /\ depth' = depth - 1
  /\ UNCHANGED <<terminating, half, requested, entering, queueVars>>

NativeReturns ==
  /\ InHost /\ depth > 0
  /\ depth' = depth - 1
  /\ UNCHANGED <<terminating, half, requested, unwinding, entering, queueVars>>

Next ==
  \/ \E t \in Terminators : TerminateExecution(t)
  \/ \E r \in Requests : RequestInterrupt(r)
  \/ Check \/ TakeBatch \/ Callback \/ LeavePass
  \/ CancelTerminateExecution
  \/ Gate \/ Enter \/ CallNative \/ ScriptEnds \/ NativeReturns

(* Calls from other threads return, the engine checks however its script   *)
(* interleaves calls, an unwind goes on, and a native called by script     *)
(* that is being stopped returns.                                          *)
Fairness ==
  /\ \A t \in Terminators : WF_vars(t \in half /\ TerminateExecution(t))
  /\ \A r \in Requests : WF_vars(r \in asking /\ RequestInterrupt(r))
  /\ SF_vars(terminating /\ Check) /\ SF_vars(~terminating /\ Check)
  /\ WF_vars(TakeBatch) /\ WF_vars(Callback) /\ WF_vars(LeavePass)
  /\ WF_vars(Enter) /\ WF_vars(unwinding /\ ScriptEnds)
  /\ SF_vars(terminating /\ NativeReturns)

Spec == Init /\ [][Next]_vars
FairSpec == Spec /\ Fairness

-----------------------------------------------------------------------------
(* A stop that has returned is waiting where running script will meet it,  *)
(* at the next check or already in the unwind, whichever native swallowed  *)
(* the unwind before.                                                      *)
StopMeetsScript ==
  terminating /\ half = {} /\ ScriptOnTop =>
    requested \/ unwinding \/ pass # "out"

(* Nobody's interrupt is forgotten: while anything is queued, either the   *)
(* engine's bit is up, or its requester is about to raise it, or a pass is *)
(* about to look at the queue again.                                       *)
QueueIsAnnounced ==
  interrupts # <<>> => requested \/ asking # {} \/ pass = "loop"

(* A stop in force ends the script it finds running, down to the embedder. *)
StoppedScriptUnwinds == (terminating /\ depth > 0) ~> (depth = 0)

(* RequestInterrupt on SpiderMonkey keeps what isolate.h promises.         *)
Delivery == INSTANCE InterruptDelivery
              WITH waiting <- batch \o interrupts,
                   passing <- pass = "loop",
                   stopped <- terminating
DeliveryOK == Delivery!Spec

(* A request that was taken runs, if script that is not stopped keeps      *)
(* coming back to the engine's checks.                                     *)
EveryRequestRuns ==
  []<>(ScriptOnTop /\ ~unwinding /\ ~terminating /\ pass = "out") =>
    \A r \in Requests : r \in ToSet(interrupts) ~> r \in ToSet(ran)

(* unibind/isolate.h: an interrupt that "is asked for while one is in      *)
(* force, runs at the first check after the cancel".  Refuted: a pass asks *)
(* about a stop once, before its first batch.                              *)
LateRequestsWait == late \cap ToSet(ran) = {}
=============================================================================
