---------------------------- MODULE V8Interrupts ----------------------------
(***************************************************************************)
(* Isolate::RequestInterrupt on the V8 backend.  The callback goes into    *)
(* the library's queue under a lock, and V8 is asked for a trampoline      *)
(* outside it; V8 keeps a list of its own, and each trampoline it runs     *)
(* takes whatever is at the front of the library's queue.  Nothing ties an *)
(* entry of one list to an entry of the other but their number.            *)
(*                                                                         *)
(* V8 is modelled from how the backend uses it: a check of running script  *)
(* takes a termination alone, and otherwise runs trampolines until its     *)
(* list is empty.  Stops are one step here; V8Termination has their halves.*)
(***************************************************************************)
EXTENDS Naturals, FiniteSets, Sequences, SequencesExt

CONSTANT Requests  \* calls of RequestInterrupt, from any thread

VARIABLES
  interrupts,  \* Isolate::Impl::interrupts
  asking,      \* calls between the push and V8's RequestInterrupt
  refused,     \* calls that answered false: no memory for the entry
  v8list,      \* trampolines in V8's own list
  ran,         \* requests whose callback has been called, in order
  passing,     \* V8 is running its list at a check
  running,     \* script is on the isolate's thread
  stopped      \* a stop is in force

interruptsVars == <<interrupts, asking, refused, v8list, ran, passing, running, stopped>>

Made == ToSet(interrupts) \cup ToSet(ran) \cup refused

(* A request is in one place at a time, and nowhere twice.                 *)
InterruptsTypeOK ==
  /\ interrupts \in Seq(Requests) /\ ran \in Seq(Requests)
  /\ asking \subseteq Requests /\ refused \subseteq Requests
  /\ v8list \in Nat
  /\ {passing, running, stopped} \subseteq BOOLEAN
  /\ Cardinality(Made) = Len(interrupts) + Len(ran) + Cardinality(refused)

InterruptsInit ==
  /\ interrupts = <<>> /\ asking = {} /\ refused = {}
  /\ v8list = 0
  /\ ran = <<>>
  /\ passing = FALSE /\ running = FALSE /\ stopped = FALSE

-----------------------------------------------------------------------------
(* Mutant: a request there was no memory for still asks V8.                *)
RequestIgnoringRefusal(r) ==
  \/ /\ r \notin Made
     /\ \/ interrupts' = Append(interrupts, r) /\ asking' = asking \cup {r}
           /\ UNCHANGED <<refused, v8list>>
        \/ refused' = refused \cup {r} /\ v8list' = v8list + 1
           /\ UNCHANGED <<interrupts, asking>>
     /\ UNCHANGED <<ran, passing, running, stopped>>
  \/ /\ r \in asking
     /\ asking' = asking \ {r}
     /\ v8list' = v8list + 1
     /\ UNCHANGED <<interrupts, refused, ran, passing, running, stopped>>

(* Mutant: V8 is asked only when its list looks empty.                     *)
RequestCoalescing(r) ==
  \/ /\ r \notin Made
     /\ interrupts' = Append(interrupts, r)
     /\ asking' = asking \cup {r}
     /\ UNCHANGED <<refused, v8list, ran, passing, running, stopped>>
  \/ /\ r \in asking
     /\ asking' = asking \ {r}
     /\ v8list' = 1
     /\ UNCHANGED <<interrupts, refused, ran, passing, running, stopped>>

(* RequestInterrupt: the push is under the lock, the call to V8 is not.    *)
RequestInterrupt(r) ==
  \/ /\ r \notin Made
     /\ \/ interrupts' = Append(interrupts, r) /\ asking' = asking \cup {r}
           /\ UNCHANGED refused
        \/ refused' = refused \cup {r} /\ UNCHANGED <<interrupts, asking>>
     /\ UNCHANGED <<v8list, ran, passing, running, stopped>>
  \/ /\ r \in asking
     /\ asking' = asking \ {r}
     /\ v8list' = v8list + 1
     /\ UNCHANGED <<interrupts, refused, ran, passing, running, stopped>>

(* Mutant: the back of the queue.                                          *)
TrampolineTakingLast ==
  /\ passing /\ v8list > 0
  /\ v8list' = v8list - 1
  /\ IF interrupts = <<>> THEN UNCHANGED <<interrupts, ran>>
     ELSE interrupts' = Front(interrupts) /\ ran' = Append(ran, Last(interrupts))
  /\ UNCHANGED <<asking, refused, passing, running, stopped>>

(* InterruptTrampoline: one entry off the front, called outside the lock.  *)
InterruptTrampoline ==
  /\ passing /\ v8list > 0
  /\ v8list' = v8list - 1
  /\ IF interrupts = <<>>
     THEN UNCHANGED <<interrupts, ran>>
     ELSE /\ interrupts' = Tail(interrupts)
          /\ ran' = Append(ran, Head(interrupts))
  /\ UNCHANGED <<asking, refused, passing, running, stopped>>

-----------------------------------------------------------------------------
(* V8's check, and the script it is in.                                    *)

CheckInterrupts ==
  /\ running /\ ~passing
  /\ IF stopped
     THEN running' = FALSE /\ UNCHANGED passing
     ELSE v8list > 0 /\ passing' = TRUE /\ UNCHANGED running
  /\ UNCHANGED <<interrupts, asking, refused, v8list, ran, stopped>>

EndPass ==
  /\ passing /\ v8list = 0
  /\ passing' = FALSE
  /\ UNCHANGED <<interrupts, asking, refused, v8list, ran, running, stopped>>

RunScript ==
  /\ ~running /\ ~stopped
  /\ running' = TRUE
  /\ UNCHANGED <<interrupts, asking, refused, v8list, ran, passing, stopped>>

ScriptEnds ==
  /\ running /\ ~passing
  /\ running' = FALSE
  /\ UNCHANGED <<interrupts, asking, refused, v8list, ran, passing, stopped>>

Terminate ==
  /\ stopped' = TRUE
  /\ UNCHANGED <<interrupts, asking, refused, v8list, ran, passing, running>>

Cancel ==
  /\ ~running
  /\ stopped' = FALSE
  /\ UNCHANGED <<interrupts, asking, refused, v8list, ran, passing, running>>

InterruptsNext ==
  \/ \E r \in Requests : RequestInterrupt(r)
  \/ InterruptTrampoline \/ CheckInterrupts \/ EndPass
  \/ RunScript \/ ScriptEnds \/ Terminate \/ Cancel

(* A call of RequestInterrupt returns, callbacks return, and V8 checks     *)
(* whenever script runs for long enough.                                   *)
InterruptsFairness ==
  /\ \A r \in Requests : WF_interruptsVars(r \in asking /\ RequestInterrupt(r))
  /\ WF_interruptsVars(InterruptTrampoline) /\ WF_interruptsVars(EndPass)
  /\ SF_interruptsVars(~stopped /\ CheckInterrupts)

InterruptsSpec == InterruptsInit /\ [][InterruptsNext]_interruptsVars
InterruptsFairSpec == InterruptsSpec /\ InterruptsFairness

-----------------------------------------------------------------------------
(* The two lists stay in step: V8 holds a trampoline for every entry of    *)
(* the library's queue whose call has got as far as asking, so that no     *)
(* trampoline finds the queue empty and no entry is left without one.      *)
QueueInStep == Len(interrupts) = v8list + Cardinality(asking)

(* RequestInterrupt on V8 keeps what isolate.h promises.  A request counts *)
(* as taken when V8 has been asked as often as it stands in the queue.     *)
Delivery == INSTANCE InterruptDelivery
              WITH waiting <- SubSeq(interrupts, 1, v8list)
DeliveryOK == Delivery!Spec

(* A request that was taken runs, if script that is not stopped keeps      *)
(* coming back to V8's checks.                                             *)
EveryRequestRuns ==
  []<>(running /\ ~stopped) =>
    \A r \in Requests : r \in ToSet(interrupts) ~> r \in ToSet(ran)
=============================================================================
