------------------------------ MODULE V8Proofs -------------------------------
(***************************************************************************)
(* Proofs about the V8 backend's two ways of reaching the isolate's thread *)
(* from another: stopping its script, for every set of terminators and     *)
(* every depth, and RequestInterrupt, for every set of requests, finite or *)
(* not.                                                                    *)
(***************************************************************************)
EXTENDS V8Termination, V8Interrupts, QueueLemmas, FiniteSetTheorems

-----------------------------------------------------------------------------
(* Stops.                                                                  *)

(* The innermost script's termination waits in a handler above it.         *)
Held(s) ==
  \E i \in DOMAIN s :
    /\ s[i] = "caught"
    /\ \A j \in DOMAIN s : j > i => s[j] # "script"

(* A stop whose call has returned is held at or above the innermost script.*)
StopIsHeld ==
  terminating /\ HasScript(stack) =>
    armed \/ unwinding \/ slipped \/ Held(stack)

(* Half a stop has armed V8, unless its request is spent already.          *)
HalfStopIsArmed ==
  half # {} /\ ~terminating /\ host # "cancelling" => armed \/ slipped

(* A cancel starts with no script on the thread, and ends with none.       *)
CancelIsOutermost == host = "cancelling" => ~HasScript(stack)

IInv ==
  /\ TypeOK
  /\ ArmedMeansStopped
  /\ StopMeetsEntry
  /\ StopIsHeld
  /\ HalfStopIsArmed
  /\ CancelIsOutermost

-----------------------------------------------------------------------------
(* Pushing an activation and popping the innermost one.                    *)

LEMMA PushFacts ==
  ASSUME NEW s \in Seq(Activation), NEW a \in Activation
  PROVE  /\ Append(s, a) \in Seq(Activation)
         /\ HasScript(Append(s, a)) <=> HasScript(s) \/ a = "script"
         /\ Held(s) /\ a # "script" => Held(Append(s, a))
         /\ a = "caught" => Held(Append(s, a))
<1> DEFINE t == Append(s, a)
<1>1. /\ t \in Seq(Activation)
      /\ Len(t) = Len(s) + 1
      /\ \A i \in 1 .. Len(s) : t[i] = s[i]
      /\ t[Len(s) + 1] = a
  BY AppendProperties
<1>2. DOMAIN s = 1 .. Len(s) /\ DOMAIN t = 1 .. Len(t) /\ Len(s) \in Nat
  BY <1>1, LenProperties
<1>3. HasScript(t) <=> HasScript(s) \/ a = "script"
  BY <1>1, <1>2 DEF HasScript
<1>4. Held(s) /\ a # "script" => Held(t)
  BY <1>1, <1>2 DEF Held
<1>5. a = "caught" => Held(t)
  BY <1>1, <1>2 DEF Held
<1>6. QED
  BY <1>1, <1>3, <1>4, <1>5

LEMMA PopFacts ==
  ASSUME NEW s \in Seq(Activation), s # <<>>
  PROVE  /\ Front(s) \in Seq(Activation)
         /\ Last(s) \in Activation
         /\ HasScript(s) <=> HasScript(Front(s)) \/ Last(s) = "script"
         /\ Held(s) /\ Last(s) # "caught" => Held(Front(s))
         /\ Last(s) = "script" => ~Held(s)
<1> DEFINE t == Front(s)
           n == Len(s)
<1>1. n \in Nat /\ n > 0 /\ DOMAIN s = 1 .. n
  BY LenProperties, EmptySeq
<1>2. \A i \in 1 .. n : s[i] \in Activation
  BY ElementOfSeq
<1>3. /\ t \in Seq(Activation)
      /\ Len(t) = n - 1
      /\ \A i \in 1 .. n - 1 : t[i] = s[i]
  <2> DEFINE m == n - 1
  <2>1. 1 \in Int /\ m \in Int /\ m >= 0 /\ \A i \in 1 .. m : s[i] \in Activation
    BY <1>1, <1>2
  <2>2. t = SubSeq(s, 1, m)
    BY DEF Front
  <2> HIDE DEF m, t, n
  <2>3. /\ t \in Seq(Activation)
        /\ Len(t) = IF 1 <= m THEN m - 1 + 1 ELSE 0
        /\ \A i \in 1 .. m - 1 + 1 : t[i] = s[1 + i - 1]
    BY <2>1, <2>2, SubSeqProperties
  <2>4. m - 1 + 1 = m /\ \A i \in 1 .. m : 1 + i - 1 = i
    BY <2>1
  <2>5. Len(t) = m /\ \A i \in 1 .. m : t[i] = s[i]
    BY <2>1, <2>3, <2>4
  <2> QED
    BY <2>3, <2>5 DEF m
<1>4. DOMAIN t = 1 .. n - 1
  BY <1>3, LenProperties
<1>5. Last(s) = s[n] /\ Last(s) \in Activation
  BY <1>1, <1>2 DEF Last
<1>6. HasScript(s) <=> HasScript(t) \/ Last(s) = "script"
  BY <1>1, <1>3, <1>4, <1>5 DEF HasScript
<1>7. Held(s) /\ Last(s) # "caught" => Held(t)
  BY <1>1, <1>3, <1>4, <1>5 DEF Held
<1>8. Last(s) = "script" => ~Held(s)
  <2> SUFFICES ASSUME Last(s) = "script", NEW i \in 1 .. n, s[i] = "caught",
                      \A j \in 1 .. n : j > i => s[j] # "script"
               PROVE  FALSE
    BY <1>1 DEF Held
  <2>1. n \in 1 .. n /\ s[n] = "script"
    BY <1>1, <1>5
  <2>2. i # n
    BY <2>1
  <2> HIDE DEF n
  <2>3. n > i
    <3>1. i \in 1 .. n /\ n \in Nat
      BY <1>1
    <3> QED
      BY <3>1, <2>2
  <2> QED
    BY <2>1, <2>3
<1>9. QED
  BY <1>3, <1>5, <1>6, <1>7, <1>8

(* What becomes of a termination that left the activations above s.        *)
LEMMA CaughtFacts ==
  ASSUME NEW s \in Seq(Activation)
  PROVE  /\ Caught(s) \in Seq(Activation)
         /\ HasScript(Caught(s)) <=> HasScript(s)
         /\ HasScript(s) => StillUnwinding(s) \/ IsAgent(s) \/ Held(Caught(s))
         /\ StillUnwinding(s) => HasScript(Caught(s))
         /\ StillUnwinding(s) \in BOOLEAN
<1>1. CASE IsHandler(s)
  <2>1. s # <<>> /\ Last(s) # "script"
    BY <1>1 DEF IsHandler
  <2>2. /\ Front(s) \in Seq(Activation)
        /\ "caught" \in Activation
        /\ HasScript(s) <=> HasScript(Front(s))
    BY <2>1, PopFacts DEF Activation
  <2>3. /\ Append(Front(s), "caught") \in Seq(Activation)
        /\ HasScript(Append(Front(s), "caught")) <=> HasScript(Front(s))
        /\ Held(Append(Front(s), "caught"))
    BY <2>2, PushFacts
  <2> QED
    BY <1>1, <2>2, <2>3 DEF Caught, StillUnwinding
<1>2. CASE ~IsHandler(s)
  BY <1>2 DEF Caught, StillUnwinding, HasScript
<1>3. QED
  BY <1>1, <1>2

-----------------------------------------------------------------------------
(* At rest the library is stopped by nobody and owes nothing to anybody.   *)
LEMMA InitIInv == Init => IInv
<1> SUFFICES ASSUME Init PROVE IInv
  OBVIOUS
<1>1. stack = <<>> /\ stack \in Seq(Activation) /\ ~HasScript(stack)
  BY DEF Init, HasScript
<1>2. QED
  BY <1>1 DEF Init, IInv, TypeOK, ArmedMeansStopped, StopMeetsEntry, StopIsHeld,
              HalfStopIsArmed, CancelIsOutermost

(* Every step keeps the inductive invariant: one case per action.          *)
LEMMA NextIInv == IInv /\ [Next]_vars => IInv'
<1> SUFFICES ASSUME IInv, [Next]_vars PROVE IInv'
  OBVIOUS
<1> USE DEF IInv, TypeOK, ArmedMeansStopped, StopMeetsEntry, StopIsHeld,
            HalfStopIsArmed, CancelIsOutermost
<1>1. ASSUME NEW t \in Terminators, TerminateExecution(t) PROVE IInv'
  <2>1. CASE t \notin half
    <3>1. /\ half' = half \cup {t} /\ half' \subseteq Terminators /\ half' # {}
          /\ armed' = TRUE /\ slipped' = FALSE
          /\ UNCHANGED <<terminating, unwinding, stack, host>>
      BY <1>1, <2>1 DEF TerminateExecution, Arm
    <3> QED
      BY <3>1
  <2>2. CASE t \in half
    <3>1. /\ half' \subseteq Terminators /\ half # {}
          /\ terminating' = TRUE
          /\ UNCHANGED <<armed, unwinding, stack, host, slipped>>
      BY <1>1, <2>2 DEF TerminateExecution
    <3> QED
      BY <3>1
  <2> QED
    BY <2>1, <2>2
<1>2. CASE TerminateHere
  BY <1>2 DEF TerminateHere, Arm
<1>3. CASE CancelFlag
  BY <1>3 DEF CancelFlag, InHost
<1>4. CASE CancelEngine
  <2>1. /\ stack' \in Seq(Activation)
        /\ ~HasScript(stack')
    <3> DEFINE e(i) == IF stack[i] = "caught" THEN "handler" ELSE stack[i]
    <3>1. DOMAIN stack = 1 .. Len(stack) /\ Len(stack) \in Nat
      BY LenProperties
    <3>2. \A i \in 1 .. Len(stack) : stack[i] \in Activation
      BY ElementOfSeq
    <3>3. \A i \in 1 .. Len(stack) : e(i) \in Activation
      BY <3>2 DEF Activation
    <3>4. stack' = [i \in 1 .. Len(stack) |-> e(i)]
      BY <1>4, <3>1 DEF CancelEngine
    <3>5. stack' \in Seq(Activation)
      BY <3>1, <3>3, <3>4, IsASeq
    <3>6. ~HasScript(stack)
      BY <1>4 DEF CancelEngine
    <3> QED
      BY <3>1, <3>4, <3>5, <3>6 DEF HasScript
  <2> QED
    BY <1>4, <2>1 DEF CancelEngine
<1>5. CASE Gate
  BY <1>5 DEF Gate, RearmIfStopped, Arm, InHost
<1>6. CASE DispatchProtocolMessage
  <2>1. /\ Append(stack, "agent") \in Seq(Activation)
        /\ HasScript(Append(stack, "agent")) <=> HasScript(stack)
        /\ Held(stack) => Held(Append(stack, "agent"))
    BY PushFacts DEF Activation
  <2> QED
    BY <1>6, <2>1 DEF DispatchProtocolMessage, RearmIfStopped, Arm, InHost
<1>7. CASE AgentAnswers
  <2>1. stack # <<>> /\ Last(stack) = "agent"
    BY <1>7 DEF AgentAnswers, IsAgent
  <2>2. /\ Front(stack) \in Seq(Activation)
        /\ HasScript(stack) <=> HasScript(Front(stack))
        /\ Held(stack) => Held(Front(stack))
    BY <2>1, PopFacts
  <2> QED
    BY <1>7, <2>2 DEF AgentAnswers
<1>8. CASE Enter
  <2>1. /\ Append(stack, "script") \in Seq(Activation)
        /\ HasScript(Append(stack, "script"))
    BY PushFacts DEF Activation
  <2> QED
    BY <1>8, <2>1 DEF Enter
<1>9. CASE CameBackEmpty
  <2>1. /\ host = "failed" /\ host' = "run"
        /\ UNCHANGED <<terminating, unwinding, half, stack>>
        /\ \/ terminating /\ armed' = TRUE /\ slipped' = FALSE
           \/ UNCHANGED <<armed, slipped>>
    BY <1>9 DEF CameBackEmpty, RearmIfStopped, Arm
  <2>2. CASE armed' = TRUE /\ terminating
    BY <2>1, <2>2
  <2>3. CASE UNCHANGED <<armed, slipped>>
    BY <2>1, <2>3
  <2> QED
    BY <2>1, <2>2, <2>3
<1>10. CASE Check
  <2>1. HasScript(stack)
    BY <1>10, PopFacts DEF Check, ScriptOnTop
  <2> QED
    BY <1>10, <2>1 DEF Check
<1>11. CASE Unwind
  <2>1. /\ Front(stack) \in Seq(Activation)
        /\ stack' = Caught(Front(stack))
        /\ unwinding' = StillUnwinding(Front(stack))
    BY <1>11, PopFacts DEF Unwind, ScriptOnTop
  <2> QED
    BY <1>11, <2>1, CaughtFacts DEF Unwind
<1>12. CASE ScriptReturns
  <2>1. /\ Front(stack) \in Seq(Activation)
        /\ HasScript(stack)
        /\ ~Held(stack)
    BY <1>12, PopFacts DEF ScriptReturns, ScriptOnTop
  <2> QED
    BY <1>12, <2>1 DEF ScriptReturns
<1>13. CASE CallNative
  <2>1. /\ Append(stack, "native") \in Seq(Activation)
        /\ HasScript(Append(stack, "native")) <=> HasScript(stack)
        /\ Held(stack) => Held(Append(stack, "native"))
    BY PushFacts DEF Activation
  <2> QED
    BY <1>13, <2>1 DEF CallNative
<1>14. CASE NativeReturns
  <2>1. /\ Front(stack) \in Seq(Activation)
        /\ HasScript(stack) <=> HasScript(Front(stack))
        /\ Held(stack) => Held(Front(stack))
    BY <1>14, PopFacts DEF NativeReturns
  <2> QED
    BY <1>14, <2>1 DEF NativeReturns, InHost
<1>15. CASE TryCatchOpen
  <2>1. /\ Append(stack, "handler") \in Seq(Activation)
        /\ HasScript(Append(stack, "handler")) <=> HasScript(stack)
        /\ Held(stack) => Held(Append(stack, "handler"))
    BY PushFacts DEF Activation
  <2> QED
    BY <1>15, <2>1 DEF TryCatchOpen, InHost
<1>16. CASE TryCatchClose
  <2>1. /\ stack # <<>>
        /\ Last(stack) \in {"handler", "caught"}
    BY <1>16 DEF TryCatchClose, IsHandler
  <2>2. /\ Front(stack) \in Seq(Activation)
        /\ HasScript(stack) <=> HasScript(Front(stack))
        /\ Held(stack) /\ Last(stack) # "caught" => Held(Front(stack))
    BY <2>1, PopFacts
  <2> QED
    BY <1>16, <2>1, <2>2, CaughtFacts DEF TryCatchClose, RearmIfStopped, Arm, InHost
<1>17. CASE TryCatchReset
  <2>1. stack # <<>> /\ Last(stack) \in {"handler", "caught"}
    BY <1>17 DEF TryCatchReset, IsHandler
  <2>2. /\ Front(stack) \in Seq(Activation)
        /\ "handler" \in Activation
        /\ HasScript(stack) <=> HasScript(Front(stack))
    BY <2>1, PopFacts DEF Activation
  <2>3. /\ Append(Front(stack), "handler") \in Seq(Activation)
        /\ HasScript(Append(Front(stack), "handler")) <=> HasScript(stack)
    BY <2>2, PushFacts
  <2> QED
    BY <1>17, <2>3 DEF TryCatchReset, RearmIfStopped, Arm, InHost
<1>18. CASE UNCHANGED vars
  BY <1>18 DEF vars
<1>19. QED
  BY <1>1, <1>2, <1>3, <1>4, <1>5, <1>6, <1>7, <1>8, <1>9, <1>10, <1>11, <1>12,
     <1>13, <1>14, <1>15, <1>16, <1>17, <1>18 DEF Next

(* The stack discipline, the flag and V8's request are always consistent.  *)
THEOREM Invariance == Spec => []IInv
  BY InitIInv, NextIInv, PTL DEF Spec

(* Type correctness, for every set of terminators and every depth.         *)
THEOREM TypeCorrect == Spec => []TypeOK
  BY Invariance, PTL DEF IInv

(* No interleaving of stops and cancels leaves an isolate that says it is  *)
(* not stopped and whose next script fails anyway.                         *)
THEOREM NeverNeither == Spec => []ArmedMeansStopped
  BY Invariance, PTL DEF IInv

(* A call that passed its gate just before the stop is stopped by V8.      *)
THEOREM GateIsNotEnough == Spec => []StopMeetsEntry
  BY Invariance, PTL DEF IInv

(* A stop survives every native and every handler on its way, whatever     *)
(* they reset: running script meets it, unless it slipped.                 *)
THEOREM StopSurvivesHandlers == Spec => []StopMeetsScript
<1>1. IInv => StopMeetsScript
  <2> SUFFICES ASSUME IInv, terminating, ScriptOnTop
               PROVE  armed \/ unwinding \/ slipped
    BY DEF StopMeetsScript
  <2>1. HasScript(stack) /\ ~Held(stack)
    BY PopFacts DEF IInv, TypeOK, ScriptOnTop
  <2> QED
    BY <2>1 DEF IInv, StopIsHeld
<1>2. QED
  BY <1>1, Invariance, PTL

-----------------------------------------------------------------------------
(* Interrupts: the library's queue and V8's list stay in step, and the two *)
(* together deliver what isolate.h promises.                               *)

(* A call that has yet to ask V8 has pushed its request.                   *)
AskingIsTaken ==
  IsFiniteSet(asking) /\ asking \subseteq ToSet(interrupts) \cup ToSet(ran)

(* A request stands in the queue once, and not after it has run.           *)
Once ==
  /\ \A i, j \in DOMAIN interrupts : interrupts[i] = interrupts[j] => i = j
  /\ \A i \in DOMAIN interrupts : interrupts[i] \notin ToSet(ran)

(* V8 runs trampolines only over script, so a cancel finds no pass.        *)
PassIsOverScript == passing => running

InterruptsInv ==
  /\ InterruptsTypeOK
  /\ IsFiniteSet(Made)
  /\ AskingIsTaken
  /\ QueueInStep
  /\ Once
  /\ PassIsOverScript

-----------------------------------------------------------------------------
(* The invariant.                                                          *)

LEMMA InitInterruptsInv == InterruptsInit => InterruptsInv
<1> SUFFICES ASSUME InterruptsInit  PROVE InterruptsInv
  OBVIOUS
<1> USE DEF InterruptsInit
<1>1. <<>> \in Seq(Requests) /\ Len(<<>>) = 0 /\ ToSet(<<>>) = {} /\ DOMAIN <<>> = {}
  <2>1. <<>> \in Seq(Requests) /\ Len(<<>>) = 0
    BY EmptySeq
  <2>2. DOMAIN <<>> = 1 .. 0
    BY <2>1, LenProperties
  <2>3. QED
    BY <2>1, <2>2 DEF ToSet
<1>2. IsFiniteSet({}) /\ Cardinality({}) = 0
  BY FS_EmptySet
<1>3. Made = {}
  BY <1>1 DEF Made
<1>4. InterruptsTypeOK
  <2>1. {passing, running, stopped} \subseteq BOOLEAN
    <3>1. passing \in BOOLEAN /\ running \in BOOLEAN /\ stopped \in BOOLEAN
      BY Zenon
    <3>2. QED
      BY <3>1
  <2>2. Cardinality(Made) = Len(interrupts) + Len(ran) + Cardinality(refused)
    BY <1>1, <1>2, <1>3
  <2>3. QED
    BY <1>1, <2>1, <2>2 DEF InterruptsTypeOK
<1>5. QED
  BY <1>1, <1>2, <1>3, <1>4 DEF InterruptsInv, AskingIsTaken, QueueInStep, Once, PassIsOverScript

(* A request that is pushed, or refused.                                   *)
LEMMA RequestKeeps ==
  ASSUME InterruptsInv, NEW r \in Requests \ Made,
         UNCHANGED <<v8list, ran, passing, running, stopped>>,
         \/ interrupts' = Append(interrupts, r) /\ asking' = asking \cup {r} /\ UNCHANGED refused
         \/ refused' = refused \cup {r} /\ UNCHANGED <<interrupts, asking>>
  PROVE  InterruptsInv'
<1> USE DEF InterruptsInv
<1>1. /\ interrupts \in Seq(Requests) /\ ran \in Seq(Requests)
      /\ asking \subseteq Requests /\ refused \subseteq Requests
      /\ Len(interrupts) \in Nat /\ Len(ran) \in Nat
      /\ DOMAIN interrupts = 1 .. Len(interrupts)
      /\ IsFiniteSet(refused) /\ IsFiniteSet(asking)
      /\ Cardinality(refused) \in Nat /\ Cardinality(asking) \in Nat
  <2>1. interrupts \in Seq(Requests) /\ ran \in Seq(Requests)
    BY DEF InterruptsTypeOK
  <2>2. IsFiniteSet(refused) /\ IsFiniteSet(asking)
    BY FS_Subset DEF Made, AskingIsTaken
  <2>3. Cardinality(refused) \in Nat /\ Cardinality(asking) \in Nat
    BY <2>2, FS_CardinalityType
  <2>4. QED
    BY <2>1, <2>2, <2>3, LenProperties DEF InterruptsTypeOK
<1>2. /\ r \notin ToSet(interrupts) /\ r \notin ToSet(ran)
      /\ r \notin refused /\ r \notin asking
  BY DEF Made, AskingIsTaken
<1>3. CASE interrupts' = Append(interrupts, r) /\ asking' = asking \cup {r} /\ UNCHANGED refused
  <2>1. /\ interrupts' \in Seq(Requests)
        /\ Len(interrupts') = Len(interrupts) + 1
        /\ DOMAIN interrupts' = 1 .. Len(interrupts) + 1
        /\ \A i \in 1 .. Len(interrupts) : interrupts'[i] = interrupts[i]
        /\ interrupts'[Len(interrupts) + 1] = r
        /\ ToSet(interrupts') = ToSet(interrupts) \cup {r}
    BY <1>1, <1>3, AppendFacts
  <2>2. Made' = Made \cup {r}
    BY <2>1, <1>3 DEF Made
  <2>3. IsFiniteSet(Made') /\ Cardinality(Made') = Cardinality(Made) + 1
    BY <2>2, FS_AddElement
  <2>4. IsFiniteSet(asking') /\ Cardinality(asking') = Cardinality(asking) + 1
    BY <1>1, <1>2, <1>3, FS_AddElement
  <2>5. InterruptsTypeOK'
    BY <2>1, <2>3, <1>1, <1>3 DEF InterruptsTypeOK
  <2>6. AskingIsTaken'
    BY <2>1, <2>4, <1>3 DEF AskingIsTaken
  <2>7. QueueInStep'
    BY <2>1, <2>4, <1>1 DEF QueueInStep, InterruptsTypeOK
  <2>8. Once'
    <3>1. \A i \in 1 .. Len(interrupts) : interrupts'[i] # r
      BY <1>1, <1>2, <2>1 DEF ToSet
    <3>2. ASSUME NEW i \in DOMAIN interrupts', NEW j \in DOMAIN interrupts',
                 interrupts'[i] = interrupts'[j]
          PROVE  i = j
      <4>1. i \in 1 .. Len(interrupts) \/ i = Len(interrupts) + 1
        BY <2>1, <1>1
      <4>2. j \in 1 .. Len(interrupts) \/ j = Len(interrupts) + 1
        BY <2>1, <1>1
      <4>3. QED
        BY <4>1, <4>2, <3>1, <3>2, <2>1, <1>1 DEF Once
    <3>3. ASSUME NEW i \in DOMAIN interrupts'  PROVE interrupts'[i] \notin ToSet(ran')
      <4>1. i \in 1 .. Len(interrupts) \/ i = Len(interrupts) + 1
        BY <2>1, <1>1
      <4>2. QED
        BY <4>1, <2>1, <1>1, <1>2 DEF Once
    <3>4. QED
      BY <3>2, <3>3 DEF Once
  <2>9. QED
    BY <2>3, <2>5, <2>6, <2>7, <2>8 DEF PassIsOverScript
<1>4. CASE refused' = refused \cup {r} /\ UNCHANGED <<interrupts, asking>>
  <2>1. Made' = Made \cup {r}
    BY <1>4 DEF Made
  <2>2. IsFiniteSet(Made') /\ Cardinality(Made') = Cardinality(Made) + 1
    BY <2>1, FS_AddElement
  <2>3. Cardinality(refused') = Cardinality(refused) + 1
    BY <1>1, <1>2, <1>4, FS_AddElement
  <2>4. InterruptsTypeOK'
    BY <2>2, <2>3, <1>1, <1>4 DEF InterruptsTypeOK
  <2>5. QED
    BY <2>2, <2>4, <1>4 DEF AskingIsTaken, QueueInStep, Once, PassIsOverScript
<1>5. QED
  BY <1>3, <1>4

(* A call that has pushed its request asks V8.                             *)
LEMMA AskKeeps ==
  ASSUME InterruptsInv, NEW r \in asking,
         asking' = asking \ {r}, v8list' = v8list + 1,
         UNCHANGED <<interrupts, refused, ran, passing, running, stopped>>
  PROVE  InterruptsInv'
<1> USE DEF InterruptsInv
<1>1. /\ IsFiniteSet(asking) /\ IsFiniteSet(asking')
      /\ Cardinality(asking) \in Nat
      /\ Cardinality(asking') = Cardinality(asking) - 1
  BY FS_RemoveElement, FS_CardinalityType DEF AskingIsTaken
<1>2. Made' = Made
  BY DEF Made
<1>3. InterruptsTypeOK'
  BY <1>2 DEF InterruptsTypeOK
<1>4. QueueInStep'
  BY <1>1 DEF QueueInStep, InterruptsTypeOK
<1>5. QED
  BY <1>1, <1>2, <1>3, <1>4 DEF AskingIsTaken, Once, PassIsOverScript

(* A trampoline never finds the queue empty, and takes its front.          *)
LEMMA TrampolineFindsOne ==
  ASSUME InterruptsInv, v8list > 0
  PROVE  /\ interrupts # <<>>
         /\ v8list \in 1 .. Len(interrupts)
<1>1. /\ interrupts \in Seq(Requests) /\ v8list \in Nat
      /\ Len(interrupts) \in Nat /\ Cardinality(asking) \in Nat
  BY FS_CardinalityType, LenProperties DEF InterruptsInv, InterruptsTypeOK, AskingIsTaken
<1>2. v8list <= Len(interrupts)
  BY <1>1 DEF InterruptsInv, QueueInStep
<1>3. QED
  BY <1>1, <1>2, EmptySeq

LEMMA TrampolineKeeps ==
  ASSUME InterruptsInv, InterruptTrampoline
  PROVE  InterruptsInv'
<1> USE DEF InterruptsInv
<1>1. /\ interrupts # <<>>
      /\ interrupts' = Tail(interrupts) /\ ran' = Append(ran, Head(interrupts))
      /\ v8list' = v8list - 1 /\ v8list > 0
      /\ UNCHANGED <<asking, refused, passing, running, stopped>>
  BY TrampolineFindsOne DEF InterruptTrampoline
<1>2. /\ interrupts \in Seq(Requests) /\ ran \in Seq(Requests)
      /\ Len(ran) \in Nat /\ v8list \in Nat
      /\ Cardinality(asking) \in Nat /\ Cardinality(refused) \in Nat
  <2>1. IsFiniteSet(asking) /\ IsFiniteSet(refused)
    BY FS_Subset DEF Made, AskingIsTaken
  <2>2. QED
    BY <2>1, FS_CardinalityType, LenProperties DEF InterruptsTypeOK
<1>3. /\ Len(interrupts) \in Nat /\ Len(interrupts) > 0
      /\ Head(interrupts) \in Requests /\ Head(interrupts) = interrupts[1]
      /\ interrupts' \in Seq(Requests)
      /\ Len(interrupts') = Len(interrupts) - 1
      /\ DOMAIN interrupts = 1 .. Len(interrupts)
      /\ DOMAIN interrupts' = 1 .. Len(interrupts) - 1
      /\ \A i \in 1 .. Len(interrupts) - 1 : interrupts'[i] = interrupts[i + 1]
      /\ ToSet(interrupts) = ToSet(interrupts') \cup {Head(interrupts)}
  BY <1>1, <1>2, TailFacts
<1>4. /\ ran' \in Seq(Requests)
      /\ Len(ran') = Len(ran) + 1
      /\ ToSet(ran') = ToSet(ran) \cup {Head(interrupts)}
  BY <1>1, <1>2, <1>3, AppendFacts
<1>5. Made' = Made
  BY <1>1, <1>3, <1>4 DEF Made
<1>6. InterruptsTypeOK'
  BY <1>1, <1>2, <1>3, <1>4, <1>5 DEF InterruptsTypeOK
<1>7. AskingIsTaken'
  BY <1>1, <1>3, <1>4 DEF AskingIsTaken
<1>8. QueueInStep'
  BY <1>1, <1>2, <1>3 DEF QueueInStep
<1>9. Once'
  <2>1. ASSUME NEW i \in DOMAIN interrupts'
        PROVE  i + 1 \in DOMAIN interrupts /\ interrupts'[i] = interrupts[i + 1] /\ i + 1 # 1
    BY <1>3
  <2>2. ASSUME NEW i \in DOMAIN interrupts', NEW j \in DOMAIN interrupts',
               interrupts'[i] = interrupts'[j]
        PROVE  i = j
    <3>1. i + 1 = j + 1
      BY <2>1, <2>2 DEF Once
    <3>2. QED
      BY <3>1, <1>3
  <2>3. ASSUME NEW i \in DOMAIN interrupts'  PROVE interrupts'[i] \notin ToSet(ran')
    <3>1. interrupts[i + 1] \notin ToSet(ran)
      BY <2>1 DEF Once
    <3>2. interrupts[i + 1] # interrupts[1]
      BY <2>1, <1>3 DEF Once
    <3>3. QED
      BY <3>1, <3>2, <2>1, <1>3, <1>4
  <2>4. QED
    BY <2>2, <2>3 DEF Once
<1>10. QED
  BY <1>1, <1>5, <1>6, <1>7, <1>8, <1>9 DEF PassIsOverScript

LEMMA NextInterruptsInv == InterruptsInv /\ [InterruptsNext]_interruptsVars => InterruptsInv'
<1> SUFFICES ASSUME InterruptsInv, [InterruptsNext]_interruptsVars  PROVE InterruptsInv'
  OBVIOUS
<1>1. ASSUME NEW r \in Requests, RequestInterrupt(r)  PROVE InterruptsInv'
  <2>1. CASE r \notin Made /\ UNCHANGED <<v8list, ran, passing, running, stopped>>
             /\ (\/ interrupts' = Append(interrupts, r) /\ asking' = asking \cup {r} /\ UNCHANGED refused
                 \/ refused' = refused \cup {r} /\ UNCHANGED <<interrupts, asking>>)
    BY <2>1, RequestKeeps
  <2>2. CASE r \in asking /\ asking' = asking \ {r} /\ v8list' = v8list + 1
             /\ UNCHANGED <<interrupts, refused, ran, passing, running, stopped>>
    BY <2>2, AskKeeps
  <2>3. QED
    BY <1>1, <2>1, <2>2 DEF RequestInterrupt
<1>2. CASE InterruptTrampoline
  BY <1>2, TrampolineKeeps
<1>3. ASSUME UNCHANGED <<interrupts, asking, refused, v8list, ran>>,
             passing' \in BOOLEAN, running' \in BOOLEAN, stopped' \in BOOLEAN,
             passing' => running'
      PROVE  InterruptsInv'
  <2>1. Made' = Made
    BY <1>3 DEF Made
  <2>2. InterruptsTypeOK'
    BY <2>1, <1>3 DEF InterruptsInv, InterruptsTypeOK
  <2>3. QED
    BY <2>1, <2>2, <1>3 DEF InterruptsInv, AskingIsTaken, QueueInStep, Once, PassIsOverScript
<1>4. passing \in BOOLEAN /\ running \in BOOLEAN /\ stopped \in BOOLEAN /\ (passing => running)
  BY DEF InterruptsInv, InterruptsTypeOK, PassIsOverScript
<1>5. CASE CheckInterrupts
  <2>1. CASE stopped
    BY <1>3, <1>4, <1>5, <2>1, Zenon DEF CheckInterrupts
  <2>2. CASE ~stopped
    BY <1>3, <1>4, <1>5, <2>2, Zenon DEF CheckInterrupts
  <2>3. QED
    BY <2>1, <2>2
<1>6. CASE EndPass
  BY <1>3, <1>4, <1>6, Zenon DEF EndPass
<1>7. CASE RunScript
  BY <1>3, <1>4, <1>7, Zenon DEF RunScript
<1>8. CASE ScriptEnds
  BY <1>3, <1>4, <1>8, Zenon DEF ScriptEnds
<1>9. CASE Terminate
  BY <1>3, <1>4, <1>9, Zenon DEF Terminate
<1>10. CASE Cancel
  BY <1>3, <1>4, <1>10, Zenon DEF Cancel
<1>11. CASE UNCHANGED interruptsVars
  BY <1>3, <1>4, <1>11, Zenon DEF interruptsVars
<1>12. QED
  BY <1>1, <1>2, <1>5, <1>6, <1>7, <1>8, <1>9, <1>10, <1>11 DEF InterruptsNext

(* The library's queue and V8's list of trampolines, whatever is between   *)
(* the push and the call.                                                  *)
THEOREM InterruptsInvariance == InterruptsSpec => []InterruptsInv
<1>1. QED
  BY InitInterruptsInv, NextInterruptsInv, PTL DEF InterruptsSpec

(* A request is counted once: waiting, run or refused.                     *)
THEOREM InterruptsTypeCorrect == InterruptsSpec => []InterruptsTypeOK
<1>1. InterruptsInv => InterruptsTypeOK
  BY DEF InterruptsInv
<1>2. QED
  BY <1>1, InterruptsInvariance, PTL

(* V8 holds exactly one trampoline for each entry whose call has asked, so *)
(* InterruptTrampoline never finds the queue empty and leaves no entry     *)
(* behind.                                                                 *)
THEOREM TrampolinesInStep == InterruptsSpec => []QueueInStep
<1>1. InterruptsInv => QueueInStep
  BY DEF InterruptsInv
<1>2. QED
  BY <1>1, InterruptsInvariance, PTL

-----------------------------------------------------------------------------
(* Refinement.  A request is taken when V8 has been asked as often as it   *)
(* stands in the queue; so a call that asks takes the first that is not    *)
(* taken yet, which need not be its own.                                   *)

Waiting == SubSeq(interrupts, 1, v8list)

LEMMA Bounds ==
  ASSUME InterruptsInv
  PROVE  /\ interrupts \in Seq(Requests) /\ ran \in Seq(Requests)
         /\ v8list \in 0 .. Len(interrupts)
<1>1. /\ interrupts \in Seq(Requests) /\ ran \in Seq(Requests)
      /\ Len(interrupts) \in Nat /\ Cardinality(asking) \in Nat /\ v8list \in Nat
  BY FS_CardinalityType, LenProperties DEF InterruptsInv, InterruptsTypeOK, AskingIsTaken
<1>2. QED
  BY <1>1 DEF InterruptsInv, QueueInStep

LEMMA BoundsNext ==
  ASSUME InterruptsInv'
  PROVE  /\ interrupts' \in Seq(Requests) /\ ran' \in Seq(Requests)
         /\ v8list' \in 0 .. Len(interrupts')
<1>1. /\ interrupts' \in Seq(Requests) /\ ran' \in Seq(Requests)
      /\ Len(interrupts') \in Nat /\ Cardinality(asking') \in Nat /\ v8list' \in Nat
  BY FS_CardinalityType, LenProperties DEF InterruptsInv, InterruptsTypeOK, AskingIsTaken
<1>2. QED
  BY <1>1 DEF InterruptsInv, QueueInStep

(* A push changes nothing that is taken already.                           *)
LEMMA PushIsUnseen ==
  ASSUME InterruptsInv, InterruptsInv', NEW r \in Requests,
         interrupts' = Append(interrupts, r), v8list' = v8list
  PROVE  Waiting' = Waiting
<1>1. \A i \in 1 .. Len(interrupts) : interrupts'[i] = interrupts[i]
  BY Bounds, AppendFacts
<1>2. v8list \in 0 .. Len(interrupts) /\ Len(interrupts) \in Nat
  BY Bounds, PrefixFacts
<1>3. /\ Waiting \in Seq(Requests) /\ Len(Waiting) = v8list
      /\ \A i \in 1 .. v8list : Waiting[i] = interrupts[i]
  BY Bounds, PrefixFacts DEF Waiting
<1>4. /\ Waiting' \in Seq(Requests) /\ Len(Waiting') = v8list'
      /\ \A i \in 1 .. v8list' : Waiting'[i] = interrupts'[i]
  BY BoundsNext, PrefixFacts DEF Waiting
<1>5. \A i \in 1 .. Len(Waiting) : Waiting'[i] = Waiting[i]
  BY <1>1, <1>2, <1>3, <1>4
<1>6. QED
  BY <1>3, <1>4, <1>5, SeqEqual

(* A call that asks takes the first request not taken yet.                 *)
LEMMA AskTakesOne ==
  ASSUME InterruptsInv, InterruptsInv', UNCHANGED <<interrupts, ran>>, v8list' = v8list + 1
  PROVE  \E q \in Requests :
           /\ Waiting' = Append(Waiting, q)
           /\ q \notin ToSet(ran \o Waiting)
<1> DEFINE n == v8list + 1
           q == interrupts[n]
<1>1. n \in 1 .. Len(interrupts) /\ v8list \in Nat /\ Len(interrupts) \in Nat
  <2>1. v8list \in 0 .. Len(interrupts) /\ Len(interrupts) \in Nat
    BY Bounds, PrefixFacts
  <2>2. v8list' \in 0 .. Len(interrupts)
    BY BoundsNext
  <2>3. QED
    BY <2>1, <2>2
<1>2. /\ Waiting \in Seq(Requests) /\ Len(Waiting) = v8list
      /\ \A i \in 1 .. v8list : Waiting[i] = interrupts[i]
      /\ DOMAIN Waiting = 1 .. v8list
      /\ DOMAIN interrupts = 1 .. Len(interrupts)
      /\ interrupts \in Seq(Requests) /\ ran \in Seq(Requests)
  BY Bounds, PrefixFacts DEF Waiting
<1>3. /\ Waiting' \in Seq(Requests) /\ Len(Waiting') = n
      /\ \A i \in 1 .. n : Waiting'[i] = interrupts[i]
  BY BoundsNext, PrefixFacts DEF Waiting
<1>4. q \in Requests
  BY <1>1, <1>2, ElementOfSeq
<1>5. /\ Append(Waiting, q) \in Seq(Requests)
      /\ Len(Append(Waiting, q)) = n
      /\ \A i \in 1 .. v8list : Append(Waiting, q)[i] = Waiting[i]
      /\ Append(Waiting, q)[n] = q
  BY <1>2, <1>4, AppendFacts
<1>6. \A i \in 1 .. n : Waiting'[i] = Append(Waiting, q)[i]
  <2> SUFFICES ASSUME NEW i \in 1 .. n  PROVE Waiting'[i] = Append(Waiting, q)[i]
    OBVIOUS
  <2>0. i = n \/ i \in 1 .. v8list
    BY <1>1
  <2>1. CASE i = n
    <3>1. Waiting'[n] = q
      BY <1>1, <1>3
    <3>2. QED
      BY <2>1, <3>1, <1>5
  <2>2. CASE i \in 1 .. v8list
    BY <2>2, <1>2, <1>3, <1>5
  <2>3. QED
    BY <2>0, <2>1, <2>2
<1>7. Waiting' = Append(Waiting, q)
  BY <1>3, <1>5, <1>6, SeqEqual
<1>8. q \notin ToSet(ran) /\ q \notin ToSet(Waiting)
  <2>1. q \notin ToSet(ran)
    BY <1>1, <1>2 DEF InterruptsInv, Once
  <2>2. ASSUME NEW i \in 1 .. v8list  PROVE Waiting[i] # q
    <3>1. i \in DOMAIN interrupts /\ n \in DOMAIN interrupts /\ i # n
      BY <1>1, <1>2
    <3>2. QED
      BY <3>1, <1>2 DEF InterruptsInv, Once
  <2>3. QED
    BY <2>1, <2>2, <1>2 DEF ToSet
<1>9. q \notin ToSet(ran \o Waiting)
  <2>1. /\ Len(ran) \in Nat /\ DOMAIN ran = 1 .. Len(ran)
        /\ DOMAIN (ran \o Waiting) = 1 .. Len(ran) + v8list
        /\ \A i \in 1 .. Len(ran) + v8list :
             (ran \o Waiting)[i] = IF i <= Len(ran) THEN ran[i] ELSE Waiting[i - Len(ran)]
    <3> DEFINE c == ran \o Waiting
    <3>1. /\ c \in Seq(Requests)
          /\ Len(c) = Len(ran) + Len(Waiting)
          /\ \A i \in 1 .. Len(ran) + Len(Waiting) :
               c[i] = IF i <= Len(ran) THEN ran[i] ELSE Waiting[i - Len(ran)]
      BY <1>2, ConcatProperties
    <3>2. Len(ran) \in Nat /\ DOMAIN ran = 1 .. Len(ran) /\ DOMAIN c = 1 .. Len(c)
      BY <1>2, <3>1, LenProperties
    <3>3. QED
      BY <1>2, <3>1, <3>2
  <2>2. ASSUME NEW i \in 1 .. Len(ran) + v8list  PROVE (ran \o Waiting)[i] # q
    <3>1. CASE i <= Len(ran)
      <4>1. i \in DOMAIN ran /\ (ran \o Waiting)[i] = ran[i]
        BY <3>1, <2>1
      <4>2. QED
        BY <4>1, <1>8 DEF ToSet
    <3>2. CASE ~(i <= Len(ran))
      <4>1. i - Len(ran) \in DOMAIN Waiting /\ (ran \o Waiting)[i] = Waiting[i - Len(ran)]
        BY <3>2, <2>1, <1>1, <1>2
      <4>2. QED
        BY <4>1, <1>8 DEF ToSet
    <3>3. QED
      BY <3>1, <3>2
  <2>3. QED
    BY <2>1, <2>2 DEF ToSet
<1>10. QED
  BY <1>4, <1>7, <1>9

(* A trampoline runs the first request taken.                              *)
LEMMA TrampolineRunsFirst ==
  ASSUME InterruptsInv, InterruptsInv', InterruptTrampoline
  PROVE  /\ Waiting # <<>>
         /\ Waiting' = Tail(Waiting)
         /\ ran' = Append(ran, Head(Waiting))
<1>1. /\ interrupts # <<>> /\ v8list \in 1 .. Len(interrupts)
      /\ interrupts' = Tail(interrupts) /\ ran' = Append(ran, Head(interrupts))
      /\ v8list' = v8list - 1
  BY TrampolineFindsOne DEF InterruptTrampoline
<1>2. /\ interrupts \in Seq(Requests) /\ Len(interrupts) \in Nat
      /\ Waiting \in Seq(Requests) /\ Len(Waiting) = v8list
      /\ \A i \in 1 .. v8list : Waiting[i] = interrupts[i]
  BY Bounds, PrefixFacts DEF Waiting
<1>3. Waiting # <<>>
  BY <1>1, <1>2, EmptySeq
<1>4. /\ Head(Waiting) = Waiting[1]
      /\ Tail(Waiting) \in Seq(Requests)
      /\ Len(Tail(Waiting)) = v8list - 1
      /\ \A i \in 1 .. v8list - 1 : Tail(Waiting)[i] = Waiting[i + 1]
  BY <1>2, <1>3, TailFacts
<1>5. /\ Head(interrupts) = interrupts[1]
      /\ \A i \in 1 .. Len(interrupts) - 1 : interrupts'[i] = interrupts[i + 1]
  BY <1>1, <1>2, TailFacts
<1>6. /\ Waiting' \in Seq(Requests) /\ Len(Waiting') = v8list - 1
      /\ \A i \in 1 .. v8list - 1 : Waiting'[i] = interrupts'[i]
  <2>1. /\ Waiting' \in Seq(Requests) /\ Len(Waiting') = v8list'
        /\ \A i \in 1 .. v8list' : Waiting'[i] = interrupts'[i]
    BY BoundsNext, PrefixFacts DEF Waiting
  <2>2. QED
    BY <2>1, <1>1
<1>7. \A i \in 1 .. v8list - 1 : Waiting'[i] = Tail(Waiting)[i]
  BY <1>1, <1>2, <1>4, <1>5, <1>6
<1>8. Waiting' = Tail(Waiting)
  BY <1>4, <1>6, <1>7, SeqEqual
<1>9. QED
  BY <1>1, <1>2, <1>3, <1>4, <1>5, <1>8

LEMMA InitRefines == InterruptsInit => Delivery!Init
<1> SUFFICES ASSUME InterruptsInit  PROVE Delivery!Init
  OBVIOUS
<1>1. SubSeq(interrupts, 1, v8list) = <<>>
  BY SubSeqEmpty DEF InterruptsInit
<1>2. QED
  BY <1>1 DEF InterruptsInit, Delivery!Init

(* Each step is a step of the contract, or one it does not see.            *)
LEMMA StepRefines ==
  InterruptsInv /\ InterruptsInv' /\ [InterruptsNext]_interruptsVars => [Delivery!Next]_Delivery!vars
<1> SUFFICES ASSUME InterruptsInv, InterruptsInv', [InterruptsNext]_interruptsVars
             PROVE  [Delivery!Next]_Delivery!vars
  OBVIOUS
<1> DEFINE Unseen == UNCHANGED <<Waiting, ran, passing, stopped>>
<1>0. Unseen => [Delivery!Next]_Delivery!vars
  BY Zenon DEF Delivery!vars, Waiting
<1>1. ASSUME NEW r \in Requests, RequestInterrupt(r)
      PROVE  [Delivery!Next]_Delivery!vars
  <2>1. CASE r \in asking /\ v8list' = v8list + 1
             /\ UNCHANGED <<interrupts, refused, ran, passing, running, stopped>>
    <3>1. PICK q \in Requests :
            Waiting' = Append(Waiting, q) /\ q \notin ToSet(ran \o Waiting)
      BY <2>1, AskTakesOne
    <3>2. Delivery!Take(q)
      BY <2>1, <3>1 DEF Delivery!Take, Delivery!ToSet, ToSet, Waiting
    <3>3. QED
      BY <3>2 DEF Delivery!Next
  <2>2. CASE interrupts' = Append(interrupts, r)
             /\ UNCHANGED <<v8list, ran, passing, running, stopped>>
    <3>1. Waiting' = Waiting
      BY <2>2, PushIsUnseen
    <3>2. QED
      BY <2>2, <3>1, <1>0
  <2>3. CASE UNCHANGED <<interrupts, v8list, ran, passing, running, stopped>>
    BY <2>3, <1>0 DEF Waiting
  <2>4. QED
    BY <1>1, <2>1, <2>2, <2>3, Zenon DEF RequestInterrupt
<1>2. CASE InterruptTrampoline
  <2>1. Delivery!Run
    BY <1>2, TrampolineRunsFirst DEF InterruptTrampoline, Delivery!Run, Waiting
  <2>2. QED
    BY <2>1 DEF Delivery!Next
<1>3. CASE CheckInterrupts
  <2>1. CASE stopped
    BY <1>0, <1>3, <2>1 DEF CheckInterrupts, Waiting
  <2>2. CASE ~stopped
    <3>1. Delivery!BeginPass
      BY <1>3, <2>2, Zenon DEF CheckInterrupts, Delivery!BeginPass
    <3>2. QED
      BY <3>1 DEF Delivery!Next
  <2>3. QED
    BY <2>1, <2>2
<1>4. CASE EndPass
  <2>1. SubSeq(interrupts, 1, v8list) = <<>>
    BY <1>4, SubSeqEmpty DEF EndPass
  <2>2. Delivery!EndPass
    BY <1>4, <2>1 DEF EndPass, Delivery!EndPass
  <2>3. QED
    BY <2>2 DEF Delivery!Next
<1>5. CASE RunScript
  BY <1>0, <1>5 DEF RunScript, Waiting
<1>6. CASE ScriptEnds
  BY <1>0, <1>6 DEF ScriptEnds, Waiting
<1>7. CASE Terminate
  <2>1. Delivery!Stop
    BY <1>7, Zenon DEF Terminate, Delivery!Stop
  <2>2. QED
    BY <2>1 DEF Delivery!Next
<1>8. CASE Cancel
  <2>1. Delivery!Cancel
    BY <1>8, Zenon DEF Cancel, Delivery!Cancel, InterruptsInv, PassIsOverScript
  <2>2. QED
    BY <2>1 DEF Delivery!Next
<1>9. CASE UNCHANGED interruptsVars
  BY <1>0, <1>9 DEF interruptsVars, Waiting
<1>10. QED
  BY <1>1, <1>2, <1>3, <1>4, <1>5, <1>6, <1>7, <1>8, <1>9 DEF InterruptsNext

(* RequestInterrupt on V8 keeps isolate.h's promise: requests run on the   *)
(* isolate's thread in the order they were taken, once each, in passes     *)
(* that no stop has begun and that leave nothing waiting.                  *)
THEOREM DeliversAsPromised == InterruptsSpec => DeliveryOK
<1>1. QED
  BY InitRefines, StepRefines, InterruptsInvariance, PTL DEF InterruptsSpec, DeliveryOK, Delivery!Spec
=============================================================================
