-------------------------- MODULE SMExecutionProofs --------------------------
(***************************************************************************)
(* Proofs about stops and interrupts on the SpiderMonkey backend, for      *)
(* every set of terminators and of requests and every depth.               *)
(***************************************************************************)
EXTENDS SMExecution, QueueLemmas

(* Every request that is not refused, in the order it was made.            *)
Order == ran \o batch \o interrupts

Queues == {interrupts, batch, ran} \subseteq Seq(Requests)

(* A stop that has returned keeps the engine's bit up, or is about to be   *)
(* asked about by the pass that is under way; script or not.               *)
StopIsRequested ==
  terminating /\ half = {} => requested \/ pass # "out"

(* OnInterrupt runs over script, and a call enters the engine from C++.    *)
PassIsOverScript ==
  /\ pass # "out" => ScriptOnTop
  /\ entering => ~ScriptOnTop /\ depth < MaxDepth

IInv ==
  /\ Queues
  /\ TypeOK
  /\ StopIsRequested
  /\ QueueIsAnnounced
  /\ PassIsOverScript

-----------------------------------------------------------------------------
LEMMA OrderFacts ==
  ASSUME Queues
  PROVE  /\ interrupts \in Seq(Requests) /\ batch \in Seq(Requests) /\ ran \in Seq(Requests)
         /\ ran \o batch \in Seq(Requests) /\ Order \in Seq(Requests)
         /\ ToSet(Order) = ToSet(interrupts \o batch \o ran)
         /\ ToSet(Order) = ToSet(ran) \cup ToSet(batch) \cup ToSet(interrupts)
<1>1. interrupts \in Seq(Requests) /\ batch \in Seq(Requests) /\ ran \in Seq(Requests)
  BY DEF Queues
<1> DEFINE rb == ran \o batch
           ib == interrupts \o batch
<1>2. /\ rb \in Seq(Requests) /\ ib \in Seq(Requests)
      /\ ToSet(rb) = ToSet(ran) \cup ToSet(batch)
      /\ ToSet(ib) = ToSet(interrupts) \cup ToSet(batch)
  BY <1>1, ConcatFacts
<1>3. Order = rb \o interrupts
  BY DEF Order
<1>4. interrupts \o batch \o ran = ib \o ran
  OBVIOUS
<1>5. rb \in Seq(Requests)
  BY <1>2
<1> HIDE DEF rb, ib
<1>6. rb \o interrupts \in Seq(Requests) /\ ToSet(rb \o interrupts) = ToSet(rb) \cup ToSet(interrupts)
  BY <1>1, <1>2, ConcatFacts
<1>7. ToSet(ib \o ran) = ToSet(ib) \cup ToSet(ran)
  BY <1>1, <1>2, ConcatFacts
<1>8. /\ Order \in Seq(Requests)
      /\ ToSet(Order) = ToSet(interrupts \o batch \o ran)
      /\ ToSet(Order) = ToSet(ran) \cup ToSet(batch) \cup ToSet(interrupts)
  BY <1>2, <1>3, <1>4, <1>6, <1>7
<1>9. QED
  BY <1>1, <1>5, <1>8 DEF rb

(* A request at the back of an order it is not in yet.                     *)
LEMMA OnceMore ==
  ASSUME NEW S, NEW s \in Seq(S), NEW e \in S, e \notin ToSet(s), IsInjective(s)
  PROVE  IsInjective(Append(s, e))
<1> DEFINE t == Append(s, e)
<1>1. /\ DOMAIN s = 1 .. Len(s) /\ Len(s) \in Nat
      /\ DOMAIN t = 1 .. Len(s) + 1
      /\ \A i \in 1 .. Len(s) : t[i] = s[i]
      /\ t[Len(s) + 1] = e
  BY AppendFacts, LenProperties
<1>2. \A i \in 1 .. Len(s) : s[i] # e
  BY <1>1 DEF ToSet
<1>3. ASSUME NEW a \in DOMAIN t, NEW b \in DOMAIN t, t[a] = t[b]  PROVE a = b
  <2>1. a \in 1 .. Len(s) \/ a = Len(s) + 1
    BY <1>1
  <2>2. b \in 1 .. Len(s) \/ b = Len(s) + 1
    BY <1>1
  <2>3. QED
    BY <2>1, <2>2, <1>1, <1>2, <1>3 DEF IsInjective
<1> HIDE DEF t
<1>4. IsInjective(t)
  BY <1>3, Zenon DEF IsInjective
<1>5. QED
  BY <1>4, Zenon DEF t

(* Elements of a sequence that none of a set is.                           *)
LEMMA SeqAvoiding ==
  ASSUME NEW S, NEW T, NEW s \in Seq(S), ToSet(s) \cap T = {}
  PROVE  s \in Seq(S \ T)
<1>1. DOMAIN s = 1 .. Len(s) /\ Len(s) \in Nat /\ s = [i \in 1 .. Len(s) |-> s[i]]
  BY LenProperties
<1>2. \A i \in 1 .. Len(s) : s[i] \in S \ T
  BY <1>1, ElementOfSeq DEF ToSet
<1>3. QED
  BY <1>1, <1>2, IsASeq

(* The part of the type that is about requests, from what changes them.    *)
QueueTypes ==
  /\ Order \in Seq(Requests \ refused)
  /\ IsInjective(Order)
  /\ pass # "loop" => batch = <<>>

ExecTypes ==
  /\ terminating \in BOOLEAN /\ requested \in BOOLEAN
  /\ unwinding \in BOOLEAN /\ entering \in BOOLEAN
  /\ half \subseteq Terminators
  /\ asking \subseteq Requests /\ refused \subseteq Requests /\ late \subseteq Requests
  /\ pass \in {"out", "loop", "flag"}
  /\ depth \in 0 .. MaxDepth

LEMMA TypeParts == TypeOK <=> QueueTypes /\ ExecTypes
<1>1. {terminating, requested, unwinding, entering} \subseteq BOOLEAN
      <=> /\ terminating \in BOOLEAN /\ requested \in BOOLEAN
          /\ unwinding \in BOOLEAN /\ entering \in BOOLEAN
  OBVIOUS
<1>2. {asking, refused, late} \subseteq SUBSET Requests
      <=> asking \subseteq Requests /\ refused \subseteq Requests /\ late \subseteq Requests
  OBVIOUS
<1>3. QED
  BY <1>1, <1>2 DEF TypeOK, QueueTypes, ExecTypes, Order

LEMMA TypePartsNext == TypeOK' <=> QueueTypes' /\ ExecTypes'
<1>1. {terminating', requested', unwinding', entering'} \subseteq BOOLEAN
      <=> /\ terminating' \in BOOLEAN /\ requested' \in BOOLEAN
          /\ unwinding' \in BOOLEAN /\ entering' \in BOOLEAN
  OBVIOUS
<1>2. {asking', refused', late'} \subseteq SUBSET Requests
      <=> asking' \subseteq Requests /\ refused' \subseteq Requests /\ late' \subseteq Requests
  OBVIOUS
<1>3. QED
  BY <1>1, <1>2 DEF TypeOK, QueueTypes, ExecTypes, Order

-----------------------------------------------------------------------------
(* The invariant.                                                          *)

LEMMA InitIInv == Init => IInv
<1> SUFFICES ASSUME Init  PROVE IInv
  OBVIOUS
<1>1. /\ interrupts = <<>> /\ batch = <<>> /\ ran = <<>>
      /\ pass = "out" /\ depth = 0
  BY DEF Init
<1>2. <<>> \in Seq(Requests) /\ <<>> \in Seq(Requests \ refused)
  BY EmptySeq
<1>3. Order = <<>>
  BY <1>1, <1>2, ConcatEmptySeq DEF Order
<1>4. IsInjective(<<>>)
  <2>1. DOMAIN <<>> = 1 .. 0
    BY <1>2, EmptySeq, LenProperties
  <2>2. QED
    BY <2>1 DEF IsInjective
<1>5. QueueTypes
  BY <1>1, <1>2, <1>3, <1>4 DEF QueueTypes
<1>6. ExecTypes
  <2>1. /\ terminating \in BOOLEAN /\ requested \in BOOLEAN
        /\ unwinding \in BOOLEAN /\ entering \in BOOLEAN
    BY Zenon DEF Init
  <2>2. half \subseteq Terminators /\ asking \subseteq Requests
        /\ refused \subseteq Requests /\ late \subseteq Requests
    BY DEF Init
  <2>3. pass \in {"out", "loop", "flag"} /\ depth \in 0 .. MaxDepth
    BY <1>1, DepthAssumption
  <2>4. QED
    BY <2>1, <2>2, <2>3 DEF ExecTypes
<1>7. Queues
  BY <1>1, <1>2 DEF Queues
<1>8. StopIsRequested /\ QueueIsAnnounced /\ PassIsOverScript
  BY <1>1, Zenon DEF Init, StopIsRequested, QueueIsAnnounced, PassIsOverScript
<1>9. QED
  BY <1>5, <1>6, <1>7, <1>8, TypeParts DEF IInv

(* A step that leaves the queues alone leaves their part of the type.      *)
LEMMA QueuesUntouched ==
  ASSUME Queues, QueueTypes, UNCHANGED <<interrupts, batch, ran, refused, pass>>
  PROVE  Queues' /\ QueueTypes'
BY DEF Queues, QueueTypes, Order

(* One of TerminateExecution's two stores.                                 *)
LEMMA TerminateKeepsIInv ==
  ASSUME IInv, NEW t \in Terminators, TerminateExecution(t)
  PROVE  IInv'
<1>1. QueueTypes /\ ExecTypes
  BY TypeParts DEF IInv
<1>2. Queues' /\ QueueTypes'
  BY <1>1, QueuesUntouched DEF TerminateExecution, queueVars, IInv
<1>3. ExecTypes' /\ StopIsRequested' /\ QueueIsAnnounced' /\ PassIsOverScript'
  <2>1. CASE t \notin half
    <3>1. /\ half' = half \cup {t} /\ terminating' = TRUE
          /\ UNCHANGED <<requested, unwinding, depth, entering, queueVars>>
      BY <2>1 DEF TerminateExecution
    <3>2. half' # {} /\ half' \subseteq Terminators
      BY <1>1, <3>1 DEF ExecTypes
    <3>3. QED
      BY <1>1, <3>1, <3>2 DEF ExecTypes, StopIsRequested, QueueIsAnnounced,
           PassIsOverScript, ScriptOnTop, IInv, queueVars
  <2>2. CASE t \in half
    <3>1. /\ half' = half \ {t} /\ requested' = TRUE
          /\ UNCHANGED <<terminating, unwinding, depth, entering, queueVars>>
      BY <2>2 DEF TerminateExecution
    <3>2. QED
      BY <1>1, <3>1 DEF ExecTypes, StopIsRequested, QueueIsAnnounced,
           PassIsOverScript, ScriptOnTop, IInv, queueVars
  <2>3. QED
    BY <2>1, <2>2
<1>4. QED
  BY <1>2, <1>3, TypePartsNext DEF IInv

(* A request that is pushed, or refused.                                   *)
LEMMA PushKeepsIInv ==
  ASSUME IInv, NEW r \in Requests \ Made,
         \/ interrupts' = Append(interrupts, r) /\ asking' = asking \cup {r} /\ UNCHANGED refused
         \/ refused' = refused \cup {r} /\ UNCHANGED <<interrupts, asking>>,
         late' = IF terminating THEN late \cup {r} ELSE late,
         UNCHANGED <<batch, pass, ran, execVars>>
  PROVE  IInv'
<1>1. QueueTypes /\ ExecTypes /\ Queues
  BY TypeParts DEF IInv
<1>2. r \notin ToSet(Order) /\ r \notin refused
  BY <1>1, OrderFacts DEF Made
<1>3. StopIsRequested' /\ PassIsOverScript'
  BY DEF StopIsRequested, PassIsOverScript, IInv, execVars, ScriptOnTop
<1>4. ExecTypes'
  BY <1>1 DEF ExecTypes, execVars
<1>5. CASE interrupts' = Append(interrupts, r) /\ asking' = asking \cup {r} /\ UNCHANGED refused
  <2>1. interrupts' \in Seq(Requests)
    BY <1>1, <1>5, AppendFacts DEF Queues
  <2>2. Queues'
    BY <1>1, <2>1 DEF Queues
  <2>3. Order' = Append(Order, r)
    <3>1. (ran \o batch) \o Append(interrupts, r) = Append((ran \o batch) \o interrupts, r)
      BY <1>1, OrderFacts, ConcatPush
    <3>2. QED
      BY <1>5, <3>1 DEF Order
  <2>4. Order \in Seq(Requests \ refused) /\ r \in Requests \ refused
    BY <1>1, <1>2 DEF QueueTypes
  <2>5. Order' \in Seq(Requests \ refused')
    BY <1>5, <2>3, <2>4, AppendFacts
  <2>6. IsInjective(Order')
    BY <1>1, <1>2, <2>3, <2>4, OnceMore DEF QueueTypes
  <2>7. QueueTypes'
    BY <1>1, <2>5, <2>6 DEF QueueTypes
  <2>8. QueueIsAnnounced'
    BY <1>5 DEF QueueIsAnnounced
  <2>9. QED
    BY <1>3, <1>4, <2>2, <2>7, <2>8, TypePartsNext DEF IInv
<1>6. CASE refused' = refused \cup {r} /\ UNCHANGED <<interrupts, asking>>
  <2>1. Queues' /\ Order' = Order
    BY <1>1, <1>6 DEF Queues, Order
  <2>2. ToSet(Order) \cap refused' = {}
    <3>1. DOMAIN Order = 1 .. Len(Order)
      BY <1>1, LenProperties DEF QueueTypes
    <3>2. \A i \in 1 .. Len(Order) : Order[i] \notin refused
      BY <1>1, ElementOfSeq DEF QueueTypes
    <3>3. QED
      BY <1>2, <1>6, <3>1, <3>2 DEF ToSet
  <2>3. Order' \in Seq(Requests \ refused')
    BY <1>1, <2>1, <2>2, OrderFacts, SeqAvoiding
  <2>4. QueueTypes'
    BY <1>1, <2>1, <2>3 DEF QueueTypes
  <2>5. QueueIsAnnounced'
    BY <1>6 DEF QueueIsAnnounced, IInv, execVars
  <2>6. QED
    BY <1>3, <1>4, <2>1, <2>4, <2>5, TypePartsNext DEF IInv
<1>7. QED
  BY <1>5, <1>6

(* A call that has pushed its request sets the engine's bit.               *)
LEMMA AskKeepsIInv ==
  ASSUME IInv, NEW r \in asking, asking' = asking \ {r}, requested' = TRUE,
         UNCHANGED <<terminating, half, unwinding, depth, entering>>,
         UNCHANGED <<interrupts, refused, batch, pass, ran, late>>
  PROVE  IInv'
<1>1. QueueTypes /\ ExecTypes /\ Queues
  BY TypeParts DEF IInv
<1>2. Queues' /\ QueueTypes'
  BY <1>1, QueuesUntouched
<1>3. ExecTypes'
  BY <1>1 DEF ExecTypes
<1>4. StopIsRequested' /\ QueueIsAnnounced' /\ PassIsOverScript'
  BY DEF StopIsRequested, QueueIsAnnounced, PassIsOverScript, IInv, ScriptOnTop
<1>5. QED
  BY <1>2, <1>3, <1>4, TypePartsNext DEF IInv

(* OnInterrupt swaps the queue for its batch, or finds it empty.           *)
LEMMA TakeBatchKeepsIInv ==
  ASSUME IInv, TakeBatch
  PROVE  IInv' /\ batch' \o interrupts' = batch \o interrupts
<1>1. QueueTypes /\ ExecTypes /\ Queues
  BY TypeParts DEF IInv
<1>2. pass = "loop" /\ batch = <<>>
      /\ UNCHANGED <<terminating, half, requested, unwinding, depth, entering>>
      /\ UNCHANGED <<asking, refused, ran, late>>
  BY DEF TakeBatch, execVars
<1>3. CASE interrupts = <<>>
  <2>1. pass' = "flag" /\ UNCHANGED <<interrupts, batch>>
    BY <1>3 DEF TakeBatch
  <2>2. Queues' /\ QueueTypes'
    BY <1>1, <1>2, <2>1 DEF Queues, QueueTypes, Order
  <2>3. ExecTypes'
    BY <1>1, <1>2, <2>1 DEF ExecTypes
  <2>4. StopIsRequested' /\ QueueIsAnnounced' /\ PassIsOverScript'
    BY <1>2, <1>3, <2>1 DEF StopIsRequested, QueueIsAnnounced, PassIsOverScript, IInv, ScriptOnTop
  <2>5. QED
    BY <2>1, <2>2, <2>3, <2>4, TypePartsNext DEF IInv
<1>4. CASE interrupts # <<>>
  <2>1. batch' = interrupts /\ interrupts' = <<>> /\ UNCHANGED pass
    BY <1>4 DEF TakeBatch
  <2>2. Queues'
    BY <1>1, <1>2, <2>1, EmptySeq DEF Queues
  <2>3. Order' = Order /\ batch' \o interrupts' = batch \o interrupts
    <3>1. /\ interrupts \in Seq(Requests) /\ ran \in Seq(Requests)
          /\ ran \o interrupts \in Seq(Requests)
      BY <1>1, OrderFacts, ConcatFacts
    <3>2. /\ ran \o <<>> = ran
          /\ (ran \o interrupts) \o <<>> = ran \o interrupts
          /\ interrupts \o <<>> = interrupts /\ <<>> \o interrupts = interrupts
      BY <3>1, ConcatEmptySeq
    <3>3. QED
      BY <1>2, <2>1, <3>2 DEF Order
  <2>4. QueueTypes'
    BY <1>1, <1>2, <2>1, <2>3 DEF QueueTypes
  <2>5. ExecTypes'
    BY <1>1, <1>2, <2>1 DEF ExecTypes
  <2>6. StopIsRequested' /\ QueueIsAnnounced' /\ PassIsOverScript'
    BY <1>2, <2>1 DEF StopIsRequested, QueueIsAnnounced, PassIsOverScript, IInv, ScriptOnTop
  <2>7. QED
    BY <2>2, <2>3, <2>4, <2>5, <2>6, TypePartsNext DEF IInv
<1>5. QED
  BY <1>3, <1>4

(* A callback is called.                                                   *)
LEMMA CallbackKeepsIInv ==
  ASSUME IInv, Callback
  PROVE  IInv'
<1>1. QueueTypes /\ ExecTypes /\ Queues
  BY TypeParts DEF IInv
<1>2. pass = "loop" /\ batch # <<>>
      /\ ran' = Append(ran, Head(batch)) /\ batch' = Tail(batch)
      /\ UNCHANGED <<terminating, half, requested, unwinding, depth, entering>>
      /\ UNCHANGED <<interrupts, asking, refused, pass, late>>
  BY DEF Callback, execVars
<1>3. /\ interrupts \in Seq(Requests) /\ batch \in Seq(Requests) /\ ran \in Seq(Requests)
      /\ Head(batch) \in Requests
      /\ ran' \in Seq(Requests) /\ batch' \in Seq(Requests)
  BY <1>1, <1>2, OrderFacts, TailFacts, AppendFacts
<1>4. Queues'
  BY <1>2, <1>3 DEF Queues
<1>5. Order' = Order
  <2>1. ran' \o batch' = ran \o batch
    BY <1>2, <1>3, ConcatShift
  <2>2. (ran' \o batch') \o interrupts = (ran \o batch) \o interrupts
    BY <2>1
  <2>3. QED
    BY <1>2, <2>2 DEF Order
<1>6. QueueTypes'
  BY <1>1, <1>2, <1>5 DEF QueueTypes
<1>7. ExecTypes'
  BY <1>1, <1>2 DEF ExecTypes
<1>8. StopIsRequested' /\ QueueIsAnnounced' /\ PassIsOverScript'
  BY <1>2 DEF StopIsRequested, QueueIsAnnounced, PassIsOverScript, IInv, ScriptOnTop
<1>9. QED
  BY <1>4, <1>6, <1>7, <1>8, TypePartsNext DEF IInv

(* Whatever leaves the queues alone and keeps the parts about the flag,    *)
(* the bit and the stack.                                                  *)
LEMMA RestKeepsIInv ==
  ASSUME IInv, UNCHANGED <<interrupts, asking, refused, batch, ran>>,
         pass' \in {"out", "loop", "flag"}, batch = <<>> \/ pass' = pass,
         ExecTypes', StopIsRequested', QueueIsAnnounced', PassIsOverScript'
  PROVE  IInv'
<1>1. QueueTypes /\ Queues
  BY TypeParts DEF IInv
<1>2. Queues' /\ QueueTypes'
  BY <1>1 DEF Queues, QueueTypes, Order
<1>3. QED
  BY <1>2, TypePartsNext DEF IInv

LEMMA NextIInv == IInv /\ [Next]_vars => IInv'
<1> SUFFICES ASSUME IInv, [Next]_vars  PROVE IInv'
  OBVIOUS
<1>0. QueueTypes /\ ExecTypes /\ MaxDepth \in Nat
  BY TypeParts, DepthAssumption DEF IInv
<1> USE DEF StopIsRequested, QueueIsAnnounced, PassIsOverScript, ScriptOnTop
<1>1. ASSUME NEW t \in Terminators, TerminateExecution(t)  PROVE IInv'
  BY <1>1, TerminateKeepsIInv
<1>2. ASSUME NEW r \in Requests, RequestInterrupt(r)  PROVE IInv'
  <2>1. CASE r \notin Made
             /\ (\/ interrupts' = Append(interrupts, r) /\ asking' = asking \cup {r} /\ UNCHANGED refused
                 \/ refused' = refused \cup {r} /\ UNCHANGED <<interrupts, asking>>)
             /\ late' = (IF terminating THEN late \cup {r} ELSE late)
             /\ UNCHANGED <<batch, pass, ran, execVars>>
    BY <2>1, PushKeepsIInv
  <2>2. CASE r \in asking /\ asking' = asking \ {r} /\ requested' = TRUE
             /\ UNCHANGED <<terminating, half, unwinding, depth, entering>>
             /\ UNCHANGED <<interrupts, refused, batch, pass, ran, late>>
    BY <2>2, AskKeepsIInv
  <2>3. QED
    BY <1>2, <2>1, <2>2, Zenon DEF RequestInterrupt
<1>3. CASE Check
  <2>1. /\ pass = "out" /\ depth % 2 = 1 /\ requested
        /\ UNCHANGED <<terminating, half, depth, entering>>
        /\ UNCHANGED <<interrupts, asking, refused, batch, ran, late>>
    BY <1>3 DEF Check
  <2>2. batch = <<>>
    BY <1>0, <2>1 DEF QueueTypes
  <2>3. CASE terminating
    <3>1. unwinding' = TRUE /\ UNCHANGED <<requested, pass>>
      BY <1>3, <2>3 DEF Check
    <3>2. QED
      BY <1>0, <2>1, <2>2, <3>1, RestKeepsIInv DEF IInv, ExecTypes
  <2>4. CASE ~terminating
    <3>1. requested' = FALSE /\ pass' = "loop" /\ UNCHANGED unwinding
      BY <1>3, <2>4 DEF Check
    <3>2. QED
      BY <1>0, <2>1, <2>2, <2>4, <3>1, RestKeepsIInv DEF IInv, ExecTypes
  <2>5. QED
    BY <2>3, <2>4
<1>4. CASE TakeBatch
  BY <1>4, TakeBatchKeepsIInv
<1>5. CASE Callback
  BY <1>5, CallbackKeepsIInv
<1>6. CASE LeavePass
  <2>1. /\ pass = "flag" /\ pass' = "out"
        /\ UNCHANGED <<terminating, half, depth, entering>>
        /\ UNCHANGED <<interrupts, asking, refused, batch, ran, late>>
    BY <1>6 DEF LeavePass
  <2>2. batch = <<>>
    BY <1>0, <2>1 DEF QueueTypes
  <2>3. CASE terminating
    <3>1. requested' = TRUE /\ unwinding' = TRUE
      BY <1>6, <2>3 DEF LeavePass
    <3>2. QED
      BY <1>0, <2>1, <2>2, <3>1, RestKeepsIInv DEF IInv, ExecTypes
  <2>4. CASE ~terminating
    <3>1. UNCHANGED <<requested, unwinding>>
      BY <1>6, <2>4 DEF LeavePass
    <3>2. QED
      BY <1>0, <2>1, <2>2, <2>4, <3>1, RestKeepsIInv DEF IInv, ExecTypes
  <2>5. QED
    BY <2>3, <2>4
<1>7. CASE CancelTerminateExecution
  BY <1>0, <1>7, RestKeepsIInv DEF IInv, ExecTypes, CancelTerminateExecution
<1>8. CASE Gate
  BY <1>0, <1>8, RestKeepsIInv DEF IInv, ExecTypes, Gate, InHost, queueVars
<1>9. CASE Enter
  <2>1. /\ entering /\ entering' = FALSE /\ depth' = depth + 1
        /\ UNCHANGED <<terminating, half, requested, unwinding, queueVars>>
    BY <1>9 DEF Enter
  <2>2. depth % 2 # 1 /\ depth < MaxDepth /\ pass = "out"
    BY <2>1 DEF IInv
  <2>3. depth' \in 0 .. MaxDepth
    BY <1>0, <2>1, <2>2 DEF ExecTypes
  <2>4. QED
    BY <1>0, <2>1, <2>2, <2>3, RestKeepsIInv DEF IInv, ExecTypes, queueVars
<1>10. CASE CallNative
  <2>1. /\ depth % 2 = 1 /\ pass = "out" /\ depth < MaxDepth /\ depth' = depth + 1
        /\ UNCHANGED <<terminating, half, requested, unwinding, entering, queueVars>>
    BY <1>10 DEF CallNative
  <2>2. ~entering /\ depth' \in 0 .. MaxDepth
    BY <1>0, <2>1 DEF IInv, ExecTypes
  <2>3. QED
    BY <1>0, <2>1, <2>2, RestKeepsIInv DEF IInv, ExecTypes, queueVars
<1>11. CASE ScriptEnds
  <2>1. /\ depth % 2 = 1 /\ pass = "out" /\ depth' = depth - 1 /\ unwinding' = FALSE
        /\ UNCHANGED <<terminating, half, requested, entering, queueVars>>
    BY <1>11 DEF ScriptEnds
  <2>2. ~entering /\ depth' \in 0 .. MaxDepth
    BY <1>0, <2>1 DEF IInv, ExecTypes
  <2>3. QED
    BY <1>0, <2>1, <2>2, RestKeepsIInv DEF IInv, ExecTypes, queueVars
<1>12. CASE NativeReturns
  <2>1. /\ depth % 2 # 1 /\ ~entering /\ depth > 0 /\ depth' = depth - 1
        /\ UNCHANGED <<terminating, half, requested, unwinding, entering, queueVars>>
    BY <1>12 DEF NativeReturns, InHost
  <2>2. pass = "out" /\ depth' \in 0 .. MaxDepth
    BY <1>0, <2>1 DEF IInv, ExecTypes
  <2>3. QED
    BY <1>0, <2>1, <2>2, RestKeepsIInv DEF IInv, ExecTypes, queueVars
<1>13. CASE UNCHANGED vars
  BY <1>0, <1>13, RestKeepsIInv DEF IInv, ExecTypes, vars, execVars, queueVars
<1>14. QED
  BY <1>1, <1>2, <1>3, <1>4, <1>5, <1>6, <1>7, <1>8, <1>9, <1>10, <1>11, <1>12, <1>13
     DEF Next

(* Stops and interrupts share the engine's one bit, and neither loses it   *)
(* to the other.                                                           *)
THEOREM Invariance == Spec => []IInv
<1>1. QED
  BY InitIInv, NextIInv, PTL DEF Spec

(* A request is in one place at a time and nowhere twice.                  *)
THEOREM TypeCorrect == Spec => []TypeOK
<1>1. IInv => TypeOK
  BY DEF IInv
<1>2. QED
  BY <1>1, Invariance, PTL

(* However many threads stop the isolate and however deep its natives      *)
(* nest, a stop whose call has returned is waiting for running script.     *)
THEOREM StopWaitsForScript == Spec => []StopMeetsScript
<1>1. IInv => StopMeetsScript
  BY DEF IInv, StopIsRequested, StopMeetsScript
<1>2. QED
  BY <1>1, Invariance, PTL

(* No interrupt is queued without the engine being asked for a check, in   *)
(* whatever order the pushes, the requests and the passes fall.            *)
THEOREM NoInterruptForgotten == Spec => []QueueIsAnnounced
<1>1. IInv => QueueIsAnnounced
  BY DEF IInv
<1>2. QED
  BY <1>1, Invariance, PTL

-----------------------------------------------------------------------------
(* Refinement.  What is waiting is the batch a pass has taken, then the    *)
(* queue.                                                                  *)

LEMMA InitRefines == Init => Delivery!Init
<1> SUFFICES ASSUME Init  PROVE Delivery!Init
  OBVIOUS
<1>1. batch \o interrupts = <<>>
  BY EmptySeq, ConcatEmptySeq DEF Init
<1>2. (pass = "loop") = FALSE
  BY DEF Init
<1>3. QED
  BY <1>1, <1>2 DEF Init, Delivery!Init

LEMMA StepRefines ==
  IInv /\ IInv' /\ [Next]_vars => [Delivery!Next]_Delivery!vars
<1> SUFFICES ASSUME IInv, IInv', [Next]_vars
             PROVE  [Delivery!Next]_Delivery!vars
  OBVIOUS
<1>queues. /\ interrupts \in Seq(Requests) /\ batch \in Seq(Requests) /\ ran \in Seq(Requests)
      /\ ToSet(Order) = ToSet(interrupts \o batch \o ran)
      /\ ToSet(Order) = ToSet(ran) \cup ToSet(batch) \cup ToSet(interrupts)
  BY OrderFacts DEF IInv
<1>0. ASSUME batch' \o interrupts' = batch \o interrupts,
             UNCHANGED <<ran, terminating>>, (pass' = "loop") = (pass = "loop")
      PROVE  [Delivery!Next]_Delivery!vars
  BY <1>0 DEF Delivery!vars
<1>1. ASSUME NEW t \in Terminators, TerminateExecution(t)
      PROVE  [Delivery!Next]_Delivery!vars
  <2>1. UNCHANGED <<interrupts, batch, pass, ran>>
    BY <1>1 DEF TerminateExecution, queueVars
  <2>2. CASE terminating' = TRUE
    <3>1. Delivery!Stop
      BY <2>1, <2>2 DEF Delivery!Stop
    <3>2. QED
      BY <3>1 DEF Delivery!Next
  <2>3. CASE UNCHANGED terminating
    BY <1>0, <2>1, <2>3
  <2>4. QED
    BY <1>1, <2>2, <2>3 DEF TerminateExecution
<1>2. ASSUME NEW r \in Requests, RequestInterrupt(r)
      PROVE  [Delivery!Next]_Delivery!vars
  <2>1. CASE r \notin Made /\ interrupts' = Append(interrupts, r)
             /\ UNCHANGED <<batch, pass, ran, execVars>>
    <3>1. batch \o Append(interrupts, r) = Append(batch \o interrupts, r)
      BY <1>queues, ConcatPush
    <3>2. r \notin ToSet(ran \o (batch \o interrupts))
      <4> DEFINE w == batch \o interrupts
      <4>1. w \in Seq(Requests) /\ ToSet(w) = ToSet(batch) \cup ToSet(interrupts)
        BY <1>queues, ConcatFacts
      <4> HIDE DEF w
      <4>2. ToSet(ran \o w) = ToSet(ran) \cup ToSet(w)
        BY <1>queues, <4>1, ConcatFacts
      <4>3. r \notin ToSet(ran \o w)
        BY <1>queues, <2>1, <4>1, <4>2 DEF Made
      <4>4. QED
        BY <4>3 DEF w
    <3>3. Delivery!Take(r)
      BY <2>1, <3>1, <3>2 DEF Delivery!Take, Delivery!ToSet, ToSet, execVars
    <3>4. QED
      BY <3>3 DEF Delivery!Next
  <2>2. CASE UNCHANGED <<interrupts, batch, pass, ran, terminating>>
    BY <1>0, <2>2
  <2>3. QED
    BY <1>2, <2>1, <2>2, Zenon DEF RequestInterrupt, execVars
<1>3. CASE Check
  <2>1. pass = "out" /\ UNCHANGED <<terminating, interrupts, batch, ran>>
    BY <1>3 DEF Check
  <2>2. CASE terminating
    BY <1>0, <1>3, <2>1, <2>2 DEF Check
  <2>3. CASE ~terminating
    <3>1. pass' = "loop"
      BY <1>3, <2>3 DEF Check
    <3>2. Delivery!BeginPass
      BY <2>1, <2>3, <3>1 DEF Delivery!BeginPass
    <3>3. QED
      BY <3>2 DEF Delivery!Next
  <2>4. QED
    BY <2>2, <2>3
<1>4. CASE TakeBatch
  <2>1. pass = "loop" /\ batch = <<>> /\ UNCHANGED <<ran, terminating>>
    BY <1>4 DEF TakeBatch, execVars
  <2>2. CASE interrupts = <<>>
    <3>1. pass' = "flag" /\ UNCHANGED <<interrupts, batch>>
      BY <1>4, <2>2 DEF TakeBatch
    <3>2. batch \o interrupts = <<>>
      BY <2>1, <2>2, EmptySeq, ConcatEmptySeq
    <3>3. Delivery!EndPass
      BY <2>1, <3>1, <3>2 DEF Delivery!EndPass
    <3>4. QED
      BY <3>3 DEF Delivery!Next
  <2>3. CASE interrupts # <<>>
    <3>1. pass' = pass
      BY <1>4, <2>3 DEF TakeBatch
    <3>2. batch' \o interrupts' = batch \o interrupts
      BY <1>4, TakeBatchKeepsIInv
    <3>3. QED
      BY <1>0, <2>1, <3>1, <3>2
  <2>4. QED
    BY <2>2, <2>3
<1>5. CASE Callback
  <2>1. /\ pass = "loop" /\ batch # <<>>
        /\ ran' = Append(ran, Head(batch)) /\ batch' = Tail(batch)
        /\ UNCHANGED <<interrupts, pass, terminating>>
    BY <1>5 DEF Callback, execVars
  <2>2. /\ batch \o interrupts # <<>>
        /\ Head(batch \o interrupts) = Head(batch)
        /\ Tail(batch \o interrupts) = Tail(batch) \o interrupts
    BY <1>queues, <2>1, HeadTailConcat
  <2>3. Delivery!Run
    BY <2>1, <2>2 DEF Delivery!Run
  <2>4. QED
    BY <2>3 DEF Delivery!Next
<1>6. CASE LeavePass
  BY <1>0, <1>6 DEF LeavePass
<1>7. CASE CancelTerminateExecution
  <2>1. pass = "out"
    BY <1>7 DEF CancelTerminateExecution, IInv, PassIsOverScript, ScriptOnTop
  <2>2. Delivery!Cancel
    BY <1>7, <2>1 DEF CancelTerminateExecution, Delivery!Cancel
  <2>3. QED
    BY <2>2 DEF Delivery!Next
<1>8. ASSUME UNCHANGED <<terminating, queueVars>>
      PROVE  [Delivery!Next]_Delivery!vars
  BY <1>0, <1>8 DEF queueVars
<1>9. CASE Gate \/ Enter \/ CallNative \/ ScriptEnds \/ NativeReturns
  BY <1>8, <1>9 DEF Gate, Enter, CallNative, ScriptEnds, NativeReturns
<1>10. CASE UNCHANGED vars
  BY <1>8, <1>10 DEF vars, execVars
<1>11. QED
  BY <1>1, <1>2, <1>3, <1>4, <1>5, <1>6, <1>7, <1>9, <1>10 DEF Next

(* RequestInterrupt on SpiderMonkey keeps the same contract as on V8, with *)
(* a pass that may meet a stop once it has begun.                          *)
THEOREM DeliversAsPromised == Spec => DeliveryOK
<1>1. QED
  BY InitRefines, StepRefines, Invariance, PTL DEF Spec, DeliveryOK, Delivery!Spec
=============================================================================
