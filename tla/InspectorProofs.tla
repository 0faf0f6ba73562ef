--------------------------- MODULE InspectorProofs ---------------------------
(***************************************************************************)
(* Proofs about the inspector of the V8 backend, for every number of       *)
(* sessions and of requests and every depth of the thread: nothing that    *)
(* waits is stranded, and no agent goes under its own send.                *)
(***************************************************************************)
EXTENDS Inspector, QueueLemmas

Kinds ==
  {"script", "drain", "callback", "dispatch", "announce", "send", "pausing", "loop"}

Frames == [is : Kinds, of : Sessions \cup {None}]

OnOf(t, kind) == \E i \in DOMAIN t : t[i].is = kind

(* A send is innermost, and a dispatch is of a session.                    *)
StackOK(t) ==
  /\ t \in Seq(Frames)
  /\ \A i \in DOMAIN t : t[i].is = "send" => i = Len(t)
  /\ \A i \in DOMAIN t : t[i].is = "dispatch" => t[i].of \in Sessions

(* The embedder's session ss, V8's half h of it, and the halves put aside  *)
(* to be stopped (to) and to go (go), of every session.                    *)
SessionsOK(ss, h, to, go) ==
  /\ ss \in [Sessions -> {"new", "open", "stopped", "gone"}]
  /\ h \in [Sessions -> {"none", "off", "on", "stopped"}]
  /\ \A s \in Sessions :
       /\ s \in go => ss[s] = "gone" /\ h[s] # "none"
       /\ s \in to => ss[s] = "stopped" /\ h[s] # "none"
       /\ ss[s] = "open" => h[s] \in {"off", "on"}
       /\ ss[s] = "stopped" => h[s] # "none"
       /\ ss[s] = "new" => h[s] = "none"

DispatcherOK ==
  /\ alive \in BOOLEAN /\ wakePending \in BOOLEAN /\ quit \in BOOLEAN
  /\ short \subseteq {"place", "wake"}
  /\ jobs \in Nat /\ interrupts \in Nat /\ made \in 0 .. MaxRequests
  /\ queue \in Seq(0 .. MaxRequests)

(* Nothing outlives the inspector.                                         *)
NothingLeft ==
  ~alive =>
    /\ queue = <<>> /\ stopping = {} /\ doomed = {}
    /\ \A s \in Sessions : session[s] \in {"new", "gone"} /\ half[s] = "none"

(* A wake-up that is pending is on its way by both roads.                  *)
WakeIsComing == alive /\ wakePending => jobs > 0 /\ interrupts > 0

IInv ==
  /\ DispatcherOK
  /\ SessionsOK(session, half, stopping, doomed)
  /\ StackOK(stack)
  /\ NothingLeft
  /\ WakeIsComing
  /\ QueueHasAWake
  /\ PutAsideHasAWake

-----------------------------------------------------------------------------
(* Entering a frame, leaving the innermost, and what is on the thread.     *)

LEMMA PushFacts ==
  ASSUME NEW t, StackOK(t), ~OnOf(t, "send"),
         NEW kind \in Kinds, NEW s \in Sessions \cup {None},
         kind = "dispatch" => s \in Sessions
  PROVE  /\ StackOK(Append(t, Frame(kind, s)))
         /\ \A k : OnOf(Append(t, Frame(kind, s)), k) <=> OnOf(t, k) \/ k = kind
<1> DEFINE f == Frame(kind, s)
           u == Append(t, f)
<1>1. f \in Frames /\ f.is = kind /\ f.of = s
  BY DEF Frame, Frames
<1>2. t \in Seq(Frames) /\ DOMAIN t = 1 .. Len(t) /\ Len(t) \in Nat
  BY LenProperties DEF StackOK
<1>3. /\ u \in Seq(Frames) /\ Len(u) = Len(t) + 1
      /\ DOMAIN u = 1 .. Len(t) + 1
      /\ \A i \in 1 .. Len(t) : u[i] = t[i]
      /\ u[Len(t) + 1] = f
  BY <1>1, <1>2, AppendFacts
<1> HIDE DEF u, f
<1>4. StackOK(u)
  <2>1. ASSUME NEW i \in DOMAIN u
        PROVE  /\ u[i].is = "send" => i = Len(u)
               /\ u[i].is = "dispatch" => u[i].of \in Sessions
    <3>1. CASE i = Len(t) + 1
      BY <3>1, <1>1, <1>3
    <3>2. CASE i \in 1 .. Len(t)
      BY <3>2, <1>2, <1>3 DEF StackOK, OnOf
    <3>3. QED
      BY <3>1, <3>2, <1>2, <1>3
  <2>2. QED
    BY <2>1, <1>3 DEF StackOK
<1>5. ASSUME NEW k  PROVE OnOf(u, k) <=> OnOf(t, k) \/ k = kind
  <2>1. ASSUME OnOf(u, k), k # kind  PROVE OnOf(t, k)
    <3>1. PICK i \in 1 .. Len(t) + 1 : u[i].is = k
      BY <2>1, <1>3 DEF OnOf
    <3>2. i \in 1 .. Len(t)
      BY <3>1, <2>1, <1>1, <1>2, <1>3
    <3>3. QED
      BY <3>1, <3>2, <1>2, <1>3 DEF OnOf
  <2>2. ASSUME OnOf(t, k)  PROVE OnOf(u, k)
    <3>1. PICK i \in 1 .. Len(t) : t[i].is = k
      BY <2>2, <1>2 DEF OnOf
    <3>2. i \in DOMAIN u /\ u[i].is = k
      BY <3>1, <1>2, <1>3
    <3>3. QED
      BY <3>2 DEF OnOf
  <2>3. OnOf(u, kind)
    <3>1. Len(t) + 1 \in DOMAIN u /\ u[Len(t) + 1].is = kind
      BY <1>1, <1>2, <1>3
    <3>2. QED
      BY <3>1 DEF OnOf
  <2>4. QED
    BY <2>1, <2>2, <2>3
<1>6. QED
  BY <1>4, <1>5 DEF u, f

LEMMA PopFacts ==
  ASSUME NEW t, StackOK(t), t # <<>>
  PROVE  /\ StackOK(Front(t)) /\ ~OnOf(Front(t), "send")
         /\ Last(t) \in Frames
         /\ Last(t).is = "dispatch" => Last(t).of \in Sessions
         /\ \A k : OnOf(t, k) <=> OnOf(Front(t), k) \/ k = Last(t).is
<1> DEFINE u == Front(t)
           n == Len(t)
<1>1. /\ t \in Seq(Frames) /\ DOMAIN t = 1 .. n /\ n \in Nat /\ n > 0
  BY LenProperties, EmptySeq DEF StackOK
<1>2. n - 1 \in 0 .. Len(t) /\ u = SubSeq(t, 1, n - 1)
  BY <1>1 DEF Front
<1>3. /\ u \in Seq(Frames) /\ Len(u) = n - 1 /\ DOMAIN u = 1 .. n - 1
      /\ \A i \in 1 .. n - 1 : u[i] = t[i]
  BY <1>1, <1>2, PrefixFacts
<1>4. Last(t) = t[n] /\ n \in DOMAIN t /\ t[n] \in Frames
  BY <1>1, ElementOfSeq DEF Last
<1> HIDE DEF u, n
<1>5. ASSUME NEW i \in DOMAIN u
      PROVE  /\ u[i] = t[i] /\ i \in DOMAIN t /\ i # n
             /\ u[i].is # "send"
             /\ u[i].is = "dispatch" => u[i].of \in Sessions
  <2>1. u[i] = t[i] /\ i \in DOMAIN t /\ i # n
    BY <1>1, <1>3
  <2>2. QED
    BY <2>1 DEF StackOK, n
<1>6. StackOK(u) /\ ~OnOf(u, "send")
  BY <1>3, <1>5 DEF StackOK, OnOf
<1>7. ASSUME NEW k  PROVE OnOf(t, k) <=> OnOf(u, k) \/ k = Last(t).is
  <2>1. ASSUME OnOf(t, k), k # Last(t).is  PROVE OnOf(u, k)
    <3>1. PICK i \in DOMAIN t : t[i].is = k
      BY <2>1 DEF OnOf
    <3>2. i \in DOMAIN u /\ u[i] = t[i]
      BY <3>1, <2>1, <1>1, <1>3, <1>4
    <3>3. QED
      BY <3>1, <3>2 DEF OnOf
  <2>2. ASSUME OnOf(u, k)  PROVE OnOf(t, k)
    BY <2>2, <1>5 DEF OnOf
  <2>3. OnOf(t, Last(t).is)
    BY <1>4 DEF OnOf
  <2>4. QED
    BY <2>1, <2>2, <2>3
<1>8. QED
  BY <1>4, <1>6, <1>7 DEF u, StackOK

(* Nothing but the client runs inside a send.                              *)
LEMMA TopFacts ==
  ASSUME StackOK(stack)
  PROVE  /\ Top # None => stack # <<>> /\ Last(stack).is = Top
         /\ OnOf(stack, "send") => Top = "send"
         /\ \A k : On(k) <=> OnOf(stack, k)
<1>1. Top # None => stack # <<>> /\ Last(stack).is = Top
  BY DEF Top
<1>2. ASSUME OnOf(stack, "send")  PROVE Top = "send"
  <2>1. stack # <<>>
    <3>1. DOMAIN <<>> = 1 .. 0
      BY EmptySeq, LenProperties
    <3>2. QED
      BY <1>2, <3>1 DEF OnOf
  <2>2. ~OnOf(Front(stack), "send")
    BY <2>1, PopFacts
  <2>3. Last(stack).is = "send"
    BY <1>2, <2>1, <2>2, PopFacts
  <2>4. QED
    BY <2>1, <2>3 DEF Top
<1>3. QED
  BY <1>1, <1>2 DEF On, OnOf

(* What Settle leaves of the sessions.                                     *)
LEMMA SettleFacts ==
  ASSUME SessionsOK(session, half, stopping, doomed), SettleLists
  PROVE  /\ SessionsOK(session, Settled, stopping', doomed')
         /\ Settling => stopping' = {} /\ doomed' = {}
         /\ ~Settling => Settled = half /\ stopping' = stopping /\ doomed' = doomed
         /\ stopping = {} /\ doomed = {} =>
              Settled = half /\ stopping' = {} /\ doomed' = {}
<1>1. \A s \in Sessions :
        Settled[s] = CASE Settling /\ s \in doomed -> "none"
                       [] Settling /\ s \in stopping \ doomed -> "stopped"
                       [] OTHER -> half[s]
  BY DEF Settled
<1>2. half \in [Sessions -> {"none", "off", "on", "stopped"}]
  BY DEF SessionsOK
<1>3. Settled \in [Sessions -> {"none", "off", "on", "stopped"}]
  BY <1>2 DEF Settled
<1>4. CASE Settling
  <2>1. stopping' = {} /\ doomed' = {}
    BY <1>4 DEF SettleLists
  <2>2. ASSUME NEW s \in Sessions
        PROVE  /\ session[s] = "open" => Settled[s] \in {"off", "on"}
               /\ session[s] = "stopped" => Settled[s] # "none"
               /\ session[s] = "new" => Settled[s] = "none"
    <3>1. CASE s \in doomed
      BY <1>1, <1>4, <3>1 DEF SessionsOK
    <3>2. CASE s \in stopping \ doomed
      <4>1. Settled[s] = "stopped" /\ session[s] = "stopped"
        BY <1>1, <1>4, <3>2 DEF SessionsOK
      <4>2. QED
        BY <4>1
    <3>3. CASE s \notin stopping \cup doomed
      <4>1. Settled[s] = half[s]
        BY <1>1, <3>3
      <4>2. QED
        BY <4>1 DEF SessionsOK
    <3>4. QED
      BY <3>1, <3>2, <3>3
  <2>3. SessionsOK(session, Settled, stopping', doomed')
    BY <1>3, <2>1, <2>2 DEF SessionsOK
  <2>4. ASSUME stopping = {}, doomed = {}  PROVE Settled = half
    <3>1. \A s \in Sessions : Settled[s] = half[s]
      BY <1>1, <2>4
    <3>2. QED
      BY <1>2, <1>3, <3>1
  <2>5. QED
    BY <1>4, <2>1, <2>3, <2>4
<1>5. CASE ~Settling
  <2>1. stopping' = stopping /\ doomed' = doomed
    BY <1>5 DEF SettleLists
  <2>2. \A s \in Sessions : Settled[s] = half[s]
    BY <1>1, <1>5
  <2>3. Settled = half
    BY <1>2, <1>3, <2>2
  <2>4. QED
    BY <1>5, <2>1, <2>3
<1>6. QED
  BY <1>4, <1>5

(* A step that takes nothing from the dispatcher and puts nothing aside.   *)
LEMMA QuietStep ==
  ASSUME IInv, UNCHANGED dispatcher,
         StackOK(stack'), OnOf(stack, "drain") => OnOf(stack', "drain"),
         SessionsOK(session', half', stopping', doomed'),
         stopping' \subseteq stopping, doomed' \subseteq doomed,
         ~alive => \A s \in Sessions : session'[s] \in {"new", "gone"} /\ half'[s] = "none",
         quit' \in BOOLEAN, short' \subseteq {"place", "wake"}, short \subseteq short'
  PROVE  IInv'
<1>1. DispatcherOK'
  BY DEF IInv, DispatcherOK, dispatcher
<1>2. NothingLeft'
  BY DEF IInv, NothingLeft, dispatcher
<1>3. WakeIsComing'
  BY DEF IInv, WakeIsComing, dispatcher
<1>4. QueueHasAWake'
  <2>1. On("drain") <=> OnOf(stack, "drain")
    BY TopFacts DEF IInv
  <2>2. On("drain")' <=> OnOf(stack', "drain")
    BY DEF On, OnOf
  <2>3. QED
    BY <2>1, <2>2 DEF IInv, QueueHasAWake, dispatcher
<1>5. PutAsideHasAWake'
  BY DEF IInv, PutAsideHasAWake, dispatcher
<1>6. QED
  BY <1>1, <1>2, <1>3, <1>4, <1>5 DEF IInv

LEMMA StackStep ==
  ASSUME IInv, UNCHANGED <<dispatcher, sessions, short>>,
         StackOK(stack'), OnOf(stack, "drain") => OnOf(stack', "drain")
  PROVE  IInv'
<1>1. /\ SessionsOK(session', half', stopping', doomed')
      /\ stopping' \subseteq stopping /\ doomed' \subseteq doomed
      /\ quit' \in BOOLEAN /\ short' \subseteq {"place", "wake"} /\ short \subseteq short'
  BY DEF IInv, DispatcherOK, sessions
<1>2. ~alive => \A s \in Sessions : session'[s] \in {"new", "gone"} /\ half'[s] = "none"
  BY DEF IInv, NothingLeft, sessions
<1>3. QED
  BY <1>1, <1>2, QuietStep

(* A frame entered by the embedder, script or V8; and one left.            *)
LEMMA PushStep ==
  ASSUME IInv, Top # "send", NEW kind \in Kinds, NEW s \in Sessions \cup {None},
         kind = "dispatch" => s \in Sessions, Push(kind, s)
  PROVE  StackOK(stack') /\ \A k : OnOf(stack', k) <=> OnOf(stack, k) \/ k = kind
<1>1. StackOK(stack) /\ ~OnOf(stack, "send")
  BY TopFacts DEF IInv
<1>2. stack' = Append(stack, Frame(kind, s))
  BY DEF Push
<1>3. QED
  BY <1>1, <1>2, PushFacts

LEMMA PopStep ==
  ASSUME IInv, Top # None, Pop
  PROVE  /\ StackOK(stack')
         /\ \A k : OnOf(stack, k) <=> OnOf(stack', k) \/ k = Top
<1>1. StackOK(stack) /\ stack # <<>> /\ Last(stack).is = Top
  BY TopFacts DEF IInv
<1>2. stack' = Front(stack)
  BY DEF Pop
<1>3. QED
  BY <1>1, <1>2, PopFacts

LEMMA SwapStep ==
  ASSUME IInv, Top = "pausing", stack' = Append(Front(stack), Frame("loop", None))
  PROVE  StackOK(stack') /\ (OnOf(stack, "drain") => OnOf(stack', "drain"))
<1>1. StackOK(stack) /\ stack # <<>> /\ Last(stack).is = "pausing"
  BY TopFacts DEF IInv, None
<1>2. StackOK(Front(stack)) /\ ~OnOf(Front(stack), "send")
      /\ (OnOf(stack, "drain") => OnOf(Front(stack), "drain"))
  BY <1>1, PopFacts
<1>3. QED
  BY <1>2, PushFacts DEF Kinds

(* A step that settles, and otherwise touches the stack at most.           *)
LEMMA SettleStep ==
  ASSUME IInv, UNCHANGED <<dispatcher, session, short>>,
         half' = Settled, SettleLists, quit' \in BOOLEAN,
         StackOK(stack'), OnOf(stack, "drain") => OnOf(stack', "drain")
  PROVE  IInv'
<1>1. SessionsOK(session, half, stopping, doomed)
  BY DEF IInv
<1>2. SessionsOK(session', half', stopping', doomed')
  BY <1>1, SettleFacts
<1>3. stopping' \subseteq stopping /\ doomed' \subseteq doomed
  BY DEF SettleLists
<1>4. ~alive => \A s \in Sessions : session'[s] \in {"new", "gone"} /\ half'[s] = "none"
  BY <1>1, SettleFacts DEF IInv, NothingLeft
<1>5. short' \subseteq {"place", "wake"} /\ short \subseteq short'
  BY DEF IInv, DispatcherOK
<1>6. QED
  BY <1>2, <1>3, <1>4, <1>5, QuietStep

(* A drain begins: a wake-up has come, and what was put aside is done.     *)
LEMMA DrainStep ==
  ASSUME IInv, Top # "send", BeginDrain, jobs' \in Nat, interrupts' \in Nat
  PROVE  IInv'
<1>1. StackOK(stack') /\ OnOf(stack', "drain")
  BY PushStep DEF BeginDrain, Kinds
<1>2. On("drain")'
  BY <1>1 DEF On, OnOf
<1>3. SessionsOK(session, half, stopping, doomed) /\ ~Notifying
  BY TopFacts DEF IInv, Notifying
<1>4. UNCHANGED <<alive, queue, session, made, short>>
  BY DEF BeginDrain
<1>5. CASE alive
  <2>1. wakePending' = FALSE /\ half' = Settled /\ SettleLists
        /\ quit' = (quit \/ NobodyLeft(Settled))
    BY <1>5 DEF BeginDrain, Settle
  <2>2. stopping' = {} /\ doomed' = {} /\ SessionsOK(session', half', stopping', doomed')
    BY <1>3, <1>4, <2>1, SettleFacts DEF Settling
  <2>3. quit' \in BOOLEAN
    BY <2>1
  <2>4. DispatcherOK'
    BY <1>4, <2>1, <2>3 DEF IInv, DispatcherOK
  <2>5. QED
    BY <1>1, <1>2, <1>4, <1>5, <2>1, <2>2, <2>4
       DEF IInv, NothingLeft, WakeIsComing, QueueHasAWake, PutAsideHasAWake
<1>6. CASE ~alive
  <2>1. UNCHANGED <<wakePending, half, quit, stopping, doomed>>
    BY <1>6 DEF BeginDrain
  <2>2. DispatcherOK'
    BY <1>4, <2>1 DEF IInv, DispatcherOK
  <2>3. QED
    BY <1>1, <1>2, <1>4, <1>6, <2>1, <2>2
       DEF IInv, NothingLeft, WakeIsComing, QueueHasAWake, PutAsideHasAWake
<1>7. QED
  BY <1>5, <1>6

-----------------------------------------------------------------------------
(* The steps, by what they touch.                                          *)

LEMMA InitIInv == Init => IInv
<1> SUFFICES ASSUME Init  PROVE IInv
  OBVIOUS
<1>1. DispatcherOK
  <2>1. MaxRequests \in Nat
    BY BoundsAssumption
  <2>2. queue \in Seq(0 .. MaxRequests)
    BY EmptySeq DEF Init
  <2>3. alive \in BOOLEAN /\ wakePending \in BOOLEAN /\ quit \in BOOLEAN
    BY Zenon DEF Init
  <2>4. /\ short \subseteq {"place", "wake"}
        /\ jobs \in Nat /\ interrupts \in Nat /\ made \in 0 .. MaxRequests
    BY <2>1 DEF Init
  <2>5. QED
    BY <2>2, <2>3, <2>4 DEF DispatcherOK
<1>2. SessionsOK(session, half, stopping, doomed)
  BY DEF Init, SessionsOK
<1>3. StackOK(stack)
  <2>1. stack \in Seq(Frames) /\ DOMAIN stack = 1 .. 0
    BY EmptySeq, LenProperties DEF Init
  <2>2. QED
    BY <2>1 DEF StackOK
<1>4. QED
  BY <1>1, <1>2, <1>3
     DEF Init, IInv, NothingLeft, WakeIsComing, QueueHasAWake, PutAsideHasAWake

(* A request queued, with or without a wake-up asked for.                  *)
LEMMA TakenStep ==
  ASSUME IInv, alive, NEW r \in 0 .. MaxRequests, Taken(r)
  PROVE  /\ queue' \in Seq(0 .. MaxRequests)
         /\ wakePending' = TRUE
         /\ jobs' \in Nat /\ jobs' > 0 /\ interrupts' \in Nat /\ interrupts' > 0
<1>1. queue \in Seq(0 .. MaxRequests) /\ jobs \in Nat /\ interrupts \in Nat
  BY DEF IInv, DispatcherOK
<1>2. queue' \in Seq(0 .. MaxRequests) /\ wakePending' = TRUE
  BY <1>1, AppendFacts DEF Taken
<1>3. CASE wakePending
  BY <1>1, <1>2, <1>3 DEF Taken, IInv, WakeIsComing
<1>4. CASE ~wakePending
  BY <1>1, <1>2, <1>4 DEF Taken
<1>5. QED
  BY <1>3, <1>4, <1>2

LEMMA RequestIsKept == IInv /\ RequestDispatch => IInv'
<1> SUFFICES ASSUME IInv, RequestDispatch  PROVE IInv'
  OBVIOUS
<1>0. CASE Refused /\ UNCHANGED <<made, alive, sessions, stack, short>>
  BY <1>0
     DEF Refused, sessions, IInv, DispatcherOK, NothingLeft, WakeIsComing,
         QueueHasAWake, PutAsideHasAWake, On
<1> SUFFICES ASSUME alive /\ made' = made + 1 /\ Taken(made + 1),
                    UNCHANGED <<alive, sessions, stack, short>>
             PROVE  IInv'
  BY <1>0 DEF RequestDispatch
<1>1. /\ alive /\ made' = made + 1 /\ Taken(made + 1)
      /\ UNCHANGED <<alive, sessions, stack, short>>
  OBVIOUS
<1>2. made + 1 \in 0 .. MaxRequests
  BY BoundsAssumption DEF RequestDispatch, IInv, DispatcherOK
<1>3. /\ queue' \in Seq(0 .. MaxRequests) /\ wakePending' = TRUE
      /\ jobs' \in Nat /\ jobs' > 0 /\ interrupts' \in Nat /\ interrupts' > 0
  BY <1>1, <1>2, TakenStep
<1>4. DispatcherOK'
  BY <1>1, <1>2, <1>3 DEF IInv, DispatcherOK, sessions
<1>5. /\ SessionsOK(session', half', stopping', doomed') /\ StackOK(stack')
      /\ NothingLeft' /\ WakeIsComing' /\ QueueHasAWake' /\ PutAsideHasAWake'
  BY <1>1, <1>3
     DEF IInv, sessions, NothingLeft, WakeIsComing, QueueHasAWake, PutAsideHasAWake
<1>6. QED
  BY <1>4, <1>5 DEF IInv

LEMMA DispatchKeeps == IInv /\ (DispatchJob \/ DispatchInterrupt) => IInv'
<1>1. ASSUME IInv, DispatchJob  PROVE IInv'
  <2>1. Top # "send" /\ BeginDrain
    BY <1>1 DEF DispatchJob, None
  <2>2. jobs' \in Nat /\ interrupts' \in Nat
    BY <1>1 DEF DispatchJob, IInv, DispatcherOK
  <2>3. QED
    BY <1>1, <2>1, <2>2, DrainStep
<1>2. ASSUME IInv, DispatchInterrupt  PROVE IInv'
  <2>1. Top # "send" /\ BeginDrain
    BY <1>2 DEF DispatchInterrupt
  <2>2. jobs' \in Nat /\ interrupts' \in Nat
    BY <1>2 DEF DispatchInterrupt, IInv, DispatcherOK
  <2>3. QED
    BY <1>2, <2>1, <2>2, DrainStep
<1>3. QED
  BY <1>1, <1>2

LEMMA CallbackKeeps == IInv /\ StartCallback => IInv'
<1> SUFFICES ASSUME IInv, StartCallback  PROVE IInv'
  OBVIOUS
<1>1. /\ Top = "drain" /\ alive /\ queue # <<>> /\ queue' = Tail(queue)
      /\ (UNCHANGED stack \/ Push("callback", None))
      /\ UNCHANGED <<alive, wakePending, jobs, interrupts, made, sessions, short>>
  BY DEF StartCallback
<1>2. queue' \in Seq(0 .. MaxRequests)
  BY <1>1, TailFacts DEF IInv, DispatcherOK
<1>3. StackOK(stack') /\ OnOf(stack', "drain")
  <2>1. OnOf(stack, "drain")
    BY <1>1, TopFacts, PopFacts DEF IInv, None
  <2>2. CASE UNCHANGED stack
    BY <2>1, <2>2 DEF IInv
  <2>3. CASE Push("callback", None)
    BY <1>1, <2>1, <2>3, PushStep DEF Kinds
  <2>4. QED
    BY <1>1, <2>2, <2>3
<1>4. On("drain")'
  BY <1>3 DEF On, OnOf
<1>5. DispatcherOK'
  BY <1>1, <1>2 DEF IInv, DispatcherOK, sessions
<1>6. QED
  BY <1>1, <1>3, <1>4, <1>5
     DEF IInv, sessions, NothingLeft, WakeIsComing, QueueHasAWake, PutAsideHasAWake

(* A frame left that is not a drain; and the drain, which leaves nothing.  *)
LEMMA ReturnKeeps ==
  IInv /\ (CallbackReturns \/ ScriptEnds \/ SendReturns \/ DrainEnds) => IInv'
<1>1. ASSUME IInv, CallbackReturns \/ ScriptEnds \/ SendReturns  PROVE IInv'
  <2>1. /\ Top \in {"callback", "script", "send"} /\ Pop
        /\ UNCHANGED <<dispatcher, sessions, short>>
    BY <1>1 DEF CallbackReturns, ScriptEnds, SendReturns
  <2>2. StackOK(stack') /\ (OnOf(stack, "drain") => OnOf(stack', "drain"))
    BY <1>1, <2>1, PopStep DEF None
  <2>3. QED
    BY <1>1, <2>1, <2>2, StackStep
<1>2. ASSUME IInv, DrainEnds  PROVE IInv'
  <2>1. /\ Top = "drain" /\ Pop /\ (~alive \/ queue = <<>>)
        /\ UNCHANGED <<dispatcher, sessions, short>>
    BY <1>2 DEF DrainEnds
  <2>2. StackOK(stack')
    BY <1>2, <2>1, PopStep DEF None
  <2>3. queue' = <<>>
    BY <1>2, <2>1 DEF IInv, NothingLeft, dispatcher
  <2>4. QED
    BY <1>2, <2>1, <2>2, <2>3
       DEF IInv, DispatcherOK, dispatcher, sessions, NothingLeft, WakeIsComing,
           QueueHasAWake, PutAsideHasAWake
<1>3. QED
  BY <1>1, <1>2

LEMMA EnterKeeps ==
  IInv /\ (RunScript \/ Evaluate \/ Pause \/ \E s \in Sessions : SendNotification(s)) => IInv'
<1> SUFFICES ASSUME IInv,
                    RunScript \/ Evaluate \/ Pause \/ \E s \in Sessions : SendNotification(s)
             PROVE  IInv'
  OBVIOUS
<1>1. PICK kind \in {"script", "pausing", "send"}, s \in Sessions \cup {None} :
        /\ Top # "send" /\ Push(kind, s)
        /\ UNCHANGED <<dispatcher, sessions, short>>
  BY DEF RunScript, Evaluate, Pause, SendNotification, None
<1>2. kind \in Kinds /\ kind # "dispatch"
  BY DEF Kinds
<1>3. StackOK(stack') /\ (OnOf(stack, "drain") => OnOf(stack', "drain"))
  BY <1>1, <1>2, PushStep
<1>4. QED
  BY <1>1, <1>3, StackStep

(* The steps that settle.                                                  *)
LEMMA LoopKeeps == IInv /\ (RunMessageLoopOnPause \/ LoopReturns) => IInv'
<1>1. ASSUME IInv, RunMessageLoopOnPause  PROVE IInv'
  <2>1. /\ Top = "pausing" /\ SettleLists /\ half' = Settled
        /\ UNCHANGED <<dispatcher, session, short>>
        /\ \/ Pop /\ quit' = quit
           \/ stack' = Append(Front(stack), Frame("loop", None)) /\ quit' = FALSE
    BY <1>1 DEF RunMessageLoopOnPause
  <2>2. quit' \in BOOLEAN
    BY <1>1, <2>1 DEF IInv, DispatcherOK
  <2>3. StackOK(stack') /\ (OnOf(stack, "drain") => OnOf(stack', "drain"))
    <3>1. CASE Pop
      BY <1>1, <2>1, <3>1, PopStep DEF None
    <3>2. CASE stack' = Append(Front(stack), Frame("loop", None))
      BY <1>1, <2>1, <3>2, SwapStep
    <3>3. QED
      BY <2>1, <3>1, <3>2
  <2>4. QED
    BY <1>1, <2>1, <2>2, <2>3, SettleStep
<1>2. ASSUME IInv, LoopReturns  PROVE IInv'
  <2>1. /\ Top = "loop" /\ Pop /\ quit' = FALSE
        /\ UNCHANGED <<dispatcher, session, half, stopping, doomed, short>>
    BY <1>2 DEF LoopReturns
  <2>2. StackOK(stack') /\ (OnOf(stack, "drain") => OnOf(stack', "drain"))
    BY <1>2, <2>1, PopStep DEF None
  <2>3. /\ SessionsOK(session', half', stopping', doomed')
        /\ short' \subseteq {"place", "wake"} /\ short \subseteq short'
        /\ ~alive => \A s \in Sessions : session'[s] \in {"new", "gone"} /\ half'[s] = "none"
    BY <1>2, <2>1 DEF IInv, DispatcherOK, NothingLeft
  <2>4. QED
    BY <1>2, <2>1, <2>2, <2>3, QuietStep
<1>3. QED
  BY <1>1, <1>2

LEMMA MessageKeeps ==
  IInv /\ (AnnounceRealm \/ Answered \/ \E s \in Sessions : DispatchProtocolMessage(s)) => IInv'
<1>1. ASSUME IInv, AnnounceRealm \/ \E s \in Sessions : DispatchProtocolMessage(s)
      PROVE  IInv'
  <2>1. PICK kind \in {"announce", "dispatch"}, s \in Sessions \cup {None} :
          /\ Top # "send" /\ Push(kind, s) /\ (kind = "dispatch" => s \in Sessions)
          /\ Settle /\ UNCHANGED <<dispatcher, session, short>>
    BY <1>1 DEF AnnounceRealm, DispatchProtocolMessage, InHost, None
  <2>2. StackOK(stack') /\ (OnOf(stack, "drain") => OnOf(stack', "drain"))
    BY <1>1, <2>1, PushStep DEF Kinds
  <2>3. quit' \in BOOLEAN /\ half' = Settled /\ SettleLists
    BY <2>1 DEF Settle
  <2>4. QED
    BY <1>1, <2>1, <2>2, <2>3, SettleStep
<1>2. ASSUME IInv, Answered  PROVE IInv'
  <2>1. /\ Top \in {"dispatch", "announce"} /\ Pop
        /\ half' = Settled /\ SettleLists /\ quit' \in BOOLEAN
        /\ UNCHANGED <<dispatcher, session, short>>
    BY <1>2 DEF Answered
  <2>2. StackOK(stack') /\ (OnOf(stack, "drain") => OnOf(stack', "drain"))
    BY <1>2, <2>1, PopStep DEF None
  <2>3. QED
    BY <1>2, <2>1, <2>2, SettleStep
<1>3. QED
  BY <1>1, <1>2

LEMMA ResumeKeeps == IInv /\ (\E s \in Sessions : Resume(s)) => IInv'
<1> SUFFICES ASSUME IInv, NEW s \in Sessions, Resume(s)  PROVE IInv'
  OBVIOUS
<1>1. /\ half' = Settled /\ SettleLists /\ quit' \in BOOLEAN
      /\ UNCHANGED <<dispatcher, session, stack, short>>
  BY DEF Resume
<1>2. StackOK(stack') /\ (OnOf(stack, "drain") => OnOf(stack', "drain"))
  BY <1>1 DEF IInv
<1>3. QED
  BY <1>1, <1>2, SettleStep

(* The debugger of a session turned on or off, or told to go on.           *)
LEMMA DebuggerKeeps ==
  IInv /\ (DebuggerEnable \/ DebuggerDisable \/ DebuggerResume) => IInv'
<1> SUFFICES ASSUME IInv, DebuggerEnable \/ DebuggerDisable \/ DebuggerResume
             PROVE  IInv'
  OBVIOUS
<1> DEFINE s == Last(stack).of
<1>1. /\ Top = "dispatch"
      /\ UNCHANGED <<dispatcher, session, stopping, doomed, stack, short>>
      /\ quit' \in BOOLEAN
      /\ half[s] \in {"off", "on"}
      /\ half' = half \/ \E h \in {"off", "on"} : half' = [half EXCEPT ![s] = h]
  BY DEF DebuggerEnable, DebuggerDisable, DebuggerResume, IInv, DispatcherOK
<1>2. s \in Sessions
  <2>1. stack # <<>> /\ Last(stack).is = "dispatch" /\ StackOK(stack)
    BY <1>1, TopFacts DEF IInv, None
  <2>2. QED
    BY <2>1, PopFacts
<1> HIDE DEF s
<1>3. SessionsOK(session, half, stopping, doomed)
  BY DEF IInv
<1>4. SessionsOK(session', half', stopping', doomed')
  <2>1. CASE half' = half
    BY <1>1, <1>3, <2>1
  <2>2. CASE \E h \in {"off", "on"} : half' = [half EXCEPT ![s] = h]
    <3>1. PICK h \in {"off", "on"} : half' = [half EXCEPT ![s] = h]
      BY <2>2
    <3>2. half' \in [Sessions -> {"none", "off", "on", "stopped"}]
      BY <1>3, <3>1 DEF SessionsOK
    <3>3. \A q \in Sessions : half'[q] = IF q = s THEN h ELSE half[q]
      BY <1>3, <3>1 DEF SessionsOK
    <3>4. session[s] # "new"
      BY <1>1, <1>2, <1>3 DEF SessionsOK
    <3>5. QED
      BY <1>1, <1>3, <3>2, <3>3, <3>4 DEF SessionsOK
  <2>3. QED
    BY <1>1, <2>1, <2>2
<1>5. alive
  BY <1>1, <1>2 DEF IInv, NothingLeft
<1>6. StackOK(stack') /\ short' \subseteq {"place", "wake"} /\ short \subseteq short'
  BY <1>1 DEF IInv, DispatcherOK
<1>7. QED
  BY <1>1, <1>4, <1>5, <1>6, QuietStep

(* What becomes of a session: connected, stopped, destroyed.               *)
LEMMA ConnectKeeps == IInv /\ (\E s \in Sessions : Connect(s)) => IInv'
<1> SUFFICES ASSUME IInv, NEW s \in Sessions, Connect(s)  PROVE IInv'
  OBVIOUS
<1>1. /\ alive /\ session[s] = "new"
      /\ session' = [session EXCEPT ![s] = "open"]
      /\ half' = [Settled EXCEPT ![s] = "off"]
      /\ quit' \in BOOLEAN /\ SettleLists
      /\ UNCHANGED <<dispatcher, stack, short>>
  BY DEF Connect
<1>2. SessionsOK(session, Settled, stopping', doomed')
  BY <1>1, SettleFacts DEF IInv
<1>3. SessionsOK(session', half', stopping', doomed')
  <2>1. \A q \in Sessions : /\ session'[q] = IF q = s THEN "open" ELSE session[q]
                            /\ half'[q] = IF q = s THEN "off" ELSE Settled[q]
    BY <1>1, <1>2 DEF SessionsOK
  <2>2. /\ session' \in [Sessions -> {"new", "open", "stopped", "gone"}]
        /\ half' \in [Sessions -> {"none", "off", "on", "stopped"}]
    BY <1>1, <1>2 DEF SessionsOK
  <2>3. s \notin doomed' /\ s \notin stopping'
    BY <1>1, <1>2 DEF SessionsOK
  <2>4. QED
    BY <1>2, <2>1, <2>2, <2>3 DEF SessionsOK
<1>4. stopping' \subseteq stopping /\ doomed' \subseteq doomed
  BY <1>1 DEF SettleLists
<1>5. StackOK(stack') /\ (OnOf(stack, "drain") => OnOf(stack', "drain"))
      /\ short' \subseteq {"place", "wake"} /\ short \subseteq short'
  BY <1>1 DEF IInv, DispatcherOK
<1>6. QED
  BY <1>1, <1>3, <1>4, <1>5, QuietStep

(* A wake-up asked for by a session put aside.                             *)
LEMMA WakeStep ==
  ASSUME IInv, alive, WakeToSettle, UNCHANGED stack,
         quit' \in BOOLEAN, SessionsOK(session', half', stopping', doomed')
  PROVE  IInv'
<1>1. alive' = alive /\ made' = made
  BY DEF WakeToSettle
<1>2. CASE Taken(Nothing) /\ UNCHANGED short
  <2>1. Nothing \in 0 .. MaxRequests
    BY BoundsAssumption DEF Nothing
  <2>2. /\ queue' \in Seq(0 .. MaxRequests) /\ wakePending' = TRUE
        /\ jobs' \in Nat /\ jobs' > 0 /\ interrupts' \in Nat /\ interrupts' > 0
    BY <1>2, <2>1, TakenStep
  <2>3. DispatcherOK'
    BY <1>1, <1>2, <2>2 DEF IInv, DispatcherOK
  <2>4. QED
    BY <1>1, <2>2, <2>3
       DEF IInv, NothingLeft, WakeIsComing, QueueHasAWake, PutAsideHasAWake
<1>3. CASE Refused /\ short' = IF wakePending THEN short ELSE short \cup {"wake"}
  <2>1. UNCHANGED <<queue, wakePending, jobs, interrupts>>
    BY <1>3 DEF Refused
  <2>2. DispatcherOK'
    BY <1>1, <1>3, <2>1 DEF IInv, DispatcherOK
  <2>3. QueueHasAWake'
    <3>1. On("drain")' <=> On("drain")
      BY DEF On
    <3>2. QED
      BY <2>1, <3>1 DEF IInv, QueueHasAWake
  <2>4. PutAsideHasAWake'
    <3>1. wakePending \/ "wake" \in short'
      BY <1>3
    <3>2. QED
      BY <2>1, <3>1 DEF IInv, WakeIsComing, PutAsideHasAWake
  <2>5. QED
    BY <1>1, <2>1, <2>2, <2>3, <2>4 DEF IInv, NothingLeft, WakeIsComing
<1>4. QED
  BY <1>2, <1>3 DEF WakeToSettle

LEMMA StopKeeps == IInv /\ (\E s \in Sessions : Stop(s)) => IInv'
<1> SUFFICES ASSUME IInv, NEW s \in Sessions, Stop(s)  PROVE IInv'
  OBVIOUS
<1>1. /\ session[s] = "open" /\ session' = [session EXCEPT ![s] = "stopped"]
      /\ UNCHANGED stack
  BY DEF Stop
<1>2. SessionsOK(session, half, stopping, doomed)
  BY DEF IInv
<1>3. alive
  BY <1>1 DEF IInv, NothingLeft
<1>4. \A q \in Sessions : session'[q] = IF q = s THEN "stopped" ELSE session[q]
  BY <1>1, <1>2 DEF SessionsOK
<1>5. session' \in [Sessions -> {"new", "open", "stopped", "gone"}]
  BY <1>1, <1>2 DEF SessionsOK
<1>6. CASE stopping' = stopping \cup {s} /\ WakeToSettle /\ UNCHANGED <<half, doomed, quit>>
  <2>1. SessionsOK(session', half', stopping', doomed')
    BY <1>1, <1>2, <1>4, <1>5, <1>6 DEF SessionsOK
  <2>2. quit' \in BOOLEAN
    BY <1>6 DEF IInv, DispatcherOK
  <2>3. QED
    BY <1>1, <1>3, <1>6, <2>1, <2>2, WakeStep
<1>7. CASE AtOnce(s, "stopped") /\ UNCHANGED stopping
  <2>1. /\ half' = [half EXCEPT ![s] = "stopped"] /\ quit' \in BOOLEAN
        /\ short \subseteq short' /\ short' \subseteq {"place", "wake"}
        /\ UNCHANGED <<dispatcher, doomed, stopping>>
    BY <1>7 DEF AtOnce, IInv, DispatcherOK
  <2>2. \A q \in Sessions : half'[q] = IF q = s THEN "stopped" ELSE half[q]
    BY <1>2, <2>1 DEF SessionsOK
  <2>3. half' \in [Sessions -> {"none", "off", "on", "stopped"}]
    BY <1>2, <2>1 DEF SessionsOK
  <2>4. SessionsOK(session', half', stopping', doomed')
    BY <1>1, <1>2, <1>4, <1>5, <2>1, <2>2, <2>3 DEF SessionsOK
  <2>5. StackOK(stack')
    BY <1>1 DEF IInv
  <2>6. QED
    BY <1>1, <1>3, <2>1, <2>4, <2>5, QuietStep
<1>8. QED
  BY <1>6, <1>7 DEF Stop

LEMMA DestroyKeeps == IInv /\ (\E s \in Sessions : Destroy(s)) => IInv'
<1> SUFFICES ASSUME IInv, NEW s \in Sessions, Destroy(s)  PROVE IInv'
  OBVIOUS
<1>1. /\ session[s] \in {"open", "stopped"}
      /\ session' = [session EXCEPT ![s] = "gone"]
      /\ stopping' = stopping \ {s} /\ UNCHANGED stack
  BY DEF Destroy
<1>2. SessionsOK(session, half, stopping, doomed)
  BY DEF IInv
<1>3. alive
  BY <1>1 DEF IInv, NothingLeft
<1>4. \A q \in Sessions : session'[q] = IF q = s THEN "gone" ELSE session[q]
  BY <1>1, <1>2 DEF SessionsOK
<1>5. session' \in [Sessions -> {"new", "open", "stopped", "gone"}]
  BY <1>1, <1>2 DEF SessionsOK
<1>6. half[s] # "none"
  BY <1>1, <1>2 DEF SessionsOK
<1>7. CASE doomed' = doomed \cup {s} /\ WakeToSettle /\ UNCHANGED <<half, quit>>
  <2>1. SessionsOK(session', half', stopping', doomed')
    BY <1>1, <1>2, <1>4, <1>5, <1>6, <1>7 DEF SessionsOK
  <2>2. quit' \in BOOLEAN
    BY <1>7 DEF IInv, DispatcherOK
  <2>3. QED
    BY <1>1, <1>3, <1>7, <2>1, <2>2, WakeStep
<1>8. CASE AtOnce(s, "none")
  <2>1. /\ half' = [half EXCEPT ![s] = "none"] /\ quit' \in BOOLEAN
        /\ short \subseteq short' /\ short' \subseteq {"place", "wake"}
        /\ UNCHANGED <<dispatcher, doomed>>
    BY <1>8 DEF AtOnce, IInv, DispatcherOK
  <2>2. \A q \in Sessions : half'[q] = IF q = s THEN "none" ELSE half[q]
    BY <1>2, <2>1 DEF SessionsOK
  <2>3. half' \in [Sessions -> {"none", "off", "on", "stopped"}]
    BY <1>2, <2>1 DEF SessionsOK
  <2>4. s \notin doomed'
    BY <1>1, <1>2, <2>1 DEF SessionsOK
  <2>5. SessionsOK(session', half', stopping', doomed')
    BY <1>1, <1>2, <1>4, <1>5, <2>1, <2>2, <2>3, <2>4 DEF SessionsOK
  <2>6. StackOK(stack')
    BY <1>1 DEF IInv
  <2>7. QED
    BY <1>1, <1>3, <2>1, <2>5, <2>6, QuietStep
<1>9. QED
  BY <1>7, <1>8 DEF Destroy

LEMMA DestroyInspectorKeeps == IInv /\ DestroyInspector => IInv'
<1> SUFFICES ASSUME IInv, DestroyInspector  PROVE IInv'
  OBVIOUS
<1>1. /\ \A s \in Sessions : session[s] \in {"new", "gone"}
      /\ alive' = FALSE /\ queue' = <<>>
      /\ half' = [s \in Sessions |-> "none"]
      /\ stopping' = {} /\ doomed' = {}
      /\ UNCHANGED <<wakePending, jobs, interrupts, made, session, quit, stack, short>>
  BY DEF DestroyInspector
<1>2. queue' \in Seq(0 .. MaxRequests)
  BY <1>1, EmptySeq
<1>3. alive' \in BOOLEAN
  BY <1>1
<1>4. DispatcherOK'
  BY <1>1, <1>2, <1>3 DEF IInv, DispatcherOK
<1>5. SessionsOK(session', half', stopping', doomed')
  BY <1>1 DEF IInv, SessionsOK
<1>6. StackOK(stack')
  BY <1>1 DEF IInv
<1>7. QED
  BY <1>1, <1>4, <1>5, <1>6
     DEF IInv, NothingLeft, WakeIsComing, QueueHasAWake, PutAsideHasAWake

LEMMA NextIInv == IInv /\ [Next]_vars => IInv'
<1>1. ASSUME IInv, Next  PROVE IInv'
  BY <1>1, RequestIsKept, DispatchKeeps, CallbackKeeps, ReturnKeeps, EnterKeeps,
     LoopKeeps, MessageKeeps, ResumeKeeps, DebuggerKeeps, ConnectKeeps, StopKeeps,
     DestroyKeeps, DestroyInspectorKeeps DEF Next
<1>2. ASSUME IInv, UNCHANGED vars  PROVE IInv'
  BY <1>2
     DEF vars, dispatcher, sessions, IInv, DispatcherOK, NothingLeft, WakeIsComing,
         QueueHasAWake, PutAsideHasAWake, On
<1>3. QED
  BY <1>1, <1>2

-----------------------------------------------------------------------------
(* What holds of every behaviour.                                          *)

(* The invariant the rest follow from: the dispatcher, the sessions and    *)
(* the thread fit together whatever the other threads and clients do.      *)
THEOREM Invariance == Spec => []IInv
<1>1. QED
  BY InitIInv, NextIInv, PTL DEF Spec

(* Every variable keeps its type; a session put aside is one the embedder  *)
(* gave up and V8 still has, and nothing of V8's outlives the inspector.   *)
THEOREM TypeCorrect == Spec => []TypeOK
<1>1. IInv => TypeOK
  BY DEF IInv, DispatcherOK, SessionsOK, NothingLeft, TypeOK
<1>2. QED
  BY <1>1, Invariance, PTL

(* RequestDispatch: whenever it is called and whatever the drains do, no   *)
(* request is left in the queue with nothing on its way to run it.         *)
THEOREM NoRequestStranded == Spec => []QueueHasAWake
<1>1. IInv => QueueHasAWake
  BY DEF IInv
<1>2. QED
  BY <1>1, Invariance, PTL

(* Stop and ~InspectorSession inside a send: what they put aside is done   *)
(* by a drain on its way, or there was no memory to ask for one.           *)
THEOREM NothingPutAsideForgotten == Spec => []PutAsideHasAWake
<1>1. IInv => PutAsideHasAWake
  BY DEF IInv
<1>2. QED
  BY <1>1, Invariance, PTL

(* The agent a notification is sent by is there when the send returns,     *)
(* whatever sessions the client connects, stops and destroys inside it.    *)
THEOREM AgentSurvives == Spec => AgentOutlivesSend
<1> DEFINE Outlives ==
      Notifying => "place" \in short' \/ \A s \in Sessions : half[s] # "none" => half'[s] = half[s]
<1>1. IInv /\ [Next]_vars => [Outlives]_vars
  <2> SUFFICES ASSUME IInv, Next, Notifying, "place" \notin short',
                      NEW s \in Sessions, half[s] # "none"
               PROVE  half'[s] = half[s]
    OBVIOUS
  <2>1. Top = "send" /\ ~Settling
    BY TopFacts DEF IInv, Notifying, Settling
  <2>2. \/ half' = half
        \/ \E q \in Sessions : Connect(q) \/ Stop(q) \/ Destroy(q)
    BY <2>1
       DEF Next, RequestDispatch, DispatchJob, DispatchInterrupt, StartCallback,
           CallbackReturns, DrainEnds, RunScript, Evaluate, ScriptEnds,
           SendNotification, DispatchProtocolMessage, SendReturns, Pause,
           RunMessageLoopOnPause, LoopReturns, DebuggerEnable, DebuggerDisable,
           DebuggerResume, Answered, AnnounceRealm, Resume, DestroyInspector,
           InHost, None, sessions
  <2>3. ASSUME NEW q \in Sessions, Connect(q)  PROVE half'[s] = half[s]
    <3>1. session[q] = "new" /\ half' = [Settled EXCEPT ![q] = "off"] /\ SettleLists
      BY <2>3 DEF Connect
    <3>2. Settled = half /\ half[q] = "none"
      BY <2>1, <3>1, SettleFacts DEF IInv, SessionsOK
    <3>3. QED
      BY <3>1, <3>2 DEF IInv, SessionsOK
  <2>4. ASSUME NEW q \in Sessions, Stop(q) \/ Destroy(q)  PROVE half' = half
    BY <2>4 DEF Stop, Destroy, AtOnce
  <2>5. QED
    BY <2>2, <2>3, <2>4
<1>2. QED
  BY <1>1, Invariance, PTL DEF Spec, AgentOutlivesSend

-----------------------------------------------------------------------------
(* Pauses.  What may be directly above what on the thread, one pause at    *)
(* most, and nothing put aside where the embedder is at it again.          *)

Under ==
  [script   |-> {"dispatch"},
   drain    |-> {"script", "loop"},
   callback |-> {"drain"},
   dispatch |-> {"callback", "loop"},
   announce |-> {"callback", "loop"},
   send     |-> {"script", "dispatch", "announce", "pausing"},
   pausing  |-> {"script"},
   loop     |-> {"script"}]

Stands(t) == \A i \in 1 .. Len(t) - 1 : t[i].is \in Under[t[i + 1].is]

PauseAt(t, i) == t[i].is \in {"pausing", "loop"}
OnePause(t) == \A i, j \in 1 .. Len(t) : PauseAt(t, i) /\ PauseAt(t, j) => i = j

TopOf(t) == IF t = <<>> THEN None ELSE Last(t).is
Clear(t, to, go) ==
  TopOf(t) \in {"drain", "callback", "loop"} => to = {} /\ go = {}

(* A session V8 still works for is in the embedder's hands or put aside.   *)
InUse(ss, h, to, go) ==
  \A s \in Sessions :
    h[s] \in {"off", "on"} => ss[s] = "open" \/ s \in to \/ s \in go

SomeOn(h) == \E s \in Sessions : h[s] = "on"
Endable(t, h, q, sh) ==
  /\ OnOf(t, "loop") => q \/ "place" \in sh \/ SomeOn(h)
  /\ OnOf(t, "pausing") => "place" \in sh \/ SomeOn(h)

PauseInv ==
  /\ Stands(stack) /\ OnePause(stack)
  /\ Clear(stack, stopping, doomed)
  /\ InUse(session, half, stopping, doomed)
  /\ Endable(stack, half, quit, short)

LEMMA StandsPush ==
  ASSUME NEW t, StackOK(t), Stands(t), OnePause(t),
         NEW kind \in Kinds, NEW s \in Sessions \cup {None},
         TopOf(t) \in Under[kind] \cup {None},
         kind \in {"pausing", "loop"} => ~OnOf(t, "pausing") /\ ~OnOf(t, "loop")
  PROVE  /\ Stands(Append(t, Frame(kind, s))) /\ OnePause(Append(t, Frame(kind, s)))
         /\ TopOf(Append(t, Frame(kind, s))) = kind
<1> DEFINE f == Frame(kind, s)
           u == Append(t, f)
           n == Len(t)
<1>1. f \in Frames /\ f.is = kind
  BY DEF Frame, Frames
<1>2. t \in Seq(Frames) /\ DOMAIN t = 1 .. n /\ n \in Nat
  BY LenProperties DEF StackOK
<1>3. /\ u \in Seq(Frames) /\ Len(u) = n + 1
      /\ \A i \in 1 .. n : u[i] = t[i]
      /\ u[n + 1] = f
  BY <1>1, <1>2, AppendFacts
<1> HIDE DEF u, f
<1>4. n > 0 => t[n].is \in Under[kind]
  <2> SUFFICES ASSUME n > 0 PROVE t[n].is \in Under[kind]
    OBVIOUS
  <2>1. t # <<>> /\ n \in 1 .. n
    BY <1>2, EmptySeq
  <2>2. TopOf(t) = t[n].is /\ t[n] \in Frames
    BY <1>2, <2>1, ElementOfSeq DEF TopOf, Last
  <2>3. t[n].is # None
    BY <2>2 DEF Frames, Kinds, None
  <2> QED
    BY <2>2, <2>3
<1>5. Stands(u)
  <2> SUFFICES ASSUME NEW i \in 1 .. n  PROVE u[i].is \in Under[u[i + 1].is]
    BY <1>2, <1>3 DEF Stands
  <2>1. CASE i = n
    <3>1. n > 0
      BY <1>2, <2>1
    <3>2. u[i] = t[n] /\ u[i + 1] = f
      BY <2>1, <1>3
    <3> QED
      BY <3>1, <3>2, <1>1, <1>4
  <2>2. CASE i # n
    <3>1. i \in 1 .. n - 1 /\ i + 1 \in 1 .. n
      <4>1. ASSUME NEW m \in Nat, NEW k \in 1 .. m, k # m
            PROVE  k \in 1 .. m - 1 /\ k + 1 \in 1 .. m
        BY <4>1
      <4>2. n \in Nat
        BY <1>2
      <4> HIDE DEF n
      <4> QED
        BY <2>2, <4>1, <4>2
    <3>2. u[i] = t[i] /\ u[i + 1] = t[i + 1]
      BY <3>1, <1>3
    <3>3. t[i].is \in Under[t[i + 1].is]
      BY <3>1 DEF Stands, n
    <3> QED
      BY <3>2, <3>3
  <2> QED
    BY <2>1, <2>2
<1>6. OnePause(u)
  <2> SUFFICES ASSUME NEW i \in 1 .. n + 1, NEW j \in 1 .. n + 1,
                      PauseAt(u, i), PauseAt(u, j)
               PROVE  i = j
    BY <1>3 DEF OnePause
  <2>1. ASSUME NEW k \in 1 .. n, PauseAt(u, k)
        PROVE  PauseAt(t, k) /\ kind \notin {"pausing", "loop"}
    <3>1. PauseAt(t, k)
      BY <2>1, <1>3 DEF PauseAt
    <3>2. OnOf(t, "pausing") \/ OnOf(t, "loop")
      BY <3>1, <1>2 DEF PauseAt, OnOf
    <3> QED
      BY <3>1, <3>2
  <2>2. PauseAt(u, n + 1) => kind \in {"pausing", "loop"}
    BY <1>1, <1>3 DEF PauseAt
  <2>3. (i \in 1 .. n \/ i = n + 1) /\ (j \in 1 .. n \/ j = n + 1)
    BY <1>2
  <2>4. CASE i \in 1 .. n /\ j \in 1 .. n
    BY <2>1, <2>4 DEF OnePause
  <2>5. CASE i = n + 1 \/ j = n + 1
    BY <2>1, <2>2, <2>3, <2>5
  <2> QED
    BY <2>3, <2>4, <2>5
<1>7. TopOf(u) = kind
  <2>1. u # <<>> /\ Last(u) = f
    BY <1>2, <1>3, EmptySeq DEF Last
  <2> QED
    BY <2>1, <1>1 DEF TopOf
<1> QED
  BY <1>5, <1>6, <1>7 DEF u, f

LEMMA StandsPop ==
  ASSUME NEW t, StackOK(t), Stands(t), OnePause(t), t # <<>>
  PROVE  /\ Stands(Front(t)) /\ OnePause(Front(t))
         /\ TopOf(Front(t)) \in Under[TopOf(t)] \cup {None}
         /\ TopOf(t) \in {"pausing", "loop"} =>
              ~OnOf(Front(t), "pausing") /\ ~OnOf(Front(t), "loop")
<1> DEFINE u == Front(t)
           n == Len(t)
<1>1. t \in Seq(Frames)
  BY DEF StackOK
<1>2. /\ u \in Seq(Frames) /\ n \in Nat /\ n >= 1 /\ Len(u) = n - 1
      /\ \A i \in 1 .. n - 1 : u[i] = t[i]
  BY <1>1, Popped
<1>3. TopOf(t) = t[n].is
  BY DEF TopOf, Last
<1>4. DOMAIN u = 1 .. n - 1
  BY <1>2, LenProperties
<1> HIDE DEF u, n
<1>5. Stands(u)
  <2> SUFFICES ASSUME NEW i \in 1 .. (n - 1) - 1  PROVE u[i].is \in Under[u[i + 1].is]
    BY <1>2 DEF Stands
  <2>1. i \in 1 .. n - 1 /\ i + 1 \in 1 .. n - 1
    BY <1>2
  <2> QED
    BY <2>1, <1>2 DEF Stands, n
<1>6. \A i \in 1 .. n - 1 : i \in 1 .. n /\ i # n /\ (PauseAt(u, i) <=> PauseAt(t, i))
  BY <1>2 DEF PauseAt
<1>7. OnePause(u)
  BY <1>2, <1>6 DEF OnePause, n
<1>8. TopOf(u) \in Under[TopOf(t)] \cup {None}
  <2>1. CASE n = 1
    <3>1. u = <<>>
      BY <2>1, <1>2, EmptySeq
    <3> QED
      BY <3>1 DEF TopOf
  <2>2. CASE n > 1
    <3>1. n - 1 \in 1 .. n - 1 /\ (n - 1) + 1 = n
      BY <2>2, <1>2
    <3>2. u # <<>>
      BY <2>2, <1>2, EmptySeq
    <3>3. TopOf(u) = t[n - 1].is
      BY <3>1, <3>2, <1>2 DEF TopOf, Last
    <3>4. t[n - 1].is \in Under[t[n].is]
      BY <3>1 DEF Stands, n
    <3> QED
      BY <3>3, <3>4, <1>3
  <2> QED
    BY <2>1, <2>2, <1>2
<1>9. ASSUME TopOf(t) \in {"pausing", "loop"}
      PROVE  ~OnOf(u, "pausing") /\ ~OnOf(u, "loop")
  <2>1. PauseAt(t, n) /\ n \in 1 .. n
    BY <1>2, <1>3, <1>9 DEF PauseAt
  <2>2. \A i \in 1 .. n - 1 : ~PauseAt(u, i)
    BY <2>1, <1>6 DEF OnePause, n
  <2> QED
    BY <2>2, <1>4 DEF PauseAt, OnOf
<1> QED
  BY <1>5, <1>7, <1>8, <1>9 DEF u

(* While V8 tells the sessions of a pause, only a send is above it.        *)
LEMMA NotPausing ==
  ASSUME NEW t, StackOK(t), Stands(t), TopOf(t) \notin {"pausing", "send"}
  PROVE  ~OnOf(t, "pausing")
<1> SUFFICES ASSUME OnOf(t, "pausing") PROVE FALSE
  OBVIOUS
<1> DEFINE n == Len(t)
<1>1. t \in Seq(Frames) /\ DOMAIN t = 1 .. n /\ n \in Nat
  BY LenProperties DEF StackOK
<1>2. PICK i \in 1 .. n : t[i].is = "pausing"
  BY <1>1 DEF OnOf
<1>3. t # <<>> /\ TopOf(t) = t[n].is
  <2>1. t # <<>>
    BY <1>1, <1>2, EmptySeq
  <2> QED
    BY <2>1 DEF TopOf, Last
<1>4. i # n
  BY <1>2, <1>3
<1>5. i \in 1 .. n - 1 /\ i + 1 \in 1 .. n
  <2>1. ASSUME NEW m \in Nat, NEW k \in 1 .. m, k # m
        PROVE  k \in 1 .. m - 1 /\ k + 1 \in 1 .. m
    BY <2>1
  <2>2. n \in Nat
    BY <1>1
  <2> HIDE DEF n
  <2> QED
    BY <1>4, <2>1, <2>2
<1>6. t[i + 1] \in Frames /\ t[i].is \in Under[t[i + 1].is]
  <2>1. t[i + 1] \in Frames
    BY <1>1, <1>5, ElementOfSeq
  <2> QED
    BY <2>1, <1>5 DEF Stands
<1>7. t[i + 1].is = "send"
  <2>1. \A k \in Kinds : "pausing" \in Under[k] => k = "send"
    BY DEF Kinds, Under
  <2>2. t[i + 1].is \in Kinds
    BY <1>6 DEF Frames
  <2> QED
    BY <2>1, <2>2, <1>2, <1>6
<1>8. i + 1 = n
  BY <1>1, <1>5, <1>7 DEF StackOK
<1> QED
  BY <1>3, <1>7, <1>8

(* A step that leaves the sessions alone.                                  *)
LEMMA StillEndable ==
  ASSUME PauseInv, UNCHANGED <<sessions, short>>,
         Stands(stack'), OnePause(stack'), Clear(stack', stopping, doomed),
         \A k \in {"pausing", "loop"} : OnOf(stack', k) => OnOf(stack, k)
  PROVE  PauseInv'
<1>1. UNCHANGED <<session, half, stopping, doomed, quit, short>>
  BY DEF sessions
<1>2. Endable(stack', half, quit, short)
  BY DEF PauseInv, Endable
<1> QED
  BY <1>1, <1>2 DEF PauseInv

(* A step that settles where nothing is being sent, and tells the loop to  *)
(* quit if nobody is left.                                                 *)
LEMMA SettledEndable ==
  ASSUME IInv, PauseInv, Top \notin {"pausing", "send"},
         UNCHANGED <<session, short>>, half' = Settled, SettleLists,
         quit \/ NobodyLeft(Settled) => quit',
         Stands(stack'), OnePause(stack'), ~OnOf(stack', "pausing"),
         OnOf(stack', "loop") => OnOf(stack, "loop")
  PROVE  PauseInv'
<1>1. StackOK(stack) /\ SessionsOK(session, half, stopping, doomed) /\ Settling
  BY TopFacts DEF IInv, Settling, Notifying
<1>2. stopping' = {} /\ doomed' = {}
  BY <1>1, SettleFacts
<1>3. Clear(stack', stopping', doomed')
  BY <1>2 DEF Clear
<1>4. InUse(session', half', stopping', doomed')
  <2> SUFFICES ASSUME NEW s \in Sessions, Settled[s] \in {"off", "on"}
               PROVE  session[s] = "open"
    BY DEF InUse
  <2>1. s \notin doomed /\ s \notin stopping /\ Settled[s] = half[s]
    BY <1>1 DEF Settled
  <2> QED
    BY <2>1 DEF PauseInv, InUse
<1>5. Endable(stack', half', quit', short')
  <2> SUFFICES ASSUME OnOf(stack, "loop"), ~SomeOn(Settled), "place" \notin short
               PROVE  quit'
    BY DEF Endable
  <2>1. quit \/ SomeOn(half)
    BY DEF PauseInv, Endable
  <2>2. Paused
    BY <1>1, TopFacts DEF Paused
  <2>3. SomeOn(half) => NobodyLeft(Settled)
    BY <2>2 DEF SomeOn, NobodyLeft
  <2> QED
    BY <2>1, <2>3
<1> QED
  BY <1>3, <1>4, <1>5 DEF PauseInv

LEMMA TopIs == Top = TopOf(stack)
  BY DEF Top, TopOf

LEMMA PushStands ==
  ASSUME IInv, PauseInv, NEW kind \in Kinds, NEW s \in Sessions \cup {None},
         Push(kind, s), Top # "send", kind = "dispatch" => s \in Sessions,
         Top \in Under[kind] \cup {None},
         kind \in {"pausing", "loop"} => ~OnOf(stack, "pausing") /\ ~OnOf(stack, "loop")
  PROVE  /\ Stands(stack') /\ OnePause(stack') /\ TopOf(stack') = kind
         /\ \A k : OnOf(stack', k) <=> OnOf(stack, k) \/ k = kind
<1>1. StackOK(stack) /\ Stands(stack) /\ OnePause(stack)
  BY DEF IInv, PauseInv
<1>2. stack' = Append(stack, Frame(kind, s))
  BY DEF Push
<1>3. \A k : OnOf(stack', k) <=> OnOf(stack, k) \/ k = kind
  BY PushStep
<1> QED
  BY <1>1, <1>2, <1>3, TopIs, StandsPush

LEMMA PopStands ==
  ASSUME IInv, PauseInv, Top # None, Pop
  PROVE  /\ Stands(stack') /\ OnePause(stack')
         /\ TopOf(stack') \in Under[Top] \cup {None}
         /\ \A k : OnOf(stack, k) <=> OnOf(stack', k) \/ k = Top
         /\ Top \in {"pausing", "loop"} => ~OnOf(stack', "pausing") /\ ~OnOf(stack', "loop")
<1>1. StackOK(stack) /\ Stands(stack) /\ OnePause(stack) /\ stack # <<>>
  BY TopFacts DEF IInv, PauseInv
<1>2. stack' = Front(stack)
  BY DEF Pop
<1>3. \A k : OnOf(stack, k) <=> OnOf(stack', k) \/ k = Top
  BY PopStep
<1> QED
  BY <1>1, <1>2, <1>3, TopIs, StandsPop

-----------------------------------------------------------------------------
(* The steps, by what they do to a pause.                                  *)

LEMMA DispatchEndable ==
  ASSUME IInv, PauseInv, DispatchJob \/ DispatchInterrupt  PROVE PauseInv'
<1>1. /\ Top \in {None, "loop", "script"} /\ BeginDrain /\ Push("drain", None)
      /\ UNCHANGED <<session, short>>
  BY DEF DispatchJob, DispatchInterrupt, BeginDrain
<1>2. Top \notin {"pausing", "send"} /\ Top \in Under["drain"] \cup {None}
  BY <1>1 DEF None, Under
<1>3. /\ Stands(stack') /\ OnePause(stack') /\ TopOf(stack') = "drain"
      /\ \A k : OnOf(stack', k) <=> OnOf(stack, k) \/ k = "drain"
  BY <1>1, <1>2, PushStands DEF Kinds
<1>4. ~OnOf(stack, "pausing")
  BY <1>2, NotPausing, TopIs DEF IInv, PauseInv
<1>5. CASE alive
  <2>1. half' = Settled /\ SettleLists /\ quit' = (quit \/ NobodyLeft(Settled))
    BY <1>1, <1>5 DEF BeginDrain, Settle
  <2>2. quit \/ NobodyLeft(Settled) => quit'
    BY <2>1, Zenon
  <2> QED
    BY <1>1, <1>2, <1>3, <1>4, <2>1, <2>2, SettledEndable
<1>6. CASE ~alive
  <2>1. UNCHANGED <<half, quit, stopping, doomed>>
    BY <1>1, <1>6 DEF BeginDrain
  <2>2. stopping = {} /\ doomed = {}
    BY <1>6 DEF IInv, NothingLeft
  <2>3. UNCHANGED <<sessions, short>>
    BY <1>1, <2>1 DEF sessions
  <2>4. Clear(stack', stopping, doomed)
    BY <2>2 DEF Clear
  <2> QED
    BY <1>3, <2>3, <2>4, StillEndable
<1> QED
  BY <1>5, <1>6

LEMMA CallbackEndable ==
  ASSUME IInv, PauseInv, StartCallback \/ RequestDispatch  PROVE PauseInv'
<1>1. CASE UNCHANGED stack
  <2>1. UNCHANGED <<sessions, short>>
    BY DEF StartCallback, RequestDispatch
  <2>2. Stands(stack') /\ OnePause(stack') /\ Clear(stack', stopping, doomed)
    BY <1>1 DEF PauseInv
  <2> QED
    BY <1>1, <2>1, <2>2, StillEndable
<1>2. CASE StartCallback /\ Push("callback", None)
  <2>1. Top = "drain" /\ UNCHANGED <<sessions, short>>
    BY <1>2 DEF StartCallback
  <2>2. /\ Stands(stack') /\ OnePause(stack')
        /\ \A k : OnOf(stack', k) <=> OnOf(stack, k) \/ k = "callback"
    <3>1. "drain" \in Under["callback"] /\ "callback" \in Kinds
      BY DEF Under, Kinds
    <3> QED
      BY <1>2, <2>1, <3>1, PushStands
  <2>3. stopping = {} /\ doomed = {}
    BY <2>1, TopIs DEF PauseInv, Clear
  <2>4. Clear(stack', stopping, doomed)
    BY <2>3 DEF Clear
  <2> QED
    BY <2>1, <2>2, <2>4, StillEndable
<1> QED
  BY <1>1, <1>2 DEF StartCallback, RequestDispatch

LEMMA ReturnEndable ==
  ASSUME IInv, PauseInv, CallbackReturns \/ DrainEnds \/ ScriptEnds \/ SendReturns
  PROVE  PauseInv'
<1>1. /\ Top \in {"callback", "drain", "script", "send"} /\ Pop
      /\ UNCHANGED <<sessions, short>>
  BY DEF CallbackReturns, DrainEnds, ScriptEnds, SendReturns
<1>2. /\ Stands(stack') /\ OnePause(stack')
      /\ TopOf(stack') \in Under[Top] \cup {None}
      /\ \A k : OnOf(stack, k) <=> OnOf(stack', k) \/ k = Top
  BY <1>1, PopStands DEF None
<1>3. Clear(stack', stopping, doomed)
  <2>1. CASE Top \in {"callback", "drain"}
    BY <2>1, TopIs DEF PauseInv, Clear
  <2>2. CASE Top = "script"
    <3>1. TopOf(stack') \in {"dispatch", None}
      BY <2>2, <1>2 DEF Under
    <3> QED
      BY <3>1 DEF Clear, None
  <2>3. CASE Top = "send"
    <3>1. TopOf(stack') \in {"script", "dispatch", "announce", "pausing", None}
      BY <2>3, <1>2 DEF Under
    <3> QED
      BY <3>1 DEF Clear, None
  <2> QED
    BY <1>1, <2>1, <2>2, <2>3
<1> QED
  BY <1>1, <1>2, <1>3, StillEndable

LEMMA EnterEndable ==
  ASSUME IInv, PauseInv, RunScript \/ Evaluate \/ \E s \in Sessions : SendNotification(s)
  PROVE  PauseInv'
<1>1. PICK kind \in {"script", "send"}, s \in Sessions \cup {None} :
        /\ Top # "send" /\ Push(kind, s) /\ Top \in Under[kind] \cup {None}
        /\ UNCHANGED <<sessions, short>>
  BY DEF RunScript, Evaluate, SendNotification, None, Under
<1>2. kind \in Kinds /\ kind \notin {"dispatch", "pausing", "loop", "drain", "callback"}
  BY DEF Kinds
<1>3. /\ Stands(stack') /\ OnePause(stack') /\ TopOf(stack') = kind
      /\ \A k : OnOf(stack', k) <=> OnOf(stack, k) \/ k = kind
  BY <1>1, <1>2, PushStands
<1>4. Clear(stack', stopping, doomed)
  BY <1>2, <1>3 DEF Clear
<1>5. \A k \in {"pausing", "loop"} : OnOf(stack', k) => OnOf(stack, k)
  BY <1>2, <1>3
<1> QED
  BY <1>1, <1>3, <1>4, <1>5, StillEndable

(* V8 pauses for a session with its debugger on.                           *)
LEMMA PauseEndable ==
  ASSUME IInv, PauseInv, Pause  PROVE PauseInv'
<1>1. /\ Top = "script" /\ ~Paused /\ SomeOn(half) /\ Push("pausing", None)
      /\ UNCHANGED <<sessions, short>>
  BY DEF Pause, SomeOn
<1>2. ~OnOf(stack, "pausing") /\ ~OnOf(stack, "loop")
  BY <1>1, TopFacts DEF IInv, Paused
<1>3. "script" \in Under["pausing"] /\ "pausing" \in Kinds
  BY DEF Under, Kinds
<1>4. /\ Stands(stack') /\ OnePause(stack') /\ TopOf(stack') = "pausing"
      /\ \A k : OnOf(stack', k) <=> OnOf(stack, k) \/ k = "pausing"
  BY <1>1, <1>2, <1>3, PushStands
<1>5. UNCHANGED <<session, half, stopping, doomed, quit, short>>
  BY <1>1 DEF sessions
<1>6. Endable(stack', half, quit, short)
  BY <1>1 DEF Endable
<1>7. Clear(stack', stopping, doomed)
  BY <1>4 DEF Clear
<1> QED
  BY <1>4, <1>5, <1>6, <1>7 DEF PauseInv

(* The loop takes the place of the telling: what was put off is done       *)
(* first, and it is not started for nobody.                                *)
LEMMA SettledInUse ==
  ASSUME IInv, PauseInv, Settling
  PROVE  \A s \in Sessions : Settled[s] \in {"off", "on"} => session[s] = "open"
<1> SUFFICES ASSUME NEW s \in Sessions, Settled[s] \in {"off", "on"}
             PROVE  session[s] = "open"
  OBVIOUS
<1>1. s \notin doomed /\ s \notin stopping /\ Settled[s] = half[s]
  BY DEF Settled
<1> QED
  BY <1>1 DEF PauseInv, InUse

LEMMA LoopEndable ==
  ASSUME IInv, PauseInv, RunMessageLoopOnPause  PROVE PauseInv'
<1>1. /\ Top = "pausing" /\ SettleLists /\ half' = Settled
      /\ UNCHANGED <<session, short>>
  BY DEF RunMessageLoopOnPause
<1>2. /\ StackOK(stack) /\ Stands(stack) /\ OnePause(stack) /\ stack # <<>>
      /\ Last(stack).is = "pausing" /\ Settling
  BY <1>1, TopFacts DEF IInv, PauseInv, Settling, Notifying, None
<1>3. stopping' = {} /\ doomed' = {}
  BY <1>1, <1>2 DEF SettleLists
<1>4. InUse(session', half', stopping', doomed')
  BY <1>1, <1>2, SettledInUse DEF InUse
<1>5. Clear(stack', stopping', doomed')
  BY <1>3 DEF Clear
<1> DEFINE u == Front(stack)
<1>6. /\ StackOK(u) /\ ~OnOf(u, "send") /\ Stands(u) /\ OnePause(u)
      /\ TopOf(u) \in Under["pausing"] \cup {None}
      /\ ~OnOf(u, "pausing") /\ ~OnOf(u, "loop")
  BY <1>1, <1>2, TopIs, PopFacts, StandsPop
<1> HIDE DEF u
<1>7. CASE stack' = u
  BY <1>4, <1>5, <1>6, <1>7 DEF PauseInv, Endable
<1>8. CASE stack' = Append(u, Frame("loop", None)) /\ ~NobodyLeft(Settled)
  <2>1. TopOf(u) \in Under["loop"] \cup {None} /\ "loop" \in Kinds
    BY <1>6 DEF Under, Kinds
  <2>2. Stands(stack') /\ OnePause(stack')
    BY <1>6, <1>8, <2>1, StandsPush
  <2>3. ~OnOf(stack', "pausing")
    BY <1>6, <1>8, <2>1, PushFacts
  <2>4. Paused /\ OnOf(stack, "pausing")
    BY <1>1, <1>2, PopFacts, TopFacts DEF Paused
  <2>5. "place" \in short \/ SomeOn(half)
    BY <2>4 DEF PauseInv, Endable
  <2>6. SomeOn(half) => SomeOn(Settled)
    BY <2>4, <1>8 DEF NobodyLeft, SomeOn
  <2>7. Endable(stack', half', quit', short')
    BY <2>3, <2>5, <2>6, <1>1 DEF Endable
  <2> QED
    BY <1>4, <1>5, <2>2, <2>7 DEF PauseInv
<1> QED
  BY <1>7, <1>8 DEF RunMessageLoopOnPause, Pop, u

LEMMA LoopReturnsEndable ==
  ASSUME IInv, PauseInv, LoopReturns  PROVE PauseInv'
<1>1. Top = "loop" /\ Pop /\ UNCHANGED <<session, half, stopping, doomed, short>>
  BY DEF LoopReturns
<1>2. /\ Stands(stack') /\ OnePause(stack')
      /\ ~OnOf(stack', "pausing") /\ ~OnOf(stack', "loop")
  BY <1>1, PopStands DEF None
<1>3. stopping = {} /\ doomed = {}
  BY <1>1, TopIs DEF PauseInv, Clear
<1>4. Clear(stack', stopping, doomed)
  BY <1>3 DEF Clear
<1>5. InUse(session, half, stopping, doomed)
  BY DEF PauseInv
<1>6. Endable(stack', half', quit', short')
  BY <1>2 DEF Endable
<1> QED
  BY <1>1, <1>2, <1>4, <1>5, <1>6 DEF PauseInv

(* A message or a realm is announced, from the embedder's code; and what   *)
(* was put off is done before, and after.                                  *)
LEMMA AnnouncedEndable ==
  ASSUME IInv, PauseInv,
         AnnounceRealm \/ \E s \in Sessions : DispatchProtocolMessage(s)
  PROVE  PauseInv'
<1>1. PICK kind \in {"dispatch", "announce"}, s \in Sessions \cup {None} :
        /\ InHost /\ Settle /\ Push(kind, s) /\ UNCHANGED <<session, short>>
        /\ kind = "dispatch" => s \in Sessions
  BY DEF AnnounceRealm, DispatchProtocolMessage
<1>2. Top \in {None, "callback", "loop"}
  BY <1>1 DEF InHost
<1>3. Top \notin {"pausing", "send"} /\ Top \in Under[kind] \cup {None}
      /\ kind \in Kinds /\ kind \notin {"pausing", "loop"}
  BY <1>1, <1>2 DEF None, Under, Kinds
<1>4. /\ Stands(stack') /\ OnePause(stack')
      /\ \A k : OnOf(stack', k) <=> OnOf(stack, k) \/ k = kind
  BY <1>1, <1>3, PushStands
<1>5. ~OnOf(stack, "pausing")
  BY <1>3, NotPausing, TopIs DEF IInv, PauseInv
<1>6. half' = Settled /\ SettleLists /\ quit' = (quit \/ NobodyLeft(Settled))
  BY <1>1 DEF Settle
<1>7. quit \/ NobodyLeft(Settled) => quit'
  BY <1>6, Zenon
<1> QED
  BY <1>1, <1>3, <1>4, <1>5, <1>6, <1>7, SettledEndable

LEMMA AnsweredEndable ==
  ASSUME IInv, PauseInv, Answered  PROVE PauseInv'
<1>1. /\ Top \in {"dispatch", "announce"} /\ Pop
      /\ half' = Settled /\ SettleLists /\ UNCHANGED <<session, short>>
  BY DEF Answered
<1>2. Top \notin {"pausing", "send", None}
  BY <1>1 DEF None
<1>3. /\ Stands(stack') /\ OnePause(stack')
      /\ \A k : OnOf(stack, k) <=> OnOf(stack', k) \/ k = Top
  BY <1>1, <1>2, PopStands
<1>4. ~OnOf(stack, "pausing")
  BY <1>2, NotPausing, TopIs DEF IInv, PauseInv
<1>5. quit \/ NobodyLeft(Settled) => quit'
  BY Zenon DEF Answered
<1> QED
  BY <1>1, <1>2, <1>3, <1>4, <1>5, SettledEndable

LEMMA ResumeEndable ==
  ASSUME IInv, PauseInv, NEW s \in Sessions, Resume(s)  PROVE PauseInv'
<1>1. /\ InHost /\ half' = Settled /\ SettleLists /\ UNCHANGED <<session, short, stack>>
  BY DEF Resume
<1>2. Top \notin {"pausing", "send"}
  BY <1>1 DEF InHost, None
<1>3. Stands(stack') /\ OnePause(stack')
  BY <1>1 DEF PauseInv
<1>4. ~OnOf(stack, "pausing")
  BY <1>2, NotPausing, TopIs DEF IInv, PauseInv
<1>5. quit \/ NobodyLeft(Settled) => quit'
  BY Zenon DEF Resume
<1> QED
  BY <1>1, <1>2, <1>3, <1>4, <1>5, SettledEndable

(* V8 at a message turns a debugger on or off, or lets script go on.       *)
LEMMA DebuggerEndable ==
  ASSUME IInv, PauseInv, DebuggerEnable \/ DebuggerDisable \/ DebuggerResume
  PROVE  PauseInv'
<1>1. Top = "dispatch" /\ UNCHANGED <<session, stopping, doomed, stack, short>>
  BY DEF DebuggerEnable, DebuggerDisable, DebuggerResume
<1>2. Stands(stack') /\ OnePause(stack') /\ Clear(stack', stopping', doomed')
  BY <1>1 DEF PauseInv
<1>3. StackOK(stack) /\ ~OnOf(stack, "pausing")
  BY <1>1, NotPausing, TopIs DEF IInv, PauseInv
<1>4. half \in [Sessions -> {"none", "off", "on", "stopped"}]
  BY DEF IInv, SessionsOK
<1>5. \A s \in Sessions : half'[s] \in {"off", "on"} => half[s] \in {"off", "on"}
  BY <1>4 DEF DebuggerEnable, DebuggerDisable, DebuggerResume
<1>6. InUse(session', half', stopping', doomed')
  BY <1>1, <1>5 DEF PauseInv, InUse
<1>7. OnOf(stack, "loop") => quit' \/ "place" \in short \/ SomeOn(half')
  <2> SUFFICES ASSUME OnOf(stack, "loop"), "place" \notin short
               PROVE  quit' \/ SomeOn(half')
    OBVIOUS
  <2>1. quit \/ SomeOn(half)
    BY DEF PauseInv, Endable
  <2>2. Paused
    BY <1>3, TopFacts DEF Paused
  <2>3. CASE DebuggerEnable
    <3>1. quit' = quit /\ \A s \in Sessions : half[s] = "on" => half'[s] = "on"
      BY <2>3, <1>4 DEF DebuggerEnable
    <3> QED
      BY <2>1, <3>1 DEF SomeOn
  <2>4. CASE DebuggerDisable
    <3>1. quit \/ NobodyLeft(half') => quit'
      BY <2>4, Zenon DEF DebuggerDisable
    <3>2. SomeOn(half) => SomeOn(half') \/ NobodyLeft(half')
      BY <2>2 DEF SomeOn, NobodyLeft
    <3> QED
      BY <2>1, <3>1, <3>2
  <2>5. CASE DebuggerResume
    BY <2>5 DEF DebuggerResume
  <2> QED
    BY <2>3, <2>4, <2>5
<1>8. Endable(stack', half', quit', short')
  BY <1>1, <1>3, <1>7 DEF Endable
<1> QED
  BY <1>2, <1>6, <1>8 DEF PauseInv

(* Sessions come and go.                                                   *)
LEMMA ConnectEndable ==
  ASSUME IInv, PauseInv, NEW s \in Sessions, Connect(s)  PROVE PauseInv'
<1>1. /\ session[s] = "new" /\ session' = [session EXCEPT ![s] = "open"]
      /\ half' = [Settled EXCEPT ![s] = "off"] /\ SettleLists
      /\ UNCHANGED <<stack, short>>
      /\ Top \in {None, "callback", "loop", "send"}
  BY DEF Connect, InHost
<1>2. StackOK(stack) /\ SessionsOK(session, half, stopping, doomed)
  BY DEF IInv
<1>3. SessionsOK(session, Settled, stopping', doomed')
  BY <1>1, <1>2, SettleFacts
<1>4. half[s] = "none" /\ Settled[s] = "none"
  BY <1>1, <1>2, <1>3 DEF SessionsOK
<1>5. /\ session' \in [Sessions -> {"new", "open", "stopped", "gone"}]
      /\ session'[s] = "open" /\ half'[s] = "off"
      /\ \A q \in Sessions \ {s} : session'[q] = session[q] /\ half'[q] = Settled[q]
  BY <1>1, <1>2, <1>3 DEF SessionsOK
<1>6. Stands(stack') /\ OnePause(stack')
  BY <1>1 DEF PauseInv
<1>7. Clear(stack', stopping', doomed')
  BY <1>1 DEF PauseInv, Clear, SettleLists
<1>8. InUse(session', half', stopping', doomed')
  <2>1. CASE Settling
    <3>1. \A q \in Sessions : Settled[q] \in {"off", "on"} => session[q] = "open"
      BY <2>1, SettledInUse
    <3> QED
      BY <3>1, <1>5 DEF InUse
  <2>2. CASE ~Settling
    <3>1. Settled = half /\ stopping' = stopping /\ doomed' = doomed
      BY <1>1, <1>2, <2>2, SettleFacts
    <3> QED
      BY <3>1, <1>5 DEF PauseInv, InUse
  <2> QED
    BY <2>1, <2>2
<1>9. (quit \/ NobodyLeft(Settled)) => quit'
  BY Zenon DEF Connect
<1>10. SomeOn(Settled) => SomeOn(half')
  BY <1>4, <1>5 DEF SomeOn
<1>11. Endable(stack', half', quit', short')
  <2>1. CASE Top = "send"
    <3>1. Settled = half
      <4>1. On("send")
        BY <2>1, <1>2, TopFacts, PopFacts DEF None
      <4>2. ~Settling
        BY <4>1 DEF Settling, Notifying
      <4> QED
        BY <4>2, <1>1, <1>2, SettleFacts
    <3> QED
      BY <3>1, <1>1, <1>9, <1>10 DEF PauseInv, Endable
  <2>2. CASE Top # "send"
    <3>1. ~OnOf(stack, "pausing")
      BY <2>2, <1>1, <1>2, NotPausing, TopIs DEF PauseInv, None
    <3>2. OnOf(stack, "loop") /\ SomeOn(half) => SomeOn(Settled) \/ NobodyLeft(Settled)
      BY <1>2, TopFacts DEF SomeOn, NobodyLeft, Paused
    <3> QED
      BY <3>1, <3>2, <1>1, <1>9, <1>10 DEF PauseInv, Endable
  <2> QED
    BY <2>1, <2>2
<1> QED
  BY <1>6, <1>7, <1>8, <1>11 DEF PauseInv

(* Stopped or destroyed: put aside in a send, or at once - and then, in a  *)
(* send, for want of memory.                                               *)
LEMMA AsideEndable ==
  ASSUME IInv, PauseInv, Notifying, NEW s \in Sessions,
         \A q \in Sessions \ {s} : session'[q] = session[q],
         UNCHANGED <<half, quit, stack>>, short \subseteq short',
         stopping \subseteq stopping' \cup doomed', doomed \subseteq doomed',
         s \in stopping' \cup doomed'
  PROVE  PauseInv'
<1>1. StackOK(stack) /\ Top = "send"
  BY TopFacts DEF IInv, Notifying
<1>2. Clear(stack', stopping', doomed')
  BY <1>1, TopIs DEF Clear
<1>3. InUse(session', half', stopping', doomed')
  <2> SUFFICES ASSUME NEW q \in Sessions, half[q] \in {"off", "on"}
               PROVE  session'[q] = "open" \/ q \in stopping' \/ q \in doomed'
    BY DEF InUse
  <2>1. CASE q = s
    BY <2>1
  <2>2. CASE q # s
    <3>1. session[q] = "open" \/ q \in stopping \/ q \in doomed
      BY DEF PauseInv, InUse
    <3>2. session'[q] = session[q]
      BY <2>2
    <3> QED
      BY <3>1, <3>2
  <2> QED
    BY <2>1, <2>2
<1>4. Endable(stack', half', quit', short')
  BY DEF PauseInv, Endable
<1> QED
  BY <1>2, <1>3, <1>4 DEF PauseInv

LEMMA AtOnceEndable ==
  ASSUME IInv, PauseInv, InHost \/ Top = "send",
         NEW s \in Sessions, NEW h \in {"none", "stopped"}, AtOnce(s, h),
         \A q \in Sessions \ {s} : session'[q] = session[q],
         stopping' \subseteq stopping, stopping \subseteq stopping' \cup {s},
         UNCHANGED stack
  PROVE  PauseInv'
<1>1. /\ half' = [half EXCEPT ![s] = h] /\ UNCHANGED doomed
      /\ short' = IF Notifying THEN short \cup {"place"} ELSE short
  BY DEF AtOnce
<1>2. StackOK(stack) /\ half \in [Sessions -> {"none", "off", "on", "stopped"}]
  BY DEF IInv, SessionsOK
<1>3. half'[s] = h /\ \A q \in Sessions \ {s} : half'[q] = half[q]
  BY <1>1, <1>2
<1>4. Clear(stack', stopping', doomed')
  BY <1>1 DEF PauseInv, Clear
<1>5. InUse(session', half', stopping', doomed')
  <2> SUFFICES ASSUME NEW q \in Sessions, half'[q] \in {"off", "on"}
               PROVE  session'[q] = "open" \/ q \in stopping' \/ q \in doomed'
    BY DEF InUse
  <2>1. q # s
    BY <1>3
  <2>2. half'[q] = half[q] /\ session'[q] = session[q]
    BY <2>1, <1>3
  <2>3. session[q] = "open" \/ q \in stopping \/ q \in doomed
    BY <2>2 DEF PauseInv, InUse
  <2> QED
    BY <2>1, <2>2, <2>3, <1>1
<1>6. quit \/ NobodyLeft(half') => quit'
  BY Zenon DEF AtOnce
<1>7. Endable(stack', half', quit', short')
  <2>1. CASE Notifying
    BY <2>1, <1>1 DEF Endable
  <2>2. CASE ~Notifying
    <3>1. ~OnOf(stack, "pausing")
      <4>1. Top = "send" => On("send")
        BY <1>2, TopFacts, PopFacts DEF None
      <4>2. InHost
        BY <2>2, <4>1 DEF Notifying
      <4> QED
        BY <4>2, <1>2, NotPausing, TopIs DEF PauseInv, InHost, None
    <3>2. OnOf(stack, "loop") /\ SomeOn(half) => SomeOn(half') \/ NobodyLeft(half')
      BY <1>2, TopFacts DEF SomeOn, NobodyLeft, Paused
    <3> QED
      BY <2>2, <3>1, <3>2, <1>1, <1>6 DEF PauseInv, Endable
  <2> QED
    BY <2>1, <2>2
<1> QED
  BY <1>4, <1>5, <1>7 DEF PauseInv

LEMMA GivenUpEndable ==
  ASSUME IInv, PauseInv, NEW s \in Sessions, Stop(s) \/ Destroy(s)  PROVE PauseInv'
<1>1. /\ InHost \/ Top = "send"
      /\ \E how \in {"stopped", "gone"} : session' = [session EXCEPT ![s] = how]
      /\ UNCHANGED stack
  BY DEF Stop, Destroy
<1>2. \A q \in Sessions \ {s} : session'[q] = session[q]
  BY <1>1 DEF IInv, SessionsOK
<1>3. ASSUME Notifying, WakeToSettle, UNCHANGED <<half, quit>>,
             stopping \subseteq stopping' \cup doomed', doomed \subseteq doomed',
             s \in stopping' \cup doomed'
      PROVE  PauseInv'
  <2>1. short \subseteq short'
    BY <1>3 DEF WakeToSettle
  <2> QED
    BY <1>1, <1>2, <1>3, <2>1, AsideEndable
<1>4. CASE Stop(s)
  <2>1. CASE /\ Notifying /\ stopping' = stopping \cup {s}
             /\ WakeToSettle /\ UNCHANGED <<half, doomed, quit>>
    BY <2>1, <1>3
  <2>2. CASE AtOnce(s, "stopped") /\ UNCHANGED stopping
    BY <2>2, <1>1, <1>2, AtOnceEndable
  <2> QED
    BY <1>4, <2>1, <2>2 DEF Stop
<1>5. CASE Destroy(s)
  <2>1. stopping' = stopping \ {s}
    BY <1>5 DEF Destroy
  <2>2. CASE /\ Notifying /\ doomed' = doomed \cup {s}
             /\ WakeToSettle /\ UNCHANGED <<half, quit>>
    BY <2>1, <2>2, <1>3
  <2>3. CASE AtOnce(s, "none")
    BY <2>1, <2>3, <1>1, <1>2, AtOnceEndable
  <2> QED
    BY <1>5, <2>2, <2>3 DEF Destroy
<1> QED
  BY <1>4, <1>5

LEMMA DestroyedEndable ==
  ASSUME IInv, PauseInv, DestroyInspector  PROVE PauseInv'
<1>1. /\ ~Paused /\ stopping' = {} /\ doomed' = {}
      /\ half' = [s \in Sessions |-> "none"]
      /\ UNCHANGED <<session, quit, stack, short>>
  BY DEF DestroyInspector
<1>2. ~OnOf(stack, "pausing") /\ ~OnOf(stack, "loop")
  BY <1>1, TopFacts DEF IInv, Paused
<1>3. Endable(stack', half', quit', short')
  BY <1>1, <1>2 DEF Endable
<1>4. Clear(stack', stopping', doomed') /\ InUse(session', half', stopping', doomed')
  BY <1>1 DEF Clear, InUse
<1> QED
  BY <1>1, <1>3, <1>4 DEF PauseInv

LEMMA InitPauseInv == Init => PauseInv
<1> SUFFICES ASSUME Init  PROVE PauseInv
  OBVIOUS
<1>1. stack = <<>> /\ Len(stack) = 0 /\ DOMAIN stack = 1 .. 0
  BY EmptySeq, LenProperties DEF Init
<1>2. Stands(stack) /\ OnePause(stack)
  BY <1>1 DEF Stands, OnePause
<1>3. Clear(stack, stopping, doomed) /\ InUse(session, half, stopping, doomed)
  BY DEF Init, Clear, InUse
<1>4. Endable(stack, half, quit, short)
  BY <1>1 DEF Endable, OnOf
<1> QED
  BY <1>2, <1>3, <1>4 DEF PauseInv

LEMMA NextPauseInv == IInv /\ PauseInv /\ [Next]_vars => PauseInv'
<1> SUFFICES ASSUME IInv, PauseInv, [Next]_vars  PROVE PauseInv'
  OBVIOUS
<1>1. CASE UNCHANGED vars
  <2>1. UNCHANGED <<session, half, stopping, doomed, quit, stack, short>>
    BY <1>1 DEF vars, sessions
  <2> QED
    BY <2>1 DEF PauseInv
<1>2. CASE Next
  <2>1. CASE RequestDispatch \/ StartCallback
    BY <2>1, CallbackEndable
  <2>2. CASE DispatchJob \/ DispatchInterrupt
    BY <2>2, DispatchEndable
  <2>3. CASE CallbackReturns \/ DrainEnds \/ ScriptEnds \/ SendReturns
    BY <2>3, ReturnEndable
  <2>4. CASE RunScript \/ Evaluate \/ \E s \in Sessions : SendNotification(s)
    BY <2>4, EnterEndable
  <2>5. CASE AnnounceRealm \/ \E s \in Sessions : DispatchProtocolMessage(s)
    BY <2>5, AnnouncedEndable
  <2>6. CASE Pause
    BY <2>6, PauseEndable
  <2>7. CASE RunMessageLoopOnPause
    BY <2>7, LoopEndable
  <2>8. CASE LoopReturns
    BY <2>8, LoopReturnsEndable
  <2>9. CASE DebuggerEnable \/ DebuggerDisable \/ DebuggerResume
    BY <2>9, DebuggerEndable
  <2>10. CASE Answered
    BY <2>10, AnsweredEndable
  <2>11. CASE DestroyInspector
    BY <2>11, DestroyedEndable
  <2>12. ASSUME NEW s \in Sessions, Connect(s) \/ Resume(s) \/ Stop(s) \/ Destroy(s)
         PROVE  PauseInv'
    <3>1. CASE Connect(s)
      BY <3>1, ConnectEndable
    <3>2. CASE Resume(s)
      BY <3>2, ResumeEndable
    <3>3. CASE Stop(s) \/ Destroy(s)
      BY <3>3, GivenUpEndable
    <3> QED
      BY <2>12, <3>1, <3>2, <3>3
  <2> QED
    BY <1>2, <2>1, <2>2, <2>3, <2>4, <2>5, <2>6, <2>7, <2>8, <2>9, <2>10, <2>11,
       <2>12 DEF Next
<1> QED
  BY <1>1, <1>2

(* The pauses of every behaviour: one at a time, of script, with nothing   *)
(* put aside where the embedder's code runs, and with somebody to end it.  *)
THEOREM PauseInvariance == Spec => []PauseInv
<1>1. QED
  BY InitPauseInv, NextPauseInv, Invariance, PTL DEF Spec

(* runMessageLoopOnPause: whatever sessions are stopped, destroyed or turn *)
(* their debugger off, in the loop and in the sends before it, a loop that *)
(* runs has been told to quit or has a session the embedder holds to end   *)
(* it, unless there was no memory to put one aside.                        *)
THEOREM PausesEnd == Spec => []PauseCanBeEnded
<1>1. IInv /\ PauseInv => PauseCanBeEnded
  <2> SUFFICES ASSUME IInv, PauseInv, Top = "loop", ~quit, "place" \notin short
               PROVE  \E s \in Sessions : session[s] = "open" /\ half[s] = "on"
    BY Zenon DEF PauseCanBeEnded
  <2>1. OnOf(stack, "loop")
    BY TopFacts, PopFacts DEF IInv, None
  <2>2. SomeOn(half)
    BY <2>1 DEF PauseInv, Endable
  <2>3. stopping = {} /\ doomed = {}
    BY TopIs DEF PauseInv, Clear
  <2>4. PICK s \in Sessions : half[s] = "on"
    BY <2>2 DEF SomeOn
  <2> QED
    BY <2>3, <2>4 DEF PauseInv, InUse
<1>2. QED
  BY <1>1, Invariance, PauseInvariance, PTL
=============================================================================
