------------------------------ MODULE Inspector ------------------------------
(***************************************************************************)
(* The inspector of the V8 backend: requests from other threads and the    *)
(* one wake-up they share, sessions that go while V8 is in the middle of   *)
(* sending for one, and pauses.                                            *)
(*                                                                         *)
(* V8 goes on using a session's agent after a notification is sent, so a   *)
(* session stopped or destroyed inside one is put aside until none is      *)
(* being sent; a response may be the end of its session at once.           *)
(***************************************************************************)
EXTENDS Naturals, Sequences, SequencesExt

CONSTANTS
  MaxSessions,  \* bound on the sessions connected
  MaxRequests,  \* bound on the requests other threads make
  MaxDepth      \* bound on the frames of the isolate's thread

ASSUME BoundsAssumption == {MaxSessions, MaxRequests, MaxDepth} \subseteq Nat

VARIABLES
  alive,        \* shared.owner is set
  queue,        \* shared.queue
  wakePending,  \* shared.wakePending
  jobs,         \* DispatchJobs posted to the isolate
  interrupts,   \* DispatchInterrupts V8 was asked for
  session,      \* what the embedder holds
  half,         \* V8's half of a session
  stopping,     \* Inspector::Impl::stopping
  doomed,       \* Inspector::Impl::doomed
  stack,        \* frames of the isolate's thread, innermost last
  quit,         \* QuitMessageLoopOnPause was called for this loop
  made,         \* requests taken so far
  short         \* history: what there was no memory for while a session was
                \* put aside: its place ("place"), or a wake-up ("wake")

dispatcher == <<alive, queue, wakePending, jobs, interrupts, made>>
sessions == <<session, half, stopping, doomed, quit>>
vars == <<dispatcher, sessions, stack, short>>

-----------------------------------------------------------------------------
(* Frames: "script"; "drain", a DrainDispatches, and "callback", one       *)
(* request of it; "dispatch", V8 at a message of a session; "announce", V8 *)
(* told of a realm; "send", a client taking a notification; "pausing", V8  *)
(* telling the sessions, and "loop", the client's loop.                    *)
None == "none"

(* Sessions are numbered as they connect.                                  *)
Sessions == 1 .. MaxSessions

Frame(kind, s) == [is |-> kind, of |-> s]
Top == IF stack = <<>> THEN None ELSE Last(stack).is
On(kind) == \E i \in DOMAIN stack : stack[i].is = kind

(* Requests are numbered as they are taken; NothingToDispatch is 0.        *)
Nothing == 0

(* The embedder's code runs, other than in a send.                         *)
InHost == Top \in {None, "callback", "loop"}
Notifying == On("send")
Paused == On("pausing") \/ On("loop")
HasRoom == Len(stack) < MaxDepth

TypeOK ==
  /\ alive \in BOOLEAN /\ quit \in BOOLEAN /\ short \subseteq {"place", "wake"}
  /\ wakePending \in BOOLEAN
  /\ jobs \in Nat /\ interrupts \in Nat /\ made \in 0 .. MaxRequests
  /\ queue \in Seq(0 .. MaxRequests)
  /\ session \in [Sessions -> {"new", "open", "stopped", "gone"}]
  /\ half \in [Sessions -> {"none", "off", "on", "stopped"}]
  /\ \A s \in Sessions :
       /\ s \in doomed => session[s] = "gone" /\ half[s] # "none"
       /\ s \in stopping => session[s] = "stopped" /\ half[s] # "none"
       /\ session[s] = "open" => half[s] \in {"off", "on"}
  /\ ~alive => \A s \in Sessions : half[s] = "none"

Init ==
  /\ alive = TRUE
  /\ queue = <<>>
  /\ wakePending = FALSE
  /\ jobs = 0 /\ interrupts = 0
  /\ session = [s \in Sessions |-> "new"]
  /\ half = [s \in Sessions |-> "none"]
  /\ stopping = {} /\ doomed = {}
  /\ stack = <<>>
  /\ quit = FALSE
  /\ made = 0
  /\ short = {}

Push(kind, s) == HasRoom /\ stack' = Append(stack, Frame(kind, s))
Pop == stack' = Front(stack)

-----------------------------------------------------------------------------
(* V8 ends a pause when the last session with its debugger on goes.        *)
NobodyLeft(h) ==
  /\ Paused
  /\ \E s \in Sessions : half[s] = "on"
  /\ \A s \in Sessions : h[s] # "on"

(* Inspector::Impl::Settle: whether it does anything, and what it leaves of *)
(* V8's halves and of the two lists.                                       *)
SettlingAlways == TRUE  \* mutant: in the middle of a notification, too

Settling == ~Notifying

Settled ==
  [s \in Sessions |-> CASE Settling /\ s \in doomed -> "none"
                        [] Settling /\ s \in stopping \ doomed -> "stopped"
                        [] OTHER -> half[s]]

SettleLists ==
  /\ stopping' = IF Settling THEN {} ELSE stopping
  /\ doomed' = IF Settling THEN {} ELSE doomed

Settle ==
  /\ half' = Settled
  /\ quit' = (quit \/ NobodyLeft(Settled))
  /\ SettleLists

-----------------------------------------------------------------------------
(* InspectorDispatcher::RequestDispatch, under its lock: the request is    *)
(* queued, with a job and an interrupt if no wake-up is on its way.        *)

Taken(r) ==
  /\ queue' = Append(queue, r)
  /\ wakePending' = TRUE
  /\ IF wakePending
     THEN UNCHANGED <<jobs, interrupts>>
     ELSE jobs' = jobs + 1 /\ interrupts' = interrupts + 1

(* Mutant: the job refused, the request stays where it was put.            *)
RefusedKeepsRequest ==
  IF wakePending
  THEN UNCHANGED <<queue, wakePending, jobs, interrupts>>
  ELSE queue' = Append(queue, Nothing) /\ UNCHANGED <<wakePending, jobs, interrupts>>

(* No memory for the entry, or none for the job: the entry comes off again. *)
Refused == UNCHANGED <<queue, wakePending, jobs, interrupts>>

(* From any thread.  With the inspector gone it changes nothing.           *)
RequestDispatch ==
  /\ alive
  /\ made < MaxRequests
  /\ \/ made' = made + 1 /\ Taken(made + 1)
     \/ Refused /\ UNCHANGED made
  /\ UNCHANGED <<alive, sessions, stack, short>>

(* Mutant: nobody is asked to come back.                                   *)
WakeNobody ==
  /\ Refused
  /\ UNCHANGED <<alive, made, short>>

WakeToSettle ==
  /\ \/ Taken(Nothing) /\ UNCHANGED short
     \/ Refused /\ short' = IF wakePending THEN short ELSE short \cup {"wake"}
  /\ UNCHANGED <<alive, made>>

-----------------------------------------------------------------------------
(* DrainDispatches.                                                        *)

(* Mutant: the wake-up is not taken back.                                  *)
BeginDrainKeepingWake ==
  /\ Len(stack) + 1 < MaxDepth
  /\ Push("drain", None)
  /\ IF alive THEN Settle ELSE UNCHANGED <<half, quit, stopping, doomed>>
  /\ UNCHANGED <<alive, queue, wakePending, session, made, short>>

BeginDrain ==
  /\ Len(stack) + 1 < MaxDepth  \* room for its callbacks
  /\ Push("drain", None)
  /\ IF alive
     THEN wakePending' = FALSE /\ Settle
     ELSE UNCHANGED <<wakePending, half, quit, stopping, doomed>>
  /\ UNCHANGED <<alive, queue, session, made, short>>

(* A posted job, in a pump at the bottom of the thread or of a pause loop. *)
DispatchJob ==
  /\ Top \in {None, "loop"}
  /\ jobs > 0
  /\ jobs' = jobs - 1
  /\ BeginDrain
  /\ UNCHANGED interrupts

(* V8 holds interrupts off while script is paused.                         *)
DispatchInterrupt ==
  /\ Top = "script" /\ ~Paused
  /\ interrupts > 0
  /\ interrupts' = interrupts - 1
  /\ BeginDrain
  /\ UNCHANGED jobs

StartCallback ==
  /\ Top = "drain"
  /\ alive /\ queue # <<>>
  /\ queue' = Tail(queue)
  /\ IF Head(queue) = Nothing THEN UNCHANGED stack ELSE Push("callback", None)
  /\ UNCHANGED <<alive, wakePending, jobs, interrupts, made, sessions, short>>

CallbackReturns ==
  /\ Top = "callback"
  /\ Pop
  /\ UNCHANGED <<dispatcher, sessions, short>>

DrainEnds ==
  /\ Top = "drain"
  /\ ~alive \/ queue = <<>>
  /\ Pop
  /\ UNCHANGED <<dispatcher, sessions, short>>

-----------------------------------------------------------------------------
(* Script, run by the embedder or evaluated in a dispatch.                 *)

RunScript ==
  /\ Top = None
  /\ Push("script", None)
  /\ UNCHANGED <<dispatcher, sessions, short>>

Evaluate ==
  /\ Top = "dispatch"
  /\ half[Last(stack).of] # "none"
  /\ Push("script", None)
  /\ UNCHANGED <<dispatcher, sessions, short>>

ScriptEnds ==
  /\ Top = "script"
  /\ Pop
  /\ UNCHANGED <<dispatcher, sessions, short>>

(* sendNotification: V8 in the middle of something it tells s about.  A    *)
(* session that is gone to the client is sent nothing.                     *)
SendNotification(s) ==
  /\ Top \in {"script", "dispatch", "announce", "pausing"}
  /\ half[s] # "none" /\ session[s] # "gone"
  /\ Push("send", s)
  /\ UNCHANGED <<dispatcher, sessions, short>>

SendReturns ==
  /\ Top = "send"
  /\ Pop
  /\ UNCHANGED <<dispatcher, sessions, short>>

-----------------------------------------------------------------------------
(* Pauses.  V8 pauses for a session with its debugger on, tells the        *)
(* sessions, and runs the client's loop - which it may not pause again.    *)

Pause ==
  /\ Top = "script" /\ ~Paused
  /\ \E s \in Sessions : half[s] = "on"
  /\ Push("pausing", None)
  /\ UNCHANGED <<dispatcher, sessions, short>>

(* Mutant: the loop is started whatever Settle found.                      *)
LoopRegardless ==
  /\ Top = "pausing"
  /\ SettleLists
  /\ half' = Settled
  /\ stack' = Append(Front(stack), Frame("loop", None))
  /\ quit' = FALSE
  /\ UNCHANGED <<dispatcher, session, short>>

(* What was put off is done first; if that ends the pause, the loop is not *)
(* started.                                                                *)
RunMessageLoopOnPause ==
  /\ Top = "pausing"
  /\ SettleLists
  /\ half' = Settled
  /\ IF NobodyLeft(Settled)
     THEN Pop /\ UNCHANGED quit
     ELSE stack' = Append(Front(stack), Frame("loop", None)) /\ quit' = FALSE
  /\ UNCHANGED <<dispatcher, session, short>>

LoopReturns ==
  /\ Top = "loop"
  /\ quit
  /\ Pop
  /\ quit' = FALSE
  /\ UNCHANGED <<dispatcher, session, half, stopping, doomed, short>>

-----------------------------------------------------------------------------
(* Messages.  V8 settles nothing of its own; the library does, before and  *)
(* after.                                                                  *)

DispatchProtocolMessage(s) ==
  /\ InHost
  /\ session[s] \in {"open", "stopped"}
  /\ Settle
  /\ Push("dispatch", s)
  /\ UNCHANGED <<dispatcher, session, short>>

DebuggerEnable ==
  /\ Top = "dispatch"
  /\ LET s == Last(stack).of
     IN half[s] = "off" /\ half' = [half EXCEPT ![s] = "on"]
  /\ UNCHANGED <<dispatcher, session, stopping, doomed, quit, stack, short>>

DebuggerDisable ==
  /\ Top = "dispatch"
  /\ LET s == Last(stack).of
     IN /\ half[s] = "on"
        /\ half' = [half EXCEPT ![s] = "off"]
        /\ quit' = (quit \/ NobodyLeft(half'))
  /\ UNCHANGED <<dispatcher, session, stopping, doomed, stack, short>>

DebuggerResume ==
  /\ Top = "dispatch" /\ Paused
  /\ half[Last(stack).of] = "on"
  /\ quit' = TRUE
  /\ UNCHANGED <<dispatcher, session, half, stopping, doomed, stack, short>>

(* The message is answered; or ContextCreated, ContextDestroyed is done.   *)
Answered ==
  /\ Top \in {"dispatch", "announce"}
  /\ Pop
  /\ half' = Settled
  /\ quit' = (quit \/ NobodyLeft(Settled))
  /\ SettleLists
  /\ UNCHANGED <<dispatcher, session, short>>

AnnounceRealm ==
  /\ InHost /\ alive
  /\ Settle
  /\ Push("announce", None)
  /\ UNCHANGED <<dispatcher, session, short>>

-----------------------------------------------------------------------------
(* Sessions.  A client taking a notification may connect, stop and destroy *)
(* them too.                                                               *)

Connect(s) ==
  /\ InHost \/ Top = "send"
  /\ alive
  /\ session[s] = "new" /\ \A earlier \in 1 .. s - 1 : session[earlier] # "new"
  /\ session' = [session EXCEPT ![s] = "open"]
  /\ half' = [Settled EXCEPT ![s] = "off"]
  /\ quit' = (quit \/ NobodyLeft(Settled))
  /\ SettleLists
  /\ UNCHANGED <<dispatcher, stack, short>>

Resume(s) ==
  /\ InHost
  /\ session[s] = "open"
  /\ half' = Settled
  /\ quit' = (quit \/ NobodyLeft(Settled) \/ (Paused /\ Settled[s] = "on"))
  /\ SettleLists
  /\ UNCHANGED <<dispatcher, session, stack, short>>

(* V8's half of s becomes h at once: no notification is being sent, or     *)
(* there is no memory to put s aside.                                      *)
AtOnce(s, h) ==
  /\ half' = [half EXCEPT ![s] = h]
  /\ quit' = (quit \/ NobodyLeft(half'))
  /\ short' = IF Notifying THEN short \cup {"place"} ELSE short
  /\ UNCHANGED <<dispatcher, doomed>>

Stop(s) ==
  /\ InHost \/ Top = "send"
  /\ session[s] = "open"
  /\ session' = [session EXCEPT ![s] = "stopped"]
  /\ \/ /\ Notifying
        /\ stopping' = stopping \cup {s}
        /\ WakeToSettle
        /\ UNCHANGED <<half, doomed, quit>>
     \/ AtOnce(s, "stopped") /\ UNCHANGED stopping
  /\ UNCHANGED stack

(* ~InspectorSession.                                                      *)
Destroy(s) ==
  /\ InHost \/ Top = "send"
  /\ session[s] \in {"open", "stopped"}
  /\ session' = [session EXCEPT ![s] = "gone"]
  /\ stopping' = stopping \ {s}
  /\ \/ /\ Notifying
        /\ doomed' = doomed \cup {s}
        /\ WakeToSettle
        /\ UNCHANGED <<half, quit>>
     \/ AtOnce(s, "none")
  /\ UNCHANGED stack

(* ~Inspector: its sessions gone before it, and neither a pause nor a      *)
(* dispatch on the stack.                                                  *)
DestroyInspector ==
  /\ InHost /\ alive
  /\ ~On("dispatch") /\ ~On("announce") /\ ~Paused
  /\ \A s \in Sessions : session[s] \in {"new", "gone"}
  /\ alive' = FALSE
  /\ queue' = <<>>
  /\ half' = [s \in Sessions |-> "none"]
  /\ stopping' = {} /\ doomed' = {}
  /\ UNCHANGED <<wakePending, jobs, interrupts, made, session, quit, stack, short>>

-----------------------------------------------------------------------------
Next ==
  \/ RequestDispatch
  \/ DispatchJob \/ DispatchInterrupt
  \/ StartCallback \/ CallbackReturns \/ DrainEnds
  \/ RunScript \/ Evaluate \/ ScriptEnds
  \/ \E s \in Sessions : SendNotification(s) \/ DispatchProtocolMessage(s)
  \/ SendReturns
  \/ Pause \/ RunMessageLoopOnPause \/ LoopReturns
  \/ DebuggerEnable \/ DebuggerDisable \/ DebuggerResume
  \/ Answered \/ AnnounceRealm
  \/ \E s \in Sessions : Connect(s) \/ Resume(s) \/ Stop(s) \/ Destroy(s)
  \/ DestroyInspector

Spec == Init /\ [][Next]_vars
-----------------------------------------------------------------------------
(* No request waits without something on its way to run it: a drain that   *)
(* has begun, or the job and the interrupt that begin one.                 *)
QueueHasAWake ==
  queue # <<>> => On("drain") \/ (wakePending /\ jobs > 0 /\ interrupts > 0)

(* Nothing is put aside without a drain coming that does it, unless there  *)
(* was no memory to ask for one.                                           *)
PutAsideHasAWake ==
  stopping \cup doomed # {} => "wake" \in short \/ (wakePending /\ jobs > 0 /\ interrupts > 0)

(* The agent that sends a notification is there when the send returns:     *)
(* whatever the client did inside it, V8's half is as it was.              *)
AgentOutlivesSend ==
  [][Notifying => "place" \in short' \/ \A s \in Sessions : half[s] # "none" => half'[s] = half[s]]_vars

(* A pause can be ended: its loop runs with a session in the embedder's    *)
(* hands that has its debugger on, or has been told to quit.               *)
PauseCanBeEnded ==
  Top = "loop" =>
    \/ quit \/ "place" \in short
    \/ \E s \in Sessions : session[s] = "open" /\ half[s] = "on"
=============================================================================
