------------------------------- MODULE Bringup -------------------------------
(***************************************************************************)
(* Bringing the engine up on one thread: the process's Platform, and       *)
(* Isolate::New, which acquires one thing after another.  Any acquisition  *)
(* can fail, and then New answers empty.  What smart pointers own goes by  *)
(* itself; the engine's own context does not, and each return that follows *)
(* it gives it back by hand.  One context to a thread is the engines'      *)
(* limit: one left behind makes the next New undefined.                    *)
(***************************************************************************)
EXTENDS Integers, Sequences, FiniteSets

CONSTANT Engines  \* the backends to consider

ASSUME EngineAssumption == Engines \subseteq {"V8", "SpiderMonkey"}

VARIABLES
  engine,    \* the backend the library was built with
  platform,  \* the Platform object: absent, present and "down", or "up"
  leaked,    \* V8 refused to go down, so its platform was left to it
  got,       \* what the Isolate::New in progress has acquired, in order
  isolate,   \* the isolate: none, building, live, in its destructor, gone
  contexts,  \* engine contexts (a v8::Isolate, a JSContext) on this thread
  counted,   \* g_workerThreads is known
  thread     \* g_threadIsolate is set

bringup == <<platform, leaked, got, isolate, contexts, counted, thread>>

-----------------------------------------------------------------------------
V8 == engine = "V8"

BringupInit ==
  /\ engine \in Engines
  /\ platform = "absent" /\ leaked = FALSE
  /\ got = <<>> /\ isolate = "none"
  /\ contexts = 0 /\ counted = FALSE /\ thread = FALSE

BringupTypeOK ==
  /\ engine \in Engines
  /\ platform \in {"absent", "down", "up"}
  /\ leaked \in BOOLEAN
  /\ got \in Seq({"impl", "allocator", "context", "jobs", "selfHosted",
                  "isolate", "interrupt", "probe"})
  /\ isolate \in {"none", "building", "live", "clearing", "gone"}
  /\ contexts \in Int
  /\ counted \in BOOLEAN
  /\ thread \in BOOLEAN

(* The process's part: V8 can fail to make a platform or to initialise,    *)
(* unwinding what came up; SpiderMonkey's JS_Init can fail.  V8 may refuse *)
(* to go down, and cannot be brought up over itself.                       *)
PlatformCtor ==
  /\ platform = "absent" /\ ~leaked
  /\ platform' \in {"down", "up"}
  /\ counted' \in IF V8 THEN BOOLEAN ELSE {FALSE}
  /\ UNCHANGED <<leaked, got, isolate, contexts, thread>>

PlatformDtor ==
  /\ platform # "absent" /\ isolate \in {"none", "gone"} /\ got = <<>>
  /\ platform' = "absent" /\ counted' = FALSE
  /\ leaked' \in IF V8 /\ platform = "up" THEN BOOLEAN ELSE {leaked}
  /\ UNCHANGED <<got, isolate, contexts, thread>>

(* SpiderMonkey tells its thread count to a context only: one is made to   *)
(* ask and thrown away, unless this thread has an isolate to ask.          *)
WorkerThreads ==
  /\ ~V8 /\ platform = "up" /\ ~counted /\ ~thread
  /\ isolate \in {"none", "gone"} /\ got = <<>>
  /\ got' = <<"probe">> /\ contexts' = contexts + 1
  /\ UNCHANGED <<platform, leaked, isolate, counted, thread>>

ProbeDone ==
  /\ got = <<"probe">>
  /\ got' = <<>> /\ contexts' = contexts - 1 /\ counted' = TRUE
  /\ UNCHANGED <<platform, leaked, isolate, thread>>

(* What Isolate::New acquires, in its order.                               *)
Steps ==
  IF V8 THEN <<"impl", "allocator", "context", "isolate">>
  ELSE <<"impl", "context", "jobs", "selfHosted", "isolate", "interrupt">>

(* Mutant: the last return forgets the context.                            *)
UnwindsButInterrupt ==
  IF V8 THEN {"isolate"} ELSE {"jobs", "selfHosted", "isolate"}

(* The returns that dispose the context they would otherwise leave.        *)
Unwinds ==
  IF V8 THEN {"isolate"} ELSE {"jobs", "selfHosted", "isolate", "interrupt"}

New ==
  /\ platform = "up" /\ ~thread /\ isolate = "none" /\ got = <<>>
  /\ isolate' = "building"
  /\ UNCHANGED <<platform, leaked, got, contexts, counted, thread>>

Acquire ==
  /\ isolate = "building" /\ Len(got) < Len(Steps)
  /\ LET step == Steps[Len(got) + 1]
     IN /\ got' = Append(got, step)
        /\ contexts' = contexts + (IF step = "context" THEN 1 ELSE 0)
  /\ UNCHANGED <<platform, leaked, isolate, counted, thread>>

FailUnwinding(unwinds) ==
  /\ isolate = "building" /\ Len(got) < Len(Steps)
  /\ contexts' = contexts - (IF Steps[Len(got) + 1] \in unwinds THEN 1 ELSE 0)
  /\ got' = <<>> /\ isolate' = "none"
  /\ UNCHANGED <<platform, leaked, counted, thread>>

Fail == FailUnwinding(Unwinds)

NewDone ==
  /\ isolate = "building" /\ Len(got) = Len(Steps)
  /\ isolate' = "live" /\ thread' = TRUE /\ got' = <<>>
  /\ counted' = (counted \/ ~V8)
  /\ UNCHANGED <<platform, leaked, contexts>>

BringupNext ==
  \/ PlatformCtor \/ PlatformDtor \/ WorkerThreads \/ ProbeDone
  \/ New \/ Acquire \/ Fail \/ NewDone

(* An empty answer leaves nothing: this thread has an engine context when  *)
(* New is past acquiring one, when an isolate lives on it and while the    *)
(* thread count is asked for, and then one; whatever failed, and however   *)
(* often, it has none otherwise.                                           *)
EmptyHoldsNothing ==
  /\ contexts \in {0, 1}
  /\ isolate \in {"none", "gone"} => contexts = Len(got)
  /\ isolate = "building" =>
       contexts = Cardinality({i \in 1 .. Len(got) : got[i] = "context"})
  /\ isolate = "live" => contexts = 1 /\ thread

=============================================================================
