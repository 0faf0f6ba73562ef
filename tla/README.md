# unibind, specified

unibind puts one C++ API over two JavaScript engines: V8
(`src/src/backends/v8/`) and SpiderMonkey (`src/src/backends/spidermonkey/`),
one of which is linked. Its headers (`src/include/unibind/`) promise the same
behaviour of both. Most of the library translates calls; what can go wrong in it
is the part with state of its own, where threads, nested calls and the engine
meet. This project models that part, one module per component, checks it with
TLC and proves the core of it with TLAPS.

## The system

Everything runs on the isolate's thread except `TerminateExecution`,
`RequestInterrupt`, `PostJob`, `PostDelayedJob` and
`InspectorDispatcher::RequestDispatch`, which any thread may call, and work the
engine does on threads of its own (SpiderMonkey's off-thread promise tasks).

| Component | State it keeps | Operations | Correct when |
| --- | --- | --- | --- |
| Termination | `Impl::terminating`; V8's own request; SpiderMonkey's interrupt bit | `TerminateExecution` (any thread), `CancelTerminateExecution`, the gate of every call that can run script, the check after an empty answer, `TryCatchClose`, `TryCatchReset` | a stop reaches script through every native and handler, and a cancel leaves nothing behind |
| Interrupts | `Impl::interrupts`; V8's list of trampolines | `RequestInterrupt` (any thread), `InterruptTrampoline`, `OnInterrupt` | each request runs once, in order, and waits out a stop |
| Posted work | `Impl::jobs`, `Impl::delayedJobs`; the engine's continuations | `PostJob`, `PostDelayedJob` (any thread), `PumpJobs`, `DrainEngineJobs` | order, delays as floors, continuations before the next job, a stop ends the pump |
| Handles | `Frame` stacks, deferred escapes, Global nodes | `OpenFrame`, `CloseFrame`, native frames, `EscapeSlot`, `MakeGlobal` ... | a handle keeps its value while its scope is open, and what it names is rooted |
| Exceptions | SpiderMonkey's stack of `TryCatchState`; V8's own | `ThrowValue`, `TryCatchOpen/Close/Reset`, `ReThrow`, the catch at each operation | an exception goes to the innermost handler of its native, once; a stop is told apart |
| Classes, natives | `liveNatives`, a box per wrapper | `Wrap`, constructors, `ClassInstantiate`, finalizers, `~Isolate` | each native is destroyed exactly once, and not under a live wrapper |
| Functions | `callbacks`, a record per function | `Function::New`, the trampolines, finalizers | a call meets its record, and a record goes with its function |
| Contexts | a counted record per realm, a pointer to it in the realm | `NewContext`, copies, `ReleaseContext` | counts are of holders; a realm never finds a record that has gone |
| Templates | a record per template, sealed at the first instance; SpiderMonkey's caches per realm | `TemplateSet*`, `Inherit`, `GetFunction`, `NewInstance`, interceptors | a shape that is in use does not change; what is built is whole |
| Scripts | V8's cache of compiled code, SpiderMonkey's retained texts, blobs in the embedder's hands | `CompileInto`, `CreateCodeCache`, `RunScript` | a Script runs its own source, and its text lives as long as its code |
| Isolate, platform | isolate's lists, heap limit, stack limit | `Platform`, `Isolate::New`, `~Isolate`, `OnNearHeapLimit` | an empty answer holds nothing, and teardown gives everything back |
| Inspector | dispatch queue and wake flag, sessions put aside | `RequestDispatch` (any thread), `Connect`, `Stop`, `Resume`, `~InspectorSession`, pauses | no request lost, no session torn down under its own notification, no pause nobody can end |
| Values, text, binary data | none of their own | kinds, conversions, attributes, UTF-8, buffers and views | both engines answer alike, within bounds, and as ECMAScript has it |

How they meet: termination is read by every gate, by the interrupt callback, by
the pump and by TryCatch; SpiderMonkey's stop and interrupts share one bit; the
pump runs jobs that run script that posts, stops and cancels; the inspector
reaches the isolate through an interrupt and a posted job at once. A native may
own Contexts and Globals, so that a finalizer drops references; a call holds a
Context of its realm for as long as it runs; a class is a template with a native
behind it, and its constructor runs inside an instantiation.

What is hard here: two stores that make one stop; flags read before a call and
acted on after it; V8's termination request, which is spent by the unwind it
starts; engine state that a TryCatch clears; queues filled from other threads
while a pass over them runs; escapes that can only be applied after the scope
they leave has gone; allocation that fails half way; finalizers that come late, in
two passes, or never; caches filled before what they hold is finished, or read
after what they were filled for has changed. `PROJECT.json` lists each
at its line under `hazards`.

## Modules

**`V8Termination`** (V8, `backend.cpp` 682-700, 1830-1841, 3188-3321,
3999-4018, 4721-4740). The isolate's thread is a stack of activations: scripts,
natives called by script, open handlers, handlers that caught a termination, and
V8's inspector at a message (`"agent"`), which catches what it evaluated in order
to answer - so the comment at 4724-4730 has it. `armed` is
V8's request for its next check, `unwinding` its pending termination,
`terminating` the library's flag; `half` holds the threads between the two
stores of `TerminateExecution`, and `host = "cancelling"` the thread between
those of `CancelTerminateExecution`. `Gate` and `Enter` are two steps because the
code reads the flag and then calls V8; `CameBackEmpty` is the second look that
`CallFunction`, `ConstructObject` and `RunScript` take, and that other
operations do not, hence its choice. V8's own behaviour (checks, unwinding, what
a `v8::TryCatch` does to a termination) is modelled from how the backend uses it
and marked external. `slipped` is history: V8's half of a stop was spent before
the flag was stored, or by the inspector's catch over running script. The
invariants about a stop meeting script make an exception of both: the one is the
finding below, the other a known divergence.

**`InterruptDelivery`** is the abstract contract of `RequestInterrupt` in
`isolate.h`: requests wait, a pass that meets no stop runs them in order and once
each until none is left.

**`V8Interrupts`** (V8 4022-4061) keeps the library's queue (under its lock) and
V8's list of trampolines (asked outside the lock) and implements
`InterruptDelivery`; the mapping's waiting queue is the library's, and a pass is
V8's drain of its list.

**`SMExecution`** (SpiderMonkey 3343-3430, `internal.h` 737-756) has stops and
interrupts together, because they share `interruptBit`: `OnInterrupt` is split at
each of its reads - the flag, the swap under the lock, each callback, the flag
again. It implements `InterruptDelivery` too, except that a request made during a
stop may run under it (a known divergence, below), which is why the mapping's stop is the
one `Check` sees.

**`JobPump`** (V8 4063-4138, SpiderMonkey 3432-3580) is both backends: the queues
and loop are the same, and `engine`, chosen in `Init`, decides how a turn ends -
V8's checkpoint, or SpiderMonkey's drain with `js::RunJobs` behind it.
`PostDelayedJob` is two steps, since the clock is read before the lock is taken.
A job is one call of a post; due times are kept in a multimap ordered with
equals behind. A post refused for want of memory is a step that changes nothing.
Two histories say what the order should be without looking at the queues: `waiting`,
the delayed posts no pump has found due, and `passed`, the pairs of which the first was
posted, for an earlier time or for at once, while the second was waiting. `RunOrder` is
that work runs once each and in the order of its posts, but for what passed: so of two
delayed jobs the one due first runs first, whichever was posted first, ties run in the
order they were posted, and nothing posted after a pump has found a job due overtakes
it. Posts are finite here: that an endless stream of them starves no due job is
this last part, not the liveness property.

**`Frames`** (V8 262-412, 608-649, 830-886, 3010-3051; SpiderMonkey
`internal.h` 374-385 and 372-384 of `backend.cpp`) is both backends' handles: a
slot is a value and the V8 scope whose block it points into, 0 for a borrowed
argument. `CloseFrame` and `ApplyDeferredEscapes` are two steps because V8's scope
closes between them. A push past the inline slots may fail, in every operation
that pushes.

**`ExceptionDelivery`** is the abstract contract of `exception.h`: a throw is in
the innermost scope at once; script and natives hand on what they do not catch,
a TryCatch keeps what it caught unless `ReThrow` was called. A scope that a stop
met is void: nothing is promised of what it catches or sends on, because the
contract says of a stop only that it goes on outwards.

**`SMTryCatch`** (SpiderMonkey 2228-2372, 2706-2729, `internal.h` 455-477,
721-733, 758-809, 873-886) implements it with one pending exception per context.
The stack holds scripts, natives and handlers; a handler takes what is pending
when asked, when closed, or in `CatchPendingException` at the next operation of its
native, so the mapping (`Has`) has to say where an exception *is* while it is
pending, parked in a handler above, or taken. `CallFunction` excludes one state: a
native that threw and has no handler of its own does not go on to run script, which
`Throw` asks of it ("return promptly and not call further into the engine").
An engine that cannot capture what is pending (out of memory) is left out.

**`Inspector`** (V8 4283-4771) is the dispatcher's queue with its one wake-up (a
job and an interrupt, under one flag), the sessions, and pauses. A session is two
things: what the embedder holds (`session`) and V8's half of it (`half`), which
V8 goes on using after it has sent a notification; `stopping` and `doomed` are the
two lists of halves put aside, and `Settle` - the first and last thing of every
call into the inspector, of a drain, and of `runMessageLoopOnPause` - is part of
each of those actions. Frames of the isolate's thread say what is being done:
a drain and one callback of it, a dispatch, a realm announced, a send, script, a
pause being announced and its loop. A send is innermost, because
`SendProtocolMessage` is to "forward it and return"; inside one the client may
connect, stop and destroy, and nothing else. V8 does not pause inside a pause and
holds interrupts off during one, so a pump in the pause's loop is what drains
there. V8's part (when it notifies, pauses, and quits a pause because no debugger
is left) is external. `short` records what there was no memory for while a session
was put aside: a place in the list, and then its half goes at once, or the wake-up.
`inspector.h` allows for a loop re-entered by a pause in it; the debugger this backend
links refuses one. A request whose job is refused is a step that changes nothing, by
`Refused`, which is where the `pop_back` of V8 4688 is. Two limits of what is claimed:
a request taken into a drain that an interrupt began waits behind the evaluations
before it, having no interrupt of its own; and a session destroyed at once for want
of memory while its pause is announced can leave a loop nobody ends, which `PauseCanBeEnded` excepts.

**`Bringup`** (V8 3696-3891; SpiderMonkey 3582-3728)
acquires one thing after another, `got`, any of which can fail; `Unwinds` names the
returns that dispose the engine's context by hand, everything else being a smart
pointer's. **`Lifetime`** extends it with everything an isolate hands out and takes
over until it has gone, on both backends: a box is *given* (V8 files it at once),
*wrapped*, *fired* (V8's first finalizer pass) and *spent*; `deaths` counts how often
it was destroyed, and `holds` is what its native owns - Contexts and Globals, which
its destructor gives back, so that one destruction can free a record, unroot another
box, and so on. A hand-over that can be interrupted by the collector is two actions
with an entry of `ops` between them (`Wrap`, `WrapDone` or `WrapFail`); a call is
another entry, which holds a reference to the Context it runs in. `slot` is what a
realm's global finds its record through, apart from `rec`, the record itself.
`~Isolate` is several steps in each backend's own order. Left out: script run by a
native's destructor, which the header forbids, and a receiver that is not an
instance.

**`Templates`** (`templates.cpp` 47-655, 1222-1361, 1643-1795; V8 2284-2479) is
declaring on both backends and instantiating on each. On V8 the engine does it
(external), and publishes at most what a template reaches. On SpiderMonkey `stack`
is the recursion of `Materialise`, `ApplyEntries` and `NewInstanceOf`, one record a
call, with a step wherever a cache is read or filled or another call begins; `Fail`
abandons the whole of it between any two. A cached constructor goes through the
stages its two stores and its members give it, and a member's presence is counted
(`got`), so that what a function cache or a model made for fewer entries leaves out is
seen. `Seal` is the least set containing a template and closed under `Reaches` that the code's
recursion marks, which stops at what is sealed already - the reason `UsedIsSealed`
has its second conjunct.

**`Scripts`** (`script.h` 110-327; V8 3417-3556; SpiderMonkey 2610-2639, 2816-3016,
3318-3341) has two Scripts' worth of handles, blobs in the embedder's hands with
the source and build they were made of, a restart with another build, and a blob
damaged. V8's cache of compiled code is external: entries it may drop whenever it
likes, found by source and mark. On SpiderMonkey `instances` are the engine's copies of
a script's code and `texts` the references it has counted for each. `lost` are the
texts there was no memory to keep, `fedLazy` the entries of V8's cache that an eager
compile took from a blob made lazily, for as long as V8 keeps them: the one answer
`EagerIsEager` excepts.

**`Values`, `Utf8`, `Binary`, `Limits`** and **`Interceptors`** are the library's
pure parts, as operators, with what they must satisfy as assumptions that TLC
evaluates over every case of a small domain: kinds and types on two engines and the
hierarchy they follow, `Int32Value` and `Uint32Value` against ECMAScript's modulo,
attributes there and back, which calls a stopped isolate refuses (`Values`); the
decoder of `value.h` against the definition of UTF-8, over every string of four
boundary bytes (`Utf8`); byte lengths, offsets and copies in a machine word of five
bits, so that a product that wraps is among the inputs (`Binary`); the stack guard's
and the heap limit's arithmetic (`Limits`); V8's trampolines and SpiderMonkey's proxy
traps against each other and the contract of `template.h`, for every answer of every
hook (`Interceptors`). They have no variables and so no run of their own: `MCScripts`
extends the first four, `MCTemplates` the last.

**`Engine`** is what `JobPump`, `Frames`, `Scripts` and `Templates` share: which of
the two engines is linked.

**`V8Proofs`** holds the proofs about `V8Termination` and `V8Interrupts`,
**`IsolateProofs`** those about `Scripts`, `Frames` and `SMTryCatch`, and
**`SMExecutionProofs`**, **`InspectorProofs`**, **`LifetimeProofs`**,
**`TemplatesProofs`** and **`JobPumpProofs`** those about the module each is named
for; **`QueueLemmas`** has what they need to know of sequences used as queues and
stacks, and that a set of numbers has a least one. Where several components share a
proof module the names of a module's `Init`, `Next` and `Spec` say whose they are
(`InterruptsInit`, `FramesNext`, `TryCatchSpec`).

Each module's mutants - a dropped guard, a store in the wrong order, a flag not
read again - stand before the definition they mutate, and for every checked
property there is one that breaks it.

## Runs

| Run | Asks | Bounds |
| --- | --- | --- |
| `v8_termination` | Does a stop meet the script it was meant for, and does a cancel leave V8 clean? | two terminators, four activations: a script, a native in it, a handler, and a script below them, which is the deepest shape a rule distinguishes |
| `v8_stop_slips` (violated) | Does every stop unwind what it finds running? | one terminator, two activations |
| `inspector` | Is a request or a session put aside ever stranded? Does an agent outlive its send? Can every pause be ended? | two sessions, two requests, six frames: drains in drains, and a send in a dispatch in a pause |
| `v8_interrupts` | Do the two lists stay in step and implement the contract? | three requests, so that a pass can be overtaken and overtake |
| `sm_execution` | Can a stop cost an interrupt its callback, or the other way round? | one terminator, two requests, four activations |
| `job_pump` | Order, floors, what a stop lets start, what it drops, that work runs | two jobs, two continuations, a clock of three instants, delays that fall due, do not within the clock, and overflow it |
| `frames` | Do handles keep their values, and is what they name rooted? | three frames of two slots, two values, one inline slot so that a push can fail, one Global |
| `sm_trycatch` | Is taking late the same as catching at once? Is the engine ever entered with an exception pending? | two throws, so that one can be parked while the other is caught; four scopes: a script, a native in it, a handler, and one opened over it |
| `lifetime` | Is everything taken over given back once, whatever fails or is collected? Are the counts those of the holders? Does a call find its records? | two boxes, so that one native can own a Global of the other; two realms and a function; two copies of a Context; two operations in progress, a wrap inside a call |
| `v8_stale_context` (violated) | Does a call find the Context of its realm whichever Contexts have gone? | one of each |
| `templates` | Does anything built change shape afterwards? Is what is built whole, with members declared late and caches made for fewer? Is a constructor made once, and does recursion end? | a class that may inherit from another template, prototypes and instance templates on demand, members that mention the class itself, its parent and its instances; two members, one change of shape, one failure |
| `scripts` | Does a Script run its own source? Is an eager compile eager? Is a text kept as long as its code, and quoted for its own script? | two sources of one name, two Scripts, two builds, two blobs, one instance in a foreign realm, one text lost |

A run's invariants are about hazards; each module's `TypeOK` is an invariant too, and
is proved where there is a proof module.

Every bound is a constant of its module. Actors are symmetric threads whose
number matters only as "none, one, or another beside it"; stacks and queues are
long enough for an element with something on each side of it.

### Fairness

Never assumed: that script returns, that a native returns of its own accord, that
anybody stops, cancels, posts or requests. Assumed, because the code or the
documented duty of the embedder gives it:

* V8 and SpiderMonkey check running script again and again (`Check` is strongly
  fair: script may call natives between two checks, but not for ever).
* A library call that has begun runs to its end; a terminator between its two
  stores takes the second.
* In `V8Termination` and `SMExecution` a native that script called returns while
  a stop is in force - `TerminateExecution`'s documentation asks it of natives.
* In `JobPump` the embedder keeps calling `PumpJobs`, jobs and continuations
  return, and the clock advances; `js::RunJobs` stops finding work.
* `EveryRequestRuns` and `EveryJobRuns` hold on the behaviours whose stops
  eventually cease, which is their premise.

## Proofs

All are for every value of the constants that the named assumptions of the modules
allow, and from nothing else: that a bound is a natural number, that the engines are
the two there are, in `Lifetime` that boxes and realms are finitely many and told
apart from functions and from the two values that mark no realm, in `Templates` that
chains of parents and of nested object templates end and that what may be declared
names templates, in `SMTryCatch` that nothing thrown is the mark for nothing. The
sets of terminators, requests, sessions, sources, builds, values, jobs, things thrown
and functions need not be finite, nor templates but where their recursion is shown to
end. Every safety property that a run checks is proved, and every refinement. Each
inductive invariant (`IInv`, or named for what it is about: `RefsInv`, `PauseInv`,
`CatchInv`, ...) and each property was checked by TLC before it was proved.

### Stops on V8

`V8Proofs` proves:

* `Invariance`: `Spec => []IInv`, which every other theorem rests on;
* `TypeCorrect`, `NeverNeither` (`ArmedMeansStopped`), `GateIsNotEnough`
  (`StopMeetsEntry`) and `StopSurvivesHandlers` (`StopMeetsScript`).

`StopMeetsScript` is not inductive: it speaks of a script that is innermost, and
the step that breaks it is a native or a handler closing above one. `IInv` says
where a stop is kept meanwhile. `StopIsHeld`: while the flag is up and any script
is on the stack, V8 is armed, or unwinding, or a handler above the innermost
script has caught the termination and will send it on when closed. Two further
parts carry the two-store calls: `HalfStopIsArmed` (a stop whose flag is not up
yet has armed V8, so the flag's store establishes `StopIsHeld`) and
`CancelIsOutermost` (a cancel runs with no script on the stack, so clearing V8's
request breaks nothing). Three lemmas say what pushing, popping and catching do
to "has a script" and "is held"; `NextIInv` has a case for each action.

`slipped` is cleared by whatever arms V8 again, so the exception it makes is no wider
than the two findings.

### Interrupts on V8

`V8Proofs` also proves `InterruptsTypeCorrect`, `TrampolinesInStep` (`QueueInStep`) and
`DeliversAsPromised` (`DeliveryOK`). The invariant adds to `QueueInStep` that a call
yet to ask has pushed its request (`AskingIsTaken`), that a request stands in the
queue once and not after it has run (`Once`), and that a pass is over script. The
refinement goes step by step: a push is unseen (`PushIsUnseen`); a call that asks is
`Take` of the first request not taken yet, which need not be the caller's own
(`AskTakesOne`, where `Once` is what makes it new); a trampoline is `Run` of the
front (`TrampolineRunsFirst`, by `QueueInStep` never an empty one).

### Stops and interrupts on SpiderMonkey

`SMExecutionProofs` proves `TypeCorrect`, `StopWaitsForScript` (`StopMeetsScript`),
`NoInterruptForgotten` (`QueueIsAnnounced`) and `DeliversAsPromised` (`DeliveryOK`).
`StopMeetsScript` is not inductive - the unwind that meets a stop ends at a native,
which returns into script - and follows from `StopIsRequested`: a returned stop keeps
the bit up, script or not, or a pass that borrowed the bit will ask about it.
`PassIsOverScript` is what keeps a cancel out of a pass. All three queues are one
`Order`, `ran \o batch \o interrupts`, which only ever grows at its end: taking a
batch and calling a callback leave it as it is, and that is the refinement too.

### The pump

`JobPumpProofs` proves `TypeCorrect`, `WorkRunsInOrder` (`RunOrder`), `DelaysAreFloors`
(`DelayIsAFloor`), `StopCostsOnePump` (`StopEndsOnePump`) and `ContinuationsGoFirst`
(`ContinuationsFirst`). All posts stand in one `Line`: what has run, the job taken, the
queue, and the delayed queue by due time. A post inserts into it, a due job moves
along it, a pump takes from it and a stop leaves it alone, so that the order in which
work runs is the order of the line; `RunOrder` is that line read at its front, where
each job stands once. A delayed job that comes due goes behind every job posted before,
which is why the invariant has to compare due times only among those still delayed, and
why insertion into the multimap needs a lemma of its own (`UpperBound` is behind its
equals). `WaitingOK`, that what waits by the history is what stands in the delayed queue,
and `PassedOK`, that what has passed something was posted, tie the histories to
the line: a post goes in front of exactly those it passes (`GivesWay`), and behind the
rest. `Leads` says who may start next: with continuations waiting nobody but them.

### Handles

`IsolateProofs` proves of `Frames` `FramesTypeCorrect`, `HandlesKeepValues`
(`HandleKeepsValue`), `SlotsOutlive` (`SlotsOutliveScopes`) and `ValuesStayRooted`
(`NeverUnrooted`). The three properties fail together or not at all: a slot may only be
reused when no Local names it, a Local's value is rooted by its slot or, between the
close of V8's scope and the end of `ApplyDeferredEscapes`, by the escape parked for
it. So `ScopesOK` relates each frame to the V8 scope it opened, `PlansOK` says of every
parked escape that its slot in the parent is reserved, that no other has the same one,
and what it will put there, and `KeepsOK` says of every Local that its slot has its
value or is reserved for an escape that has (`ParkedFor`).

### Exceptions on SpiderMonkey

`IsolateProofs` proves `TryCatchTypeCorrect`, `ScriptEnteredClean` (`EnteredClean`) and
`ExceptionsAreDelivered` (`DeliveryOK`). `CatchInv` has what the taking depends on and
never mentions: a handler's `nativeDepth` is the number of natives below it, so that the
innermost handler is of the running native exactly when it is on top of the stack
(`Catching`: no native lies between, for it would be counted); scopes that are not
void lie above none that is, so that what goes to a scope that is not void comes from
one that is not; and a handler that has caught something in such a scope has something to
send on. `Seen` is the stack as the contract has it; lemmas say what it becomes when a
scope opens (`Entering`), unwinds (`Unwinding`), closes (`Closing`), is asked
(`TopAsked`), lets go (`Consuming`) or is met by a stop (`SeenVoided`), and one
`...Keeps` lemma per action that the contract allows it.

### The inspector

`InspectorProofs` proves `TypeCorrect`, `NoRequestStranded` (`QueueHasAWake`),
`NothingPutAsideForgotten` (`PutAsideHasAWake`) and `AgentSurvives`
(`AgentOutlivesSend`). The two about wake-ups need `WakeIsComing`: while the flag is
up both roads still hold their entry, since only a drain takes from either and a
drain lowers the flag first. `SessionsOK` relates what the embedder holds, V8's half
and the two lists; `NothingLeft` is that nothing outlives the inspector, so a drain
that finds it gone leaves nothing; and `StackOK` that a send is innermost, which is
why only a client's `Connect`, `Stop` and `Destroy` can come in one, and why they put
aside instead of ending.

`PausesEnd` (`PauseCanBeEnded`) has an invariant of its own, `PauseInv`: what may stand
directly above what (`Stands`), at most one pause on the thread (`OnePause`), a
session V8 still works for is kept by somebody (`InUse`), and a pause's loop has not
been told to quit for nothing (`Clear`). `Endable` carries the property through the
steps between which it does not speak: from the notification that announces a pause to
the loop that waits in it, since a client may stop or destroy its session in that very
notification.

### Lifetimes

`LifetimeProofs` proves `TypeCorrect`, `BoxesGivenBackOnce` (`GivenBackOnce`),
`RecordsAreThere` (`CallMeetsItsRecords`) and `EmptyMeansNone` (`EmptyHoldsNothing`,
the bring-up's half). That a box dies once is not inductive by itself: it depends on who
has it. `BoxesOK` says where each is - with a hand-over in progress, on the isolate's
list, or spent - and `OpsOK` that a hand-over is the innermost operation and that no two
operations are of one box, so that a failed step gives back its own box and no
finalizer or `~Isolate` can meet it. `ReachedOK` is what keeps a collection from
finalizing what a native, a Global or the script still has. For the records, `FnsOK`
relates a function's record to the function and the calls running in it, and `CtxOK` a
realm's record to its copies, to the calls that were given a Context, and on
SpiderMonkey to the slot that is blanked with it. `StartOK` and `OverOK` bound all this to the time the
isolate is up, and `UpOK` says which steps of `Isolate::New` have been taken.

`CountsInStep` (`RefsInStep`) is proved from `RefsInv`, which counts: a realm's count is
the embedder's copies, the natives that own it and the calls in it; `embedderRefs` is the
live records, the Globals and what natives own of either. `SpentOK` keeps what is
spent from owning anything and `WrapsOK` what is being wrapped from being counted
twice. The lemmas say what opening and closing a call, gaining and losing an owner,
and a whole collection or an `~Isolate` do to the cardinalities involved; the natives that
die in one step may own references to one another, and the counts are lowered for
all of them at once.

### Templates

`TemplatesProofs` proves `TypeCorrect`, `SealedBeforeUse` (`UsedIsSealed`) and
`ShapesStay` (`ShapeIsFixed`). `SealFacts` is the lemma about the recursion: given that
what sealed templates reach is sealed, `Seal(t)` has `t`, keeps what was sealed, and
is closed again, and so has all that V8 could publish (`PublishedIsSealed`). Each
declaration then keeps the closure: a member set on a sealed template is sealed with
it, a prototype made late is sealed at once. On SpiderMonkey templates are used
steps after they were sealed, with other calls between; `Sound` is what every
frame of `stack` carries meanwhile: past its first step, its template is sealed.
`ShapesStay` follows: a shape or a parent changes only on a template that is not
sealed.

`WholeWhenFinished` (`FinishedIsWhole`), `MadeOnce` (`OneConstructor`) and `RecursionEnds`
(`NoEndlessNesting`) are about SpiderMonkey's recursion through its caches and need a
second invariant, `CInv`. It says which call waits for which: a frame of `stack` is
of the template the one below it is waiting for, and every call between two of one
template has begun a constructor that the upper one would find in the cache. It
says of the caches what each was filled for - a function, a model, a constructor's
members - and how much of its template was declared then; members are only ever
declared at the end, so that what a cache lacks is what has to be replayed. A failure
in the middle empties the stack and tears what was being built, and so costs nothing
of this.

### Scripts

`IsolateProofs` proves of `Scripts` `TypeCorrect`, `CodeIsTheSources` (`RunsItsSource`),
`EagerCompiles` (`EagerIsEager`) and `TextsLiveWithCode` (`KeepsItsText`). The first two
need `CachesAreTheirs`, that nothing a compile may be answered with - an entry of V8's
cache, a blob that still agrees with its frame - holds another source's code, and
`MarkedIsEager`, that a marked entry is of an eager compile or of a blob used for one;
`OutcomeIsOfItsSource` is the lemma about a compile, on both engines. The third needs
`TextsInStep`: a text's references are the copies of code that point into it.

### What is only model-checked

The liveness properties - `StoppedScriptUnwinds`, `EveryRequestRuns`, `EveryJobRuns` -
which need fairness and `ENABLED`, beyond these provers. What the pure modules assert
of their operators is evaluated over their domains and not proved: most of it is about
recursive definitions, or quantifies over small domains that are the statement.
Induction over data is out of reach here, but not well-founded minima:
`LeastNumber` is what the innermost handler and the arguments about recursion use.

## Findings

Each is a run that TLC ends with a counterexample; `PROJECT.json` quotes the line it
is at odds with.

1. `EveryStopUnwinds` (V8 4007): the engine is armed before the flag is stored,
   and nothing arms it after. If the request is spent in between - by a racing
   cancel, or by an unwind in whose native `TryCatch::Reset` still reads a lowered
   flag - a script that had passed its gate runs on with the isolate stopped.
2. `CallFindsItsContext` (V8 3385): the last Context of a realm frees the record
   and leaves the realm pointing at it, so a function of that realm that somebody
   kept runs its callback with a record that has gone. SpiderMonkey's backend blanks
   the pointer (`CallMeetsItsRecords` has that), and then calls with no Context, which
   a class's constructor cannot do anything with either.

### Known divergences

Six more places where the code and what is said of it part. Each is stated in its
module and refuted by TLC, without a run that is kept for it: give the run's cfg the
property instead of its own.

* `LateRequestsWait` (`SMExecution`; SpiderMonkey 3364): `OnInterrupt` asks about a
  stop once, before it takes batch after batch; `isolate.h` 785 has an interrupt that
  is asked for under a stop wait for the cancel.
* `StopEndsDrain` (`JobPump`; SpiderMonkey 3521): the drain's closing `js::RunJobs`
  starts continuations behind one that was stopped; `isolate.h` 900 has them
  discarded.
* `DispatchKeepsStop` (`V8Termination`; V8 4735): a dispatch on a stopped isolate
  arms V8 before the message and not after it; what the message evaluates spends the
  request, and script below the dispatch runs on with the isolate stopped.
* `TerminatedMeansStopped` (`SMTryCatch`; SpiderMonkey 2237): a handler that met a
  stop goes on saying so after the cancel, and loses what is thrown in it afterwards;
  `exception.h` 107.
* `NoHalfConstructor` (`Templates`; `templates.cpp` 624): a constructor is cached
  before its members are defined, and a failure in between leaves it there without
  them, to be handed out by the next request. So does a second build that has replaced
  the cached constructor and cannot store its prototype (626): the next request pairs
  the new function with the first build's prototype (`"mixed"`).
* `EagerIsHonoured` (`Scripts`; V8 3428): what V8 has compiled with a blob for an
  eager request answers the next eager request, lazy or not; `EagerIsEager` is what is
  left.

Smaller things the models show, which no property asks about: from the second escape of a
frame on, the handle V8's `Escape` returns reads as undefined until the frame closes
(`EscapeSlot`, V8 871); SpiderMonkey's `ReThrow` with nothing caught is remembered and
takes effect on what the handler catches later (`ReThrow`); a parent that has its
child among its members makes the child's constructor twice on SpiderMonkey, the
exception `OneConstructor` makes; a template's own instance template makes instances
of a class that carry no native; `usedCache` is true on V8 of a Script answered from
V8's own cache.

## Plan

Modelled, in this order: termination, interrupts, posted work, handles, exceptions,
the inspector; lifetimes, templates, scripts; the pure parts. What is left, most
worth having first:

1. The inspector's queue composed with `JobPump`, which takes its wake-up's job as
   given today, and several isolates on one thread's `Platform`.
2. `TryCatch` on V8 as a component of its own: what it catches and sends on, against
   `ExceptionDelivery`.
3. The receiver checks of methods and accessors, and entering a realm.

Theorems worth having next: the arithmetic of `Binary` and `Limits` for any word; that
what is refused on a stopped isolate (`Values`) is what the gates of `V8Termination`
refuse; properties that relate two components once they are composed.

## Not modelled

The numbers and strings a conversion computes, enumeration order, regular expressions,
dates: the engine's. A caught exception's message, stack and location. Entering realms,
security tokens, and what a realm's global template does to it. `HasInstance`, and the
receiver of a method or an accessor. What the engines' heaps do with a limit.
Isolates on several threads, which share nothing but the process's `Platform`. The
epoch of a frame, which only a debug build reads. Frame allocation, the V8 interop
header, build, tests, examples and tools. `PROJECT.json` gives each component's status.
