------------------------------- MODULE JobPump -------------------------------
(***************************************************************************)
(* Posted work, delayed work and promise continuations: Isolate::PostJob   *)
(* and PostDelayedJob on any thread, PumpJobs on the isolate's.  The two   *)
(* backends have the same queues and the same loop; what differs is how a  *)
(* turn of it drains the engine's continuations, so the engine is chosen   *)
(* in the initial state.                                                   *)
(*                                                                         *)
(* The engines are modelled from how the backends use them.  V8's          *)
(* checkpoint and SpiderMonkey's DrainEngineJobs run continuations until   *)
(* none is left and drop the rest when a stop lands among them.            *)
(* js::RunJobs, which SpiderMonkey's drain ends with, fetches what settled *)
(* off the thread and runs it without asking whether anyone has stopped    *)
(* the isolate.                                                            *)
(***************************************************************************)
EXTENDS Engine, Naturals, Sequences, SequencesExt

CONSTANTS
  Jobs,      \* calls of PostJob and PostDelayedJob
  Tasks,     \* promise continuations, each queued at most once
  Delays,    \* delays asked for; zero stands for zero, negative and NaN
  MaxTime,   \* bound on the clock
  ClockMax   \* what steady_clock can count to: never

ASSUME TimeAssumption ==
  /\ Delays \subseteq Nat
  /\ {MaxTime, ClockMax} \subseteq Nat
  /\ MaxTime < ClockMax

VARIABLES
  now,          \* steady_clock::now()
  asking,       \* delayed posts between reading the clock and the lock
  delayed,      \* Isolate::Impl::delayedJobs, a multimap from due time
  jobs,         \* Isolate::Impl::jobs
  micro,        \* the engine's queue of continuations
  settled,      \* continuations settled off the thread, not fetched yet
  terminating,  \* a stop is in force
  pc,           \* where the isolate's thread is in PumpJobs
  current,      \* the job taken and not started, if any
  posted,       \* history: the posts that were queued, as the lock saw them
  waiting,      \* history: those of them no pump has found due yet
  passed,       \* history: <<x, y>>: x was posted while y waited for a later time
  ran,          \* history: jobs started, in order
  begun,        \* history: continuations queued or settled so far
  sinceStop,    \* history: what the pump started since the stop in force
  stopIn        \* history: where the pump was when that stop was made

orderVars == <<waiting, passed>>
postVars == <<asking, delayed, jobs, posted, orderVars>>
taskVars == <<micro, settled, begun>>
stopVars == <<terminating, sinceStop, stopIn>>
pumpVars == <<pc, current, ran>>
vars == <<engine, now, postVars, taskVars, stopVars, pumpVars>>

-----------------------------------------------------------------------------
JobsOf(entries) == [i \in DOMAIN entries |-> entries[i].job]
Queued == ToSet(JobsOf(posted))
Called == Queued \cup {e.job : e \in asking}

(* A job that was queued is in one place: waiting for its time, waiting    *)
(* for its turn, taken or started.                                         *)
TypeOK ==
  /\ engine \in Engines /\ now \in 0 .. MaxTime
  /\ micro \in Seq(Tasks) /\ settled \subseteq Tasks
  /\ terminating \in BOOLEAN /\ stopIn \in {"idle", "fetched", "other"}
  /\ pc \in {"idle", "loop", "drain", "dequeued", "task", "runjobs", "fetched",
             "recheck", "take", "popped", "job"}
  /\ LET placed == ran \o current \o jobs \o JobsOf(delayed)
     IN IsInjective(placed) /\ ToSet(placed) = Queued

Init ==
  /\ engine \in Engines
  /\ now = 0
  /\ asking = {} /\ delayed = <<>> /\ jobs = <<>>
  /\ posted = <<>> /\ waiting = {} /\ passed = {}
  /\ micro = <<>> /\ settled = {} /\ begun = {}
  /\ terminating = FALSE /\ sinceStop = 0 /\ stopIn = "other"
  /\ pc = "idle" /\ current = <<>> /\ ran = <<>>

Tick ==
  /\ now < MaxTime
  /\ now' = now + 1
  /\ UNCHANGED <<engine, postVars, taskVars, stopVars, pumpVars>>

-----------------------------------------------------------------------------
(* Posting, on any thread.                                                 *)

Entry(j, delay, due) == [job |-> j, from |-> now, delay |-> delay, due |-> due]
Undelayed(j) == [job |-> j, from |-> 0, delay |-> 0, due |-> 0]

(* Mutant: a long delay that overflows the clock into the past.            *)
DueWrapping(delay) == (now + delay) % (ClockMax + 1)

(* Half the room left on the clock is the cut-off, and beyond it never.    *)
Due(delay) == IF 2 * delay < ClockMax - now THEN now + delay ELSE ClockMax

(* A multimap in order of due time: how many entries are due by then.      *)
UpperBound(entries, t) ==
  CHOOSE n \in 0 .. Len(entries) :
    /\ \A i \in 1 .. n : entries[i].due <= t
    /\ n < Len(entries) => t < entries[n + 1].due
UpToDue(entries, t) == SubSeq(entries, 1, UpperBound(entries, t))
AfterDue(entries, t) == SubSeq(entries, UpperBound(entries, t) + 1, Len(entries))

(* delayedJobs.emplace: ordered by due time, after its equals.             *)
Emplace(entries, e) ==
  UpToDue(entries, e.due) \o <<e>> \o AfterDue(entries, e.due)

(* What the lock saw of a post.                                            *)
Recorded(e) ==
  /\ posted' = Append(posted, e)
  /\ waiting' = IF e.delay > 0 THEN waiting \cup {e} ELSE waiting
  /\ passed' = passed \cup {<<e.job, w.job>> : w \in {v \in waiting : e.due < v.due}}

(* A post there is no memory for leaves no trace, and may be made again.   *)
Refused == UNCHANGED <<jobs, delayed, posted, orderVars>>

PostJob(j) ==
  /\ j \notin Called
  /\ \/ /\ jobs' = Append(jobs, j)
        /\ Recorded(Undelayed(j))
        /\ UNCHANGED delayed
     \/ Refused
  /\ UNCHANGED <<engine, now, asking, taskVars, stopVars, pumpVars>>

(* The clock is read before the lock is taken.                             *)
PostDelayedJob(j, delay) ==
  /\ delay > 0
  /\ j \notin Called
  /\ asking' = asking \cup {Entry(j, delay, Due(delay))}
  /\ UNCHANGED <<engine, now, delayed, jobs, posted, orderVars>>
  /\ UNCHANGED <<taskVars, stopVars, pumpVars>>

(* Mutant: an entry goes in before those due at the same moment.           *)
QueueDelayedBefore(e) ==
  /\ e \in asking
  /\ asking' = asking \ {e}
  /\ delayed' = UpToDue(delayed, e.due - 1) \o <<e>> \o AfterDue(delayed, e.due - 1)
  /\ Recorded(e)
  /\ UNCHANGED <<engine, now, jobs, taskVars, stopVars, pumpVars>>

(* Mutant: a plain list, in the order posted.                              *)
QueueDelayedLast(e) ==
  /\ e \in asking
  /\ asking' = asking \ {e}
  /\ delayed' = Append(delayed, e)
  /\ Recorded(e)
  /\ UNCHANGED <<engine, now, jobs, taskVars, stopVars, pumpVars>>

QueueDelayed(e) ==
  /\ e \in asking
  /\ asking' = asking \ {e}
  /\ \/ /\ delayed' = Emplace(delayed, e)
        /\ Recorded(e)
        /\ UNCHANGED jobs
     \/ Refused
  /\ UNCHANGED <<engine, now, taskVars, stopVars, pumpVars>>

-----------------------------------------------------------------------------
(* Stopping, on any thread, and cancelling, in the embedder or in a job    *)
(* whose script the stop has unwound.                                      *)

TerminateExecution ==
  /\ ~terminating
  /\ terminating' = TRUE
  /\ sinceStop' = 0
  /\ stopIn' = IF pc \in {"idle", "fetched"} THEN pc ELSE "other"
  /\ UNCHANGED <<engine, now, postVars, taskVars, pumpVars>>

CancelTerminateExecution ==
  /\ pc \in {"idle", "job"}
  /\ terminating' = FALSE
  /\ sinceStop' = 0
  /\ stopIn' = "other"
  /\ UNCHANGED <<engine, now, postVars, taskVars, pumpVars>>

(* Script settles a promise: in the embedder's own calls, in a job or in a *)
(* continuation.  The engine settles others on threads of its own.         *)
QueueTask(c) ==
  /\ pc = "idle" => ~terminating
  /\ pc \in {"idle", "task", "fetched", "job"}
  /\ c \notin begun
  /\ begun' = begun \cup {c}
  /\ micro' = Append(micro, c)
  /\ UNCHANGED <<engine, now, postVars, settled, stopVars, pumpVars>>

SettleOffThread(c) ==
  /\ engine = "SpiderMonkey"
  /\ c \notin begun
  /\ begun' = begun \cup {c}
  /\ settled' = settled \cup {c}
  /\ UNCHANGED <<engine, now, postVars, micro, stopVars, pumpVars>>

-----------------------------------------------------------------------------
(* PumpJobs, on the isolate's thread with no call beneath it.              *)

PumpJobs ==
  /\ pc = "idle"
  /\ pc' = "loop"
  /\ UNCHANGED <<engine, now, postVars, taskVars, stopVars, current, ran>>

(* Mutant: do ... while - a turn before the flag is looked at.             *)
BeginTurnUnasked ==
  /\ pc = "loop"
  /\ pc' = "drain"
  /\ UNCHANGED <<engine, now, postVars, taskVars, stopVars, current, ran>>

BeginTurn ==
  /\ pc = "loop"
  /\ pc' = IF terminating THEN "idle" ELSE "drain"
  /\ UNCHANGED <<engine, now, postVars, taskVars, stopVars, current, ran>>

(* One continuation, or all of them dropped.                               *)
Drain ==
  /\ pc = "drain" /\ micro # <<>>
  /\ IF terminating
     THEN micro' = <<>> /\ pc' = "recheck"
     ELSE micro' = Tail(micro) /\ pc' = "dequeued"
  /\ UNCHANGED <<engine, now, postVars, settled, begun, stopVars, current, ran>>

Counted == IF terminating THEN sinceStop + 1 ELSE sinceStop

StartTask ==
  /\ pc = "dequeued"
  /\ pc' = "task"
  /\ sinceStop' = Counted
  /\ UNCHANGED <<engine, now, postVars, taskVars, terminating, stopIn>>
  /\ UNCHANGED <<current, ran>>

(* It returned, threw into nothing, or was unwound by a stop - or its      *)
(* realm is gone, and it is skipped before it starts.                      *)
TaskEnds ==
  /\ pc \in {"dequeued", "task"}
  /\ pc' = "drain"
  /\ UNCHANGED <<engine, now, postVars, taskVars, stopVars, current, ran>>

Drained ==
  /\ pc = "drain" /\ micro = <<>>
  /\ pc' = IF engine = "SpiderMonkey" /\ ~terminating THEN "runjobs" ELSE "recheck"
  /\ UNCHANGED <<engine, now, postVars, taskVars, stopVars, current, ran>>

(* js::RunJobs, a continuation at a time, stop or no stop.                 *)
RunJobs ==
  \/ /\ pc = "runjobs"
     /\ \/ (\E c \in settled : settled' = settled \ {c}) /\ UNCHANGED micro
        \/ micro # <<>> /\ micro' = Tail(micro) /\ UNCHANGED settled
     /\ pc' = "fetched"
     /\ UNCHANGED <<engine, now, postVars, begun, stopVars, current, ran>>
  \/ /\ pc = "fetched"
     /\ pc' = "runjobs"
     /\ UNCHANGED <<engine, now, postVars, taskVars, stopVars, current, ran>>

(* Mutant: what RunJobs leaves on the queue waits for the next turn.       *)
RunJobsReturnsOnce ==
  /\ pc = "runjobs"
  /\ pc' = "recheck"
  /\ UNCHANGED <<engine, now, postVars, taskVars, stopVars, current, ran>>

(* Anything put back on the queue goes round again.                        *)
RunJobsReturns ==
  /\ pc = "runjobs"
  /\ pc' = IF micro = <<>> THEN "recheck" ELSE "drain"
  /\ UNCHANGED <<engine, now, postVars, taskVars, stopVars, current, ran>>

(* Mutant: the flag is not read again behind the drain.                    *)
RecheckForgotten ==
  /\ pc = "recheck"
  /\ pc' = "take"
  /\ UNCHANGED <<engine, now, postVars, taskVars, stopVars, current, ran>>

Recheck ==
  /\ pc = "recheck"
  /\ pc' = IF terminating THEN "idle" ELSE "take"
  /\ UNCHANGED <<engine, now, postVars, taskVars, stopVars, current, ran>>

(* The pump finds due what has fallen due.                                 *)
FoundDue == waiting' = {e \in waiting : e.due > now} /\ UNCHANGED passed

(* Mutant: due jobs join only a queue that is not empty.                    *)
TakeJobFirst ==
  /\ pc = "take" /\ FoundDue
  /\ IF jobs = <<>>
     THEN pc' = "idle" /\ UNCHANGED <<jobs, current, delayed>>
     ELSE /\ pc' = "popped" /\ current' = <<Head(jobs)>>
          /\ jobs' = Tail(jobs) \o JobsOf(UpToDue(delayed, now))
          /\ delayed' = AfterDue(delayed, now)
  /\ UNCHANGED <<engine, now, asking, posted, taskVars, stopVars, ran>>

(* Under the lock: what has fallen due joins the back of the queue, and    *)
(* the front comes off.                                                    *)
TakeJob ==
  /\ pc = "take" /\ FoundDue
  /\ delayed' = AfterDue(delayed, now)
  /\ LET joined == jobs \o JobsOf(UpToDue(delayed, now))
     IN IF joined = <<>>
        THEN pc' = "idle" /\ UNCHANGED <<jobs, current>>
        ELSE pc' = "popped" /\ jobs' = Tail(joined) /\ current' = <<Head(joined)>>
  /\ UNCHANGED <<engine, now, asking, posted, taskVars, stopVars, ran>>

(* Mutant: the job is started and stays in the queue.                      *)
StartJobAgain ==
  /\ pc = "popped"
  /\ pc' = "job"
  /\ ran' = ran \o current
  /\ current' = <<>> /\ jobs' = current \o jobs
  /\ sinceStop' = Counted
  /\ UNCHANGED <<engine, now, asking, delayed, posted, orderVars, taskVars>>
  /\ UNCHANGED <<terminating, stopIn>>

StartJob ==
  /\ pc = "popped"
  /\ pc' = "job"
  /\ ran' = ran \o current
  /\ current' = <<>>
  /\ sinceStop' = Counted
  /\ UNCHANGED <<engine, now, postVars, taskVars, terminating, stopIn>>

JobReturns ==
  /\ pc = "job"
  /\ pc' = "loop"
  /\ UNCHANGED <<engine, now, postVars, taskVars, stopVars, current, ran>>

Next ==
  \/ Tick
  \/ \E j \in Jobs : PostJob(j) \/ (\E d \in Delays : PostDelayedJob(j, d))
  \/ \E e \in asking : QueueDelayed(e)
  \/ TerminateExecution \/ CancelTerminateExecution
  \/ \E c \in Tasks : QueueTask(c) \/ SettleOffThread(c)
  \/ PumpJobs \/ BeginTurn
  \/ Drain \/ StartTask \/ TaskEnds \/ Drained
  \/ RunJobs \/ RunJobsReturns
  \/ Recheck \/ TakeJob \/ StartJob \/ JobReturns

(* The embedder keeps pumping, jobs and continuations return, and the      *)
(* clock runs (as far as it is bounded here).                              *)
Fairness ==
  /\ WF_vars(Tick)
  /\ WF_vars(PumpJobs) /\ WF_vars(BeginTurn)
  /\ WF_vars(Drain) /\ WF_vars(StartTask) /\ WF_vars(TaskEnds) /\ WF_vars(Drained)
  /\ WF_vars(RunJobs \/ RunJobsReturns) /\ SF_vars(RunJobsReturns)
  /\ WF_vars(Recheck) /\ WF_vars(TakeJob) /\ WF_vars(StartJob) /\ WF_vars(JobReturns)

Spec == Init /\ [][Next]_vars
FairSpec == Spec /\ Fairness

-----------------------------------------------------------------------------
(* Posted work runs once each, whatever the threads, the pumps and the     *)
(* stops in between, and in one order: that of its posts, but a delayed    *)
(* job gives way to what is posted while it waits if that is due before    *)
(* it, or at once.  So delayed jobs run in the order they fall due, ties   *)
(* in the order they were posted, and one that a pump has found due is not *)
(* overtaken by anything posted after that.                                *)
Ahead(i, k) ==
  IF i < k THEN <<posted[k].job, posted[i].job>> \notin passed
           ELSE <<posted[i].job, posted[k].job>> \in passed

RunOrder ==
  /\ IsInjective(ran)
  /\ \A i, k \in DOMAIN posted : i # k /\ Ahead(i, k) =>
       \A n \in DOMAIN ran :
         ran[n] = posted[k].job => \E m \in 1 .. n : ran[m] = posted[i].job

(* A delay is a floor, measured from the call: no job starts before it,    *)
(* and one too long for the clock never starts at all.                     *)
DelayIsAFloor ==
  \A i \in DOMAIN posted :
    posted[i].job \in ToSet(ran) => posted[i].from + posted[i].delay <= now

(* Every continuation runs before the next piece of posted work does.      *)
ContinuationsFirst == [][pc # "job" /\ pc' = "job" => micro = <<>>]_vars

(* A stop ends the pump it lands in, and costs that pump only: whatever    *)
(* the thread was between, at most the one continuation or job already     *)
(* taken still starts (not so for what js::RunJobs runs: StopEndsDrain),   *)
(* and none is dropped by a stop made outside a pump.                      *)
StopEndsOnePump ==
  /\ sinceStop <= 1
  /\ pc = "drain" /\ terminating /\ micro # <<>> => stopIn # "idle"

(* What was queued and falls due runs, if stops cease and pumps do not.    *)
EveryJobRuns ==
  <>[]~terminating =>
    \A j \in Jobs :
      (\E i \in DOMAIN posted : posted[i].job = j /\ posted[i].due <= MaxTime)
        ~> j \in ToSet(ran)

(* unibind/isolate.h of a stop that lands in a continuation: "The promise  *)
(* continuations queued behind it do not wait - they are discarded."  No   *)
(* other is started behind one that was running when the stop was made.    *)
(* Refuted: js::RunJobs does not ask.                                      *)
StopEndsDrain ==
  [][pc = "runjobs" /\ pc' = "fetched" => ~(terminating /\ stopIn = "fetched")]_vars
=============================================================================
