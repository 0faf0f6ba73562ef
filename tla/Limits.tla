-------------------------------- MODULE Limits --------------------------------
(***************************************************************************)
(* How much of its thread's stack an isolate lets script use, and what the *)
(* heap's limit becomes when the heap nears it.  Both backends promise the *)
(* engine less than the stack there is, keeping a reserve for the engine   *)
(* to throw through once it has run out.                                   *)
(*                                                                         *)
(* Pure operators, in bytes; addresses are counted from the lowest the     *)
(* thread may use.  TLC evaluates the ASSUMEs with the runs of MCScripts.  *)
(***************************************************************************)
LOCAL INSTANCE Integers
LOCAL INSTANCE FiniteSetsExt
LOCAL INSTANCE Sequences

KiB == 1024
Reserve == 128 * KiB
V8DefaultStack == 984 * KiB
MinimumStackLimitMargin == 32 * KiB             \* the engine's (external)

Usable(available) == IF available > Reserve THEN available - Reserve ELSE available \div 2

\* V8 measures what is left below the frame that makes the isolate; an
\* address outside the thread's stack (a fiber) leaves nothing to measure.
V8UsableStackBytes(low, high, top, wanted) ==
  IF top <= low \/ top > high THEN wanted ELSE Min({wanted, Usable(top - low)})

\* SpiderMonkey measures the whole stack: its quota counts from the base.
SMUsableStackBytes(low, high, wanted) ==
  IF high <= low THEN wanted ELSE Min({wanted, Usable(high - low)})

\* The guard New sets, zero for none, and the question each trampoline asks.
StackGuard(low, high, top, asked) ==
  LET limit == V8UsableStackBytes(low, high, top, IF asked # 0 THEN asked ELSE V8DefaultStack)
  IN IF top > limit THEN top - limit ELSE 0
RefuseDeeperNative(here, guard) == here < guard

ThreadStackQuotaForSize(bytes) == (bytes * 9) \div 10       \* external
StackQuotaFor(bytes) ==
  IF bytes > 10 * MinimumStackLimitMargin THEN ThreadStackQuotaForSize(bytes)
  ELSE IF bytes > 2 * MinimumStackLimitMargin THEN bytes - MinimumStackLimitMargin
  ELSE IF bytes > 1 THEN bytes \div 2 ELSE 1

\* Sizes around every threshold the code compares with.
Around(n) == {m \in n - 1 .. n + 1 : m >= 0}
StackSizes == UNION {Around(n) : n \in {0, 2, 64 * KiB, Reserve, 2 * Reserve, 320 * KiB,
                                        V8DefaultStack, 1024 * KiB, 8192 * KiB}}

\* However small the stack, V8's guard stands above its last byte with the
\* reserve, or half of what there is, left under it; and a frame as deep as
\* the guard's is refused nothing while one deeper is refused.
ASSUME GuardLeavesRoom ==
  \A top \in StackSizes \ {0}, asked \in StackSizes :
    LET guard == StackGuard(0, 8192 * KiB + 1, top, asked)
    IN /\ guard <= top
       /\ guard >= Min({Reserve, top \div 2})
       /\ ~RefuseDeeperNative(guard, guard)
       /\ guard > 0 => RefuseDeeperNative(guard - 1, guard)

\* SpiderMonkey's quota is never zero - which to the engine is no quota - nor
\* more than the stack; it keeps the engine's minimum margin whenever there is
\* twice that to keep it from; and a larger stack never gets a smaller quota.
ASSUME QuotaIsALimit ==
  \A high \in StackSizes \ {0}, asked \in StackSizes \ {0} :
    LET bytes == SMUsableStackBytes(0, high, asked)
        quota == StackQuotaFor(bytes)
    IN /\ quota \in 1 .. high
       /\ bytes > 2 * MinimumStackLimitMargin => bytes - quota >= MinimumStackLimitMargin
       /\ \A less \in StackSizes : less <= bytes => StackQuotaFor(less) <= quota

-----------------------------------------------------------------------------
(* The near-heap-limit callback: the embedder's answer, never lower than   *)
(* the limit the heap is already at.                                       *)

OnNearHeapLimit(installed, answer, currentLimit) ==
  IF ~installed \/ answer < currentLimit THEN currentLimit ELSE answer

\* The limit after the embedder has answered with each of the answers in turn.
Limit(answers, initial) ==
  LET after[n \in 0 .. Len(answers)] ==
        IF n = 0 THEN initial ELSE OnNearHeapLimit(answers[n][1], answers[n][2], after[n - 1])
  IN after[Len(answers)]

\* Over any sequence of answers, with the callback coming and going, the limit
\* ends at the most the embedder ever asked for: never below where it began.
ASSUME HeapLimitNeverFalls ==
  \A answers \in [1 .. 3 -> BOOLEAN \X (0 .. 4)], initial \in 0 .. 4 :
    Limit(answers, initial) = Max({initial} \cup {answers[i][2] : i \in {i \in 1 .. 3 : answers[i][1]}})
=============================================================================
