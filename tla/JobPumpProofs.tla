---------------------------- MODULE JobPumpProofs ----------------------------
(***************************************************************************)
(* The order posted work runs in, the floor under a delay, what runs ahead *)
(* of what and what a stop may cost, for any number of jobs, continuations *)
(* and delays.                                                             *)
(*                                                                         *)
(* The order is proved of one sequence, the line: what ran, the job taken, *)
(* the queue and the delayed entries, in that order.  A post inserts into  *)
(* it and everything else leaves it as it is, so that a job that leads     *)
(* another there keeps leading it.                                         *)
(***************************************************************************)
EXTENDS JobPump, QueueLemmas

-----------------------------------------------------------------------------
(* About the operators.                                                    *)

Entries == [job : Jobs, from : Nat, delay : Nat, due : Nat]

(* Behind a b in the sequence there is no a that was not ahead of it.      *)
Leads(s, a, b) == \A n \in DOMAIN s : s[n] = b => \E m \in 1 .. n : s[m] = a

(* The boundary between what is due by a time and the rest exists, in any  *)
(* sequence of entries.                                                    *)
LEMMA BoundaryFacts ==
  ASSUME NEW s \in Seq(Entries), NEW t \in Nat
  PROVE  /\ Len(s) \in Nat
         /\ UpperBound(s, t) \in 0 .. Len(s)
         /\ \A i \in 1 .. UpperBound(s, t) : s[i].due <= t
         /\ UpperBound(s, t) < Len(s) => t < s[UpperBound(s, t) + 1].due
<1> DEFINE P(n) == /\ \A i \in 1 .. n : s[i].due <= t
                   /\ n < Len(s) => t < s[n + 1].due
           S == {n \in 0 .. Len(s) : n < Len(s) => t < s[n + 1].due}
<1>1. Len(s) \in Nat /\ \A i \in 1 .. Len(s) : s[i] \in Entries
  BY LenProperties, ElementOfSeq
<1>2. \A i \in 1 .. Len(s) : s[i].due \in Nat
  BY <1>1 DEF Entries
<1>3. S \subseteq Nat /\ Len(s) \in S
  BY <1>1
<1>4. PICK m \in S : \A k \in S : m <= k
  BY <1>3, LeastNumber
<1>5. m \in 0 .. Len(s) /\ (m < Len(s) => t < s[m + 1].due)
  BY <1>4
<1>6. ASSUME NEW i \in 1 .. m PROVE s[i].due <= t
  <2>1. i - 1 \in 0 .. Len(s) /\ i - 1 < m /\ i - 1 < Len(s) /\ i \in 1 .. Len(s)
    BY <1>1, <1>5
  <2>2. i - 1 \notin S
    BY <2>1, <1>4, <1>1
  <2>3. ~(t < s[(i - 1) + 1].due)
    BY <2>1, <2>2
  <2>4. (i - 1) + 1 = i
    BY <2>1
  <2> QED
    BY <2>1, <2>3, <2>4, <1>2
<1>7. \E n \in 0 .. Len(s) : P(n)
  BY <1>5, <1>6
<1>8. UpperBound(s, t) = CHOOSE n \in 0 .. Len(s) : P(n)
  BY DEF UpperBound
<1> HIDE DEF P
<1>9. UpperBound(s, t) \in 0 .. Len(s) /\ P(UpperBound(s, t))
  BY <1>7, <1>8
<1> QED
  BY <1>1, <1>9 DEF P

(* The jobs of a sequence of entries.                                      *)
LEMMA JobsFacts ==
  ASSUME NEW s \in Seq(Entries)
  PROVE  /\ JobsOf(s) \in Seq(Jobs)
         /\ Len(s) \in Nat /\ DOMAIN s = 1 .. Len(s)
         /\ Len(JobsOf(s)) = Len(s)
         /\ DOMAIN JobsOf(s) = 1 .. Len(s)
         /\ \A i \in 1 .. Len(s) : /\ s[i] \in Entries /\ JobsOf(s)[i] = s[i].job
                                   /\ JobsOf(s)[i] \in Jobs
         /\ ToSet(JobsOf(s)) = {s[i].job : i \in 1 .. Len(s)}
<1> DEFINE n == Len(s)
<1>1. n \in Nat /\ DOMAIN s = 1 .. n /\ \A i \in 1 .. n : s[i] \in Entries
  BY LenProperties, ElementOfSeq
<1>2. \A i \in 1 .. n : s[i].job \in Jobs
  BY <1>1 DEF Entries
<1>3. JobsOf(s) = [i \in 1 .. n |-> s[i].job]
  BY <1>1 DEF JobsOf
<1> HIDE DEF n
<1>4. JobsOf(s) \in Seq(Jobs) /\ Len(JobsOf(s)) = n
  BY <1>1, <1>2, <1>3
<1>5. DOMAIN JobsOf(s) = 1 .. n /\ \A i \in 1 .. n : JobsOf(s)[i] = s[i].job
  BY <1>3
<1>6. ToSet(JobsOf(s)) = {s[i].job : i \in 1 .. n}
  BY <1>5 DEF ToSet
<1> QED
  BY <1>1, <1>2, <1>4, <1>5, <1>6 DEF n

LEMMA JobsOfConcat ==
  ASSUME NEW s \in Seq(Entries), NEW t \in Seq(Entries)
  PROVE  JobsOf(s \o t) = JobsOf(s) \o JobsOf(t)
<1> DEFINE c == s \o t
           l == JobsOf(c)
           r == JobsOf(s) \o JobsOf(t)
           k == Len(s)
           n == Len(s) + Len(t)
<1>1. /\ c \in Seq(Entries) /\ Len(s) \in Nat /\ Len(t) \in Nat /\ Len(c) = n
      /\ \A i \in 1 .. n : c[i] = IF i <= k THEN s[i] ELSE t[i - k]
  BY ConcatFacts
<1>2. /\ l \in Seq(Jobs) /\ Len(l) = n
      /\ \A i \in 1 .. n : l[i] = c[i].job
  BY <1>1, JobsFacts
<1>3. /\ JobsOf(s) \in Seq(Jobs) /\ Len(JobsOf(s)) = k
      /\ \A i \in 1 .. k : JobsOf(s)[i] = s[i].job
  BY JobsFacts
<1>4. /\ JobsOf(t) \in Seq(Jobs) /\ Len(JobsOf(t)) = Len(t)
      /\ \A i \in 1 .. Len(t) : JobsOf(t)[i] = t[i].job
  BY JobsFacts
<1>5. /\ r \in Seq(Jobs) /\ Len(r) = n
      /\ \A i \in 1 .. n : r[i] = IF i <= k THEN JobsOf(s)[i] ELSE JobsOf(t)[i - k]
  <2> DEFINE u == JobsOf(s)
             v == JobsOf(t)
  <2>1. u \in Seq(Jobs) /\ v \in Seq(Jobs) /\ Len(u) = k /\ Len(v) = Len(t)
    BY <1>3, <1>4
  <2>2. r = u \o v
    OBVIOUS
  <2> HIDE DEF u, v, r
  <2>3. /\ u \o v \in Seq(Jobs)
        /\ Len(u \o v) = Len(u) + Len(v)
        /\ \A i \in 1 .. Len(u) + Len(v) :
             (u \o v)[i] = IF i <= Len(u) THEN u[i] ELSE v[i - Len(u)]
    BY <2>1, ConcatFacts
  <2>4. /\ r \in Seq(Jobs) /\ Len(r) = n
        /\ \A i \in 1 .. n : r[i] = IF i <= k THEN u[i] ELSE v[i - k]
    BY <2>1, <2>2, <2>3
  <2> QED
    BY <2>4 DEF u, v
<1> HIDE DEF l, r, c
<1>6. ASSUME NEW i \in 1 .. n PROVE l[i] = r[i]
  <2>1. CASE i <= k
    <3>1. i \in 1 .. k
      BY <2>1, <1>1
    <3> QED
      BY <2>1, <3>1, <1>1, <1>2, <1>3, <1>5
  <2>2. CASE ~(i <= k)
    <3>1. i - k \in 1 .. Len(t)
      BY <2>2, <1>1
    <3> QED
      BY <2>2, <3>1, <1>1, <1>2, <1>4, <1>5
  <2> QED
    BY <2>1, <2>2
<1> HIDE DEF n
<1>7. l = r
  BY <1>2, <1>5, <1>6, SeqEqual
<1> QED
  BY <1>7 DEF l, r, c

(* One element put into a sequence: the rest keep their order, what was    *)
(* before the place leads the newcomer, and it leads what was behind.      *)
LEMMA Inserted ==
  ASSUME NEW S, NEW p \in Seq(S), NEW r \in Seq(S), NEW x \in S
  PROVE  LET s == p \o r
             t == p \o <<x>> \o r
         IN /\ s \in Seq(S) /\ t \in Seq(S)
            /\ ToSet(t) = ToSet(s) \cup {x}
            /\ IsInjective(s) /\ x \notin ToSet(s) => IsInjective(t)
            /\ \A a, b \in S : Leads(s, a, b) /\ b # x => Leads(t, a, b)
            /\ \A a \in ToSet(p) : x \notin ToSet(s) => Leads(t, a, x)
            /\ IsInjective(s) /\ x \notin ToSet(s) =>
                 \A b \in ToSet(r) : Leads(t, x, b)
<1> DEFINE s == p \o r
           q == p \o <<x>>
           t == q \o r
           k == Len(p)
           n == Len(p) + Len(r)
           Old(i) == IF i <= k THEN i ELSE i - 1
           New(i) == IF i <= k THEN i ELSE i + 1
<1>1. /\ s \in Seq(S) /\ k \in Nat /\ Len(r) \in Nat /\ Len(s) = n
      /\ DOMAIN s = 1 .. n
      /\ \A i \in 1 .. n : s[i] = IF i <= k THEN p[i] ELSE r[i - k]
      /\ ToSet(s) = ToSet(p) \cup ToSet(r)
  BY ConcatFacts
<1>2. /\ <<x>> \in Seq(S) /\ Len(<<x>>) = 1 /\ <<x>>[1] = x /\ ToSet(<<x>>) = {x}
  BY DEF ToSet
<1>3. /\ q \in Seq(S) /\ Len(q) = k + 1
      /\ \A i \in 1 .. k + 1 : q[i] = IF i <= k THEN p[i] ELSE <<x>>[i - k]
      /\ ToSet(q) = ToSet(p) \cup {x}
  <2> DEFINE u == <<x>>
  <2>1. Len(u) = 1 /\ ToSet(u) = {x}
    BY <1>2
  <2>a. u \in Seq(S)
    BY <1>2
  <2>2. q = p \o u
    OBVIOUS
  <2> HIDE DEF u, q
  <2>3. /\ p \o u \in Seq(S) /\ Len(p \o u) = Len(p) + Len(u)
        /\ \A i \in 1 .. Len(p) + Len(u) :
             (p \o u)[i] = IF i <= Len(p) THEN p[i] ELSE u[i - Len(p)]
        /\ ToSet(p \o u) = ToSet(p) \cup ToSet(u)
    BY <2>a, ConcatFacts
  <2>4. /\ q \in Seq(S) /\ Len(q) = k + 1
        /\ \A i \in 1 .. k + 1 : q[i] = IF i <= k THEN p[i] ELSE u[i - k]
        /\ ToSet(q) = ToSet(p) \cup {x}
    BY <2>1, <2>2, <2>3
  <2> QED
    BY <2>4 DEF u
<1>4. \A i \in 1 .. k : q[i] = p[i]
  BY <1>3, <1>1
<1>5. q[k + 1] = x
  <2>1. k + 1 \in 1 .. k + 1 /\ ~(k + 1 <= k) /\ (k + 1) - k = 1
    BY <1>1
  <2> QED
    BY <2>1, <1>3, <1>2
<1>6. /\ t \in Seq(S) /\ Len(t) = k + 1 + Len(r)
      /\ DOMAIN t = 1 .. k + 1 + Len(r)
      /\ \A i \in 1 .. k + 1 + Len(r) :
           t[i] = IF i <= k + 1 THEN q[i] ELSE r[i - (k + 1)]
      /\ ToSet(t) = ToSet(q) \cup ToSet(r)
  <2>1. Len(q) = k + 1
    BY <1>3
  <2>a. q \in Seq(S)
    BY <1>3
  <2> HIDE DEF q
  <2>2. /\ q \o r \in Seq(S) /\ Len(q \o r) = Len(q) + Len(r)
        /\ DOMAIN (q \o r) = 1 .. Len(q) + Len(r)
        /\ \A i \in 1 .. Len(q) + Len(r) :
             (q \o r)[i] = IF i <= Len(q) THEN q[i] ELSE r[i - Len(q)]
        /\ ToSet(q \o r) = ToSet(q) \cup ToSet(r)
    BY <2>a, ConcatFacts
  <2> QED
    BY <2>1, <2>2
<1>7. DOMAIN t = 1 .. n + 1
  BY <1>6, <1>1
<1> HIDE DEF s, q, t
<1>8. t[k + 1] = x
  <2>1. k + 1 \in 1 .. k + 1 + Len(r) /\ k + 1 <= k + 1
    BY <1>1
  <2> QED
    BY <2>1, <1>6, <1>5
<1>9. ASSUME NEW i \in 1 .. n + 1, i # k + 1
      PROVE  Old(i) \in 1 .. n /\ t[i] = s[Old(i)] /\ New(Old(i)) = i
  <2>1. CASE i <= k
    <3>1. i \in 1 .. k /\ i \in 1 .. n /\ i <= k + 1 /\ i \in 1 .. k + 1 + Len(r)
      BY <2>1, <1>1
    <3>2. t[i] = p[i] /\ s[i] = p[i]
      BY <3>1, <2>1, <1>1, <1>4, <1>6
    <3> QED
      BY <2>1, <3>1, <3>2
  <2>2. CASE ~(i <= k)
    <3>1. /\ i \in 1 .. k + 1 + Len(r) /\ ~(i <= k + 1)
          /\ i - 1 \in 1 .. n /\ ~(i - 1 <= k) /\ (i - 1) - k = i - (k + 1)
          /\ (i - 1) + 1 = i
      <4> DEFINE m == Len(r)
      <4>1. k \in Nat /\ m \in Nat /\ n = k + m
        BY <1>1
      <4> HIDE DEF k, m, n
      <4> QED
        BY <2>2, <1>9, <4>1 DEF m
    <3>2. t[i] = r[i - (k + 1)] /\ s[i - 1] = r[(i - 1) - k]
      BY <3>1, <1>1, <1>6
    <3> QED
      BY <2>2, <3>1, <3>2
  <2> QED
    BY <2>1, <2>2
<1>10. ASSUME NEW i \in 1 .. n
       PROVE  /\ New(i) \in 1 .. n + 1 /\ New(i) # k + 1 /\ Old(New(i)) = i
              /\ t[New(i)] = s[i]
  <2>1. New(i) \in 1 .. n + 1 /\ New(i) # k + 1 /\ Old(New(i)) = i
    BY <1>1
  <2> HIDE DEF New, Old
  <2> QED
    BY <2>1, <1>9
<1>11. ToSet(t) = ToSet(s) \cup {x}
  BY <1>1, <1>3, <1>6
<1>12. ASSUME IsInjective(s), x \notin ToSet(s) PROVE IsInjective(t)
  <2>1. \A i \in 1 .. n : s[i] # x
    BY <1>12, <1>1 DEF ToSet
  <2>2. \A i, j \in 1 .. n : s[i] = s[j] => i = j
    BY <1>12, <1>1 DEF IsInjective
  <2> SUFFICES ASSUME NEW i \in 1 .. n + 1, NEW j \in 1 .. n + 1, t[i] = t[j]
               PROVE  i = j
    BY <1>7 DEF IsInjective
  <2> HIDE DEF Old, New
  <2>3. CASE i = k + 1 \/ j = k + 1
    BY <2>1, <2>3, <1>8, <1>9
  <2>4. CASE i # k + 1 /\ j # k + 1
    BY <2>2, <2>4, <1>9
  <2> QED
    BY <2>3, <2>4
<1>13. ASSUME NEW a \in S, NEW b \in S, Leads(s, a, b), b # x
       PROVE  Leads(t, a, b)
  <2> SUFFICES ASSUME NEW i \in 1 .. n + 1, t[i] = b
               PROVE  \E m \in 1 .. i : t[m] = a
    BY <1>7 DEF Leads
  <2>1. i # k + 1
    BY <1>8, <1>13
  <2>2. Old(i) \in 1 .. n /\ s[Old(i)] = b /\ New(Old(i)) = i
    BY <2>1, <1>9
  <2>3. PICK m \in 1 .. Old(i) : s[m] = a
    <3> HIDE DEF Old, New
    <3> QED
      BY <2>2, <1>13, <1>1 DEF Leads
  <2>4. m \in 1 .. n /\ New(m) \in 1 .. i
    BY <2>1, <2>2, <2>3, <1>1
  <2> HIDE DEF Old, New
  <2>5. t[New(m)] = a
    BY <2>3, <2>4, <1>10
  <2> QED
    BY <2>4, <2>5
<1>14. ASSUME NEW a \in ToSet(p), x \notin ToSet(s) PROVE Leads(t, a, x)
  <2>1. PICK m \in DOMAIN p : p[m] = a
    BY DEF ToSet
  <2>2. m \in 1 .. k
    BY <2>1, LenProperties
  <2>3. t[m] = a
    <3>1. m \in 1 .. k + 1 + Len(r) /\ m <= k + 1
      BY <2>2, <1>1
    <3> QED
      BY <3>1, <2>1, <2>2, <1>4, <1>6
  <2>4. \A i \in 1 .. n : s[i] # x
    BY <1>14, <1>1 DEF ToSet
  <2> SUFFICES ASSUME NEW i \in 1 .. n + 1, t[i] = x
               PROVE  \E l \in 1 .. i : t[l] = a
    BY <1>7 DEF Leads
  <2>5. i = k + 1
    <3> HIDE DEF Old, New
    <3> QED
      BY <2>4, <1>9
  <2>6. m \in 1 .. i
    BY <2>5, <2>2, <1>1
  <2> QED
    BY <2>6, <2>3
<1>15. ASSUME IsInjective(s), x \notin ToSet(s), NEW b \in ToSet(r)
       PROVE  Leads(t, x, b)
  <2>1. PICK m \in 1 .. Len(r) : r[m] = b
    BY LenProperties DEF ToSet
  <2>2. /\ (k + 1) + m \in 1 .. k + 1 + Len(r) /\ (k + 1) + m \in 1 .. n + 1
        /\ ~((k + 1) + m <= k + 1) /\ ((k + 1) + m) - (k + 1) = m
        /\ k + 1 \in 1 .. (k + 1) + m
    <3> DEFINE d == Len(r)
    <3>1. k \in Nat /\ d \in Nat /\ n = k + d
      BY <1>1
    <3> HIDE DEF k, d, n
    <3> QED
      BY <3>1 DEF d
  <2>3. t[(k + 1) + m] = b
    BY <2>1, <2>2, <1>6
  <2>4. \A i \in 1 .. n + 1 : t[i] = b => i = (k + 1) + m
    BY <2>2, <2>3, <1>7, <1>12, <1>15 DEF IsInjective
  <2> QED
    BY <2>2, <2>4, <1>7, <1>8 DEF Leads
<1> QED
  BY <1>1, <1>6, <1>11, <1>12, <1>13, <1>14, <1>15 DEF s, q, t

-----------------------------------------------------------------------------
(* The inductive invariant.                                                *)

Line == ran \o current \o jobs \o JobsOf(delayed)

Typed ==
  /\ engine \in Engines
  /\ now \in 0 .. MaxTime
  /\ asking \in SUBSET Entries
  /\ delayed \in Seq(Entries)
  /\ posted \in Seq(Entries)
  /\ jobs \in Seq(Jobs)
  /\ current \in Seq(Jobs)
  /\ ran \in Seq(Jobs)
  /\ micro \in Seq(Tasks)
  /\ settled \subseteq Tasks
  /\ terminating \in BOOLEAN
  /\ stopIn \in {"idle", "fetched", "other"}
  /\ pc \in {"idle", "loop", "drain", "dequeued", "task", "runjobs", "fetched",
             "recheck", "take", "popped", "job"}

(* Where the thread is: a job is in hand only between the lock and its     *)
(* call, nothing is left to drain behind the drain, a stop leaves at most  *)
(* what was already taken to start, and one made outside a pump keeps the  *)
(* next pump from its first turn.                                          *)
ControlOK ==
  /\ pc # "popped" => current = <<>>
  /\ pc \in {"recheck", "take", "popped"} => micro = <<>>
  /\ sinceStop \in 0 .. 1
  /\ ~terminating => sinceStop = 0
  /\ pc \in {"dequeued", "take", "popped"} => sinceStop = 0
  /\ terminating /\ stopIn = "idle" => pc \in {"idle", "loop"}

(* The posts: each job once, on its way to the lock or behind it, due when *)
(* its delay has passed or never.                                          *)
DueOK(e) == e.due \in {e.from + e.delay, ClockMax}
PostsOK ==
  /\ \A e \in asking : e.delay > 0 /\ DueOK(e) /\ e.job \notin Queued
  /\ \A e, f \in asking : e.job = f.job => e = f
  /\ \A i \in 1 .. Len(posted) : posted[i].delay > 0 => DueOK(posted[i])
  /\ \A i, k \in 1 .. Len(posted) : posted[i].job = posted[k].job => i = k

InOrder(s) == \A m, n \in 1 .. Len(s) : m <= n => s[m].due <= s[n].due
DelayedOK ==
  /\ \A n \in 1 .. Len(delayed) :
       delayed[n].delay > 0 /\ \E i \in 1 .. Len(posted) : posted[i] = delayed[n]
  /\ InOrder(delayed)

LineOK ==
  /\ IsInjective(Line)
  /\ ToSet(Line) = Queued

(* Who waits is who is delayed, and only queued jobs have passed another.  *)
WaitingOK == waiting = ToSet(delayed)
PassedOK == \A x, y \in Jobs : <<x, y>> \in passed => x \in Queued

OrderOK ==
  \A i, k \in 1 .. Len(posted) :
    i # k /\ Ahead(i, k) => Leads(Line, posted[i].job, posted[k].job)

FloorOK ==
  \A i \in 1 .. Len(posted) :
    posted[i].job \notin ToSet(JobsOf(delayed)) =>
      posted[i].from + posted[i].delay <= now

IInv == /\ Typed /\ ControlOK /\ PostsOK /\ DelayedOK
        /\ WaitingOK /\ PassedOK /\ LineOK /\ OrderOK /\ FloorOK

-----------------------------------------------------------------------------
(* The delayed entries, cut at a time.                                     *)
LEMMA CutFacts ==
  ASSUME NEW s \in Seq(Entries), NEW t \in Nat
  PROVE  /\ UpToDue(s, t) \in Seq(Entries)
         /\ AfterDue(s, t) \in Seq(Entries)
         /\ UpToDue(s, t) \o AfterDue(s, t) = s
         /\ JobsOf(s) = JobsOf(UpToDue(s, t)) \o JobsOf(AfterDue(s, t))
         /\ \E n \in 0 .. Len(s) :
              /\ Len(UpToDue(s, t)) = n
              /\ Len(AfterDue(s, t)) = Len(s) - n
              /\ \A i \in 1 .. n : UpToDue(s, t)[i] = s[i] /\ s[i].due <= t
              /\ \A i \in 1 .. Len(s) - n : AfterDue(s, t)[i] = s[n + i]
              /\ InOrder(s) => \A i \in 1 .. Len(s) - n : t < AfterDue(s, t)[i].due
<1> DEFINE n == UpperBound(s, t)
           l == Len(s)
           U == UpToDue(s, t)
           A == AfterDue(s, t)
<1>1. /\ l \in Nat /\ n \in 0 .. l
      /\ \A i \in 1 .. n : s[i].due <= t
      /\ n < l => t < s[n + 1].due
  BY BoundaryFacts
<1>2. \A i \in 1 .. l : s[i] \in Entries /\ s[i].due \in Nat
  <2>1. \A i \in 1 .. l : s[i] \in Entries
    BY ElementOfSeq
  <2> QED
    BY <2>1 DEF Entries
<1>3. U = SubSeq(s, 1, n) /\ A = SubSeq(s, n + 1, l)
  BY DEF UpToDue, AfterDue
<1> HIDE DEF n, U, A
<1>4. /\ U \in Seq(Entries) /\ Len(U) = n /\ \A i \in 1 .. n : U[i] = s[i]
  BY <1>1, <1>3, PrefixFacts
<1>5. /\ A \in Seq(Entries)
      /\ Len(A) = IF n + 1 <= l THEN l - (n + 1) + 1 ELSE 0
      /\ \A i \in 1 .. l - (n + 1) + 1 : A[i] = s[(n + 1) + i - 1]
  <2>1. n + 1 \in Int /\ l \in Int /\ \A i \in n + 1 .. l : s[i] \in Entries
    BY <1>1, <1>2
  <2> HIDE DEF l
  <2> QED
    BY <2>1, <1>3, SubSeqProperties
<1>6. Len(A) = l - n
  <2> HIDE DEF l
  <2> QED
    BY <1>1, <1>5
<1>7. \A i \in 1 .. l - n : A[i] = s[n + i]
  <2> SUFFICES ASSUME NEW i \in 1 .. l - n PROVE A[i] = s[n + i]
    OBVIOUS
  <2> HIDE DEF l
  <2>1. i \in 1 .. l - (n + 1) + 1 /\ (n + 1) + i - 1 = n + i
    BY <1>1
  <2> QED
    BY <2>1, <1>5
<1>8. U \o A = s
  <2>1. 1 \in 1 .. Len(s) + 1 /\ n \in 1 - 1 .. Len(s) /\ l \in n .. Len(s)
    BY <1>1
  <2>2. SubSeq(s, 1, n) \o SubSeq(s, n + 1, Len(s)) = SubSeq(s, 1, Len(s))
    BY <2>1, ConcatAdjacentSubSeq
  <2> QED
    BY <2>2, <1>3, SubSeqFull
<1>9. JobsOf(s) = JobsOf(U) \o JobsOf(A)
  BY <1>4, <1>5, <1>8, JobsOfConcat
<1>10. ASSUME InOrder(s), NEW i \in 1 .. l - n PROVE t < A[i].due
  <2>1. n + 1 \in 1 .. l /\ n + i \in 1 .. l /\ n + 1 <= n + i /\ n < l
    <3> HIDE DEF l
    <3> QED
      BY <1>1
  <2>2. s[n + 1].due <= s[n + i].due
    BY <2>1, <1>10 DEF InOrder
  <2>3. A[i] = s[n + i]
    BY <1>7
  <2>4. s[n + 1].due \in Nat /\ s[n + i].due \in Nat
    BY <2>1, <1>2
  <2>5. t < s[n + i].due
    BY <2>1, <2>2, <2>4, <1>1
  <2> QED
    BY <2>3, <2>5
<1> QED
  BY <1>1, <1>4, <1>5, <1>6, <1>7, <1>8, <1>9, <1>10 DEF U, A

LEMMA EmplaceFacts ==
  ASSUME NEW s \in Seq(Entries), NEW e \in Entries, InOrder(s)
  PROVE  LET U == UpToDue(s, e.due)
             A == AfterDue(s, e.due)
             d == Emplace(s, e)
         IN /\ d \in Seq(Entries)
            /\ JobsOf(d) = JobsOf(U) \o <<e.job>> \o JobsOf(A)
            /\ InOrder(d)
            /\ \A i \in 1 .. Len(d) : d[i] = e \/ \E m \in 1 .. Len(s) : d[i] = s[m]
            /\ ToSet(d) = ToSet(s) \cup {e}
<1> DEFINE U == UpToDue(s, e.due)
           A == AfterDue(s, e.due)
           b == <<e>>
           c == U \o b
           d == c \o A
           l == Len(s)
<1>0. e.due \in Nat /\ l \in Nat
  BY LenProperties DEF Entries
<1>1. U \in Seq(Entries) /\ A \in Seq(Entries)
  BY <1>0, CutFacts
<1>2. PICK n \in 0 .. l :
        /\ Len(U) = n
        /\ Len(A) = l - n
        /\ \A i \in 1 .. n : U[i] = s[i] /\ s[i].due <= e.due
        /\ \A i \in 1 .. l - n : A[i] = s[n + i]
        /\ \A i \in 1 .. l - n : e.due < A[i].due
  BY <1>0, CutFacts
<1>3. Emplace(s, e) = d
  BY DEF Emplace
<1>4. /\ b \in Seq(Entries) /\ Len(b) = 1 /\ b[1] = e
      /\ JobsOf(b) = <<e.job>>
  BY DEF JobsOf
<1> HIDE DEF U, A, b, l
<1>5. b \in Seq(Entries)
  BY <1>4
<1>6. /\ c \in Seq(Entries) /\ Len(c) = Len(U) + Len(b)
      /\ \A i \in 1 .. Len(U) + Len(b) : c[i] = IF i <= Len(U) THEN U[i] ELSE b[i - Len(U)]
  BY <1>1, <1>5, ConcatFacts
<1>7. JobsOf(c) = JobsOf(U) \o JobsOf(b)
  BY <1>1, <1>5, JobsOfConcat
<1> HIDE DEF c
<1>8. c \in Seq(Entries)
  BY <1>6
<1>9. /\ d \in Seq(Entries) /\ Len(d) = Len(c) + Len(A)
      /\ \A i \in 1 .. Len(c) + Len(A) : d[i] = IF i <= Len(c) THEN c[i] ELSE A[i - Len(c)]
  BY <1>1, <1>8, ConcatFacts
<1>10. JobsOf(d) = JobsOf(c) \o JobsOf(A)
  BY <1>1, <1>8, JobsOfConcat
<1> HIDE DEF d
<1>11. Len(c) = n + 1 /\ Len(d) = l + 1
  BY <1>0, <1>2, <1>4, <1>6, <1>9
<1>12. ASSUME NEW i \in 1 .. l + 1
       PROVE  d[i] = IF i <= n THEN s[i] ELSE IF i = n + 1 THEN e ELSE s[i - 1]
  <2>1. CASE i <= n
    <3>1. i \in 1 .. n /\ i \in 1 .. Len(U) + Len(b) /\ i <= Len(U) /\ i <= Len(c)
          /\ i \in 1 .. Len(c) + Len(A)
      BY <2>1, <1>0, <1>2, <1>4, <1>11
    <3> QED
      BY <3>1, <2>1, <1>2, <1>6, <1>9
  <2>2. CASE i = n + 1
    <3>1. ~(i <= n) /\ i \in 1 .. Len(U) + Len(b) /\ ~(i <= Len(U)) /\ i <= Len(c)
          /\ i \in 1 .. Len(c) + Len(A) /\ i - Len(U) = 1
      BY <2>2, <1>0, <1>2, <1>4, <1>11
    <3>2. d[i] = c[i] /\ c[i] = b[i - Len(U)]
      BY <3>1, <1>6, <1>9
    <3> QED
      BY <3>1, <3>2, <2>2, <1>4
  <2>3. CASE i > n + 1
    <3>1. ~(i <= n) /\ ~(i = n + 1) /\ ~(i <= Len(c)) /\ i \in 1 .. Len(c) + Len(A)
          /\ i - Len(c) \in 1 .. l - n /\ n + (i - Len(c)) = i - 1
      BY <2>3, <1>0, <1>2, <1>11
    <3>2. d[i] = A[i - Len(c)] /\ A[i - Len(c)] = s[n + (i - Len(c))]
      BY <3>1, <1>2, <1>9
    <3> QED
      BY <3>1, <3>2
  <2>4. i <= n \/ i = n + 1 \/ i > n + 1
    BY <1>0
  <2> QED
    BY <2>1, <2>2, <2>3, <2>4
<1>13. \A i \in 1 .. l : s[i].due \in Nat
  <2>1. \A i \in 1 .. l : s[i] \in Entries
    BY ElementOfSeq DEF l
  <2> QED
    BY <2>1 DEF Entries
<1>14. \A i \in 1 .. l : n < i => e.due < s[i].due
  <2> SUFFICES ASSUME NEW i \in 1 .. l, n < i PROVE e.due < s[i].due
    OBVIOUS
  <2>1. i - n \in 1 .. l - n /\ n + (i - n) = i
    BY <1>0
  <2> QED
    BY <2>1, <1>2
<1>15. ASSUME NEW i \in 1 .. l + 1, NEW k \in 1 .. l + 1, i <= k
       PROVE  d[i].due <= d[k].due
  <2>1. \A m, q \in 1 .. l : m <= q => s[m].due <= s[q].due
    BY DEF InOrder, l
  <2>2. CASE i <= n /\ k <= n
    <3>1. i \in 1 .. l /\ k \in 1 .. l
      BY <2>2, <1>0
    <3> QED
      BY <2>1, <2>2, <3>1, <1>12, <1>15
  <2>3. CASE i <= n /\ k = n + 1
    <3>1. i \in 1 .. n /\ ~(k <= n)
      BY <2>3, <1>0
    <3> QED
      BY <2>3, <3>1, <1>2, <1>12
  <2>4. CASE i <= n /\ k > n + 1
    <3>1. i \in 1 .. l /\ k - 1 \in 1 .. l /\ i <= k - 1 /\ ~(k <= n) /\ ~(k = n + 1)
      BY <2>4, <1>0
    <3> QED
      BY <2>1, <2>4, <3>1, <1>12
  <2>5. CASE i = n + 1 /\ k = n + 1
    <3>1. ~(i <= n) /\ d[i] = e /\ d[k] = e
      BY <2>5, <1>0, <1>12
    <3> QED
      BY <3>1, <1>0
  <2>6. CASE i = n + 1 /\ k > n + 1
    <3>1. /\ ~(i <= n) /\ k - 1 \in 1 .. l /\ n < k - 1
          /\ ~(k <= n) /\ ~(k = n + 1)
      BY <2>6, <1>0
    <3>2. d[i] = e /\ d[k] = s[k - 1]
      BY <2>6, <3>1, <1>12
    <3> QED
      BY <3>1, <3>2, <1>0, <1>13, <1>14
  <2>7. CASE i > n + 1 /\ k > n + 1
    <3>1. /\ i - 1 \in 1 .. l /\ k - 1 \in 1 .. l /\ i - 1 <= k - 1
          /\ ~(i <= n) /\ ~(i = n + 1) /\ ~(k <= n) /\ ~(k = n + 1)
      BY <2>7, <1>15, <1>0
    <3> QED
      BY <2>1, <3>1, <1>12
  <2>8. \/ i <= n /\ k <= n
        \/ i <= n /\ k = n + 1
        \/ i <= n /\ k > n + 1
        \/ i = n + 1 /\ k = n + 1
        \/ i = n + 1 /\ k > n + 1
        \/ i > n + 1 /\ k > n + 1
    BY <1>15, <1>0
  <2> QED
    BY <2>2, <2>3, <2>4, <2>5, <2>6, <2>7, <2>8
<1>16. InOrder(d)
  BY <1>11, <1>15 DEF InOrder
<1>17. ASSUME NEW i \in 1 .. Len(d)
       PROVE  d[i] = e \/ \E m \in 1 .. l : d[i] = s[m]
  <2>1. i \in 1 .. l + 1
    BY <1>11
  <2>2. CASE i <= n
    <3>1. i \in 1 .. l
      BY <2>1, <2>2, <1>0
    <3> QED
      BY <2>1, <2>2, <3>1, <1>12
  <2>3. CASE ~(i <= n) /\ i # n + 1
    <3>1. i - 1 \in 1 .. l
      BY <2>1, <2>3, <1>0
    <3> QED
      BY <2>1, <2>3, <3>1, <1>12
  <2>4. CASE i = n + 1
    <3>1. ~(i <= n)
      BY <2>4, <1>0
    <3> QED
      BY <2>1, <2>4, <3>1, <1>12
  <2> QED
    BY <2>2, <2>3, <2>4
<1>18. JobsOf(d) = JobsOf(U) \o <<e.job>> \o JobsOf(A)
  BY <1>4, <1>7, <1>10
<1>19. ToSet(d) = ToSet(s) \cup {e}
  <2>1. U \o A = s
    BY <1>0, CutFacts DEF U, A
  <2>2. ToSet(U \o <<e>> \o A) = ToSet(U \o A) \cup {e}
    BY <1>1, Inserted
  <2> QED
    BY <2>1, <2>2 DEF d, c, b
<1> QED
  BY <1>3, <1>9, <1>16, <1>17, <1>18, <1>19 DEF U, A, d, c, b, l

-----------------------------------------------------------------------------
(* What the steps do to the line.                                          *)
Base == ran \o current \o jobs

LEMMA LineFacts ==
  ASSUME Typed
  PROVE  /\ ran \o current \in Seq(Jobs)
         /\ Base \in Seq(Jobs)
         /\ JobsOf(delayed) \in Seq(Jobs)
         /\ Line = Base \o JobsOf(delayed)
         /\ Line \in Seq(Jobs)
         /\ ToSet(Line) = ToSet(Base) \cup ToSet(JobsOf(delayed))
         /\ Len(posted) \in Nat /\ DOMAIN posted = 1 .. Len(posted)
         /\ \A i \in 1 .. Len(posted) : posted[i] \in Entries /\ posted[i].job \in Jobs
         /\ Queued = {posted[i].job : i \in 1 .. Len(posted)}
         /\ ToSet(JobsOf(delayed)) = {delayed[i].job : i \in 1 .. Len(delayed)}
<1>1. /\ ran \in Seq(Jobs) /\ current \in Seq(Jobs) /\ jobs \in Seq(Jobs)
      /\ delayed \in Seq(Entries) /\ posted \in Seq(Entries)
  BY DEF Typed
<1>2. ran \o current \in Seq(Jobs)
  BY <1>1, ConcatFacts
<1>3. Base \in Seq(Jobs)
  BY <1>1, <1>2, ConcatFacts DEF Base
<1>4. JobsOf(delayed) \in Seq(Jobs)
  BY <1>1, JobsFacts
<1>5. Line = Base \o JobsOf(delayed)
  BY DEF Base, Line
<1>6. /\ Line \in Seq(Jobs)
      /\ ToSet(Line) = ToSet(Base) \cup ToSet(JobsOf(delayed))
  BY <1>3, <1>4, <1>5, ConcatFacts
<1>7. /\ Len(posted) \in Nat /\ DOMAIN posted = 1 .. Len(posted)
      /\ \A i \in 1 .. Len(posted) : posted[i] \in Entries
      /\ ToSet(JobsOf(posted)) = {posted[i].job : i \in 1 .. Len(posted)}
  BY <1>1, JobsFacts
<1>8. \A i \in 1 .. Len(posted) : posted[i].job \in Jobs
  BY <1>7 DEF Entries
<1>9. ToSet(JobsOf(delayed)) = {delayed[i].job : i \in 1 .. Len(delayed)}
  BY <1>1, JobsFacts
<1> QED
  BY <1>2, <1>3, <1>4, <1>5, <1>6, <1>7, <1>8, <1>9 DEF Queued

(* A post that still waits for its time is the delayed entry of its job.   *)
LEMMA StillDelayed ==
  ASSUME IInv, NEW i \in 1 .. Len(posted), NEW n \in 1 .. Len(delayed),
         delayed[n].job = posted[i].job
  PROVE  delayed[n] = posted[i]
<1>1. PICK k \in 1 .. Len(posted) : posted[k] = delayed[n]
  BY DEF IInv, DelayedOK
<1>2. posted[k].job = posted[i].job
  BY <1>1
<1>3. k = i
  BY <1>2 DEF IInv, PostsOK
<1> QED
  BY <1>1, <1>3

(* A post puts its job into the line behind every job but the delayed ones *)
(* that still wait for a later time.                                       *)
GivesWay(i, e) == posted[i] \in waiting /\ e.due < posted[i].due

LEMMA Posting ==
  ASSUME IInv, NEW e \in Entries, e.job \notin Queued,
         e.delay > 0 => DueOK(e),
         Recorded(e),
         asking' \subseteq asking, \A f \in asking' : f.job # e.job,
         NEW p \in Seq(Jobs), NEW r \in Seq(Jobs),
         Line = p \o r, Line' = p \o <<e.job>> \o r,
         \A i \in 1 .. Len(posted) :
           posted[i].job \in IF GivesWay(i, e) THEN ToSet(r) ELSE ToSet(p)
  PROVE  /\ PostsOK' /\ PassedOK' /\ LineOK' /\ OrderOK'
         /\ Queued' = Queued \cup {e.job}
<1> DEFINE l == Len(posted)
           q == posted'
<1>1. Typed
  BY DEF IInv
<1>2. /\ l \in Nat
      /\ \A i \in 1 .. l : posted[i] \in Entries /\ posted[i].job \in Jobs
      /\ Queued = {posted[i].job : i \in 1 .. l}
  BY <1>1, LineFacts
<1>3. posted \in Seq(Entries) /\ q = Append(posted, e)
  BY <1>1 DEF Typed, Recorded
<1>4. /\ q \in Seq(Entries) /\ Len(q) = l + 1
      /\ \A i \in 1 .. l : q[i] = posted[i]
      /\ q[l + 1] = e
  BY <1>3, AppendFacts
<1>5. Queued' = {q[i].job : i \in 1 .. l + 1}
  <2>1. ToSet(JobsOf(q)) = {q[i].job : i \in 1 .. Len(q)}
    BY <1>4, JobsFacts
  <2> QED
    BY <2>1, <1>4 DEF Queued
<1>6. e.job \in Jobs
  BY DEF Entries
<1> HIDE DEF q, l
<1>7. Queued' = Queued \cup {e.job}
  <2>1. \A i \in 1 .. l + 1 : i \in 1 .. l \/ i = l + 1
    BY <1>2
  <2>2. \A i \in 1 .. l : i \in 1 .. l + 1
    BY <1>2
  <2>3. l + 1 \in 1 .. l + 1
    BY <1>2
  <2> QED
    BY <2>1, <2>2, <2>3, <1>2, <1>4, <1>5
<1>8. \A i \in 1 .. l : q[i].job # e.job
  BY <1>2, <1>4
<1>9. /\ ToSet(Line') = ToSet(Line) \cup {e.job}
      /\ IsInjective(Line) /\ e.job \notin ToSet(Line) => IsInjective(Line')
      /\ \A a, b \in Jobs : Leads(Line, a, b) /\ b # e.job => Leads(Line', a, b)
      /\ \A a \in ToSet(p) : e.job \notin ToSet(Line) => Leads(Line', a, e.job)
      /\ IsInjective(Line) /\ e.job \notin ToSet(Line) =>
           \A b \in ToSet(r) : Leads(Line', e.job, b)
  <2> HIDE DEF Line
  <2> QED
    BY <1>6, Inserted
<1>10. IsInjective(Line) /\ ToSet(Line) = Queued
  BY DEF IInv, LineOK
<1>11. LineOK'
  <2>1. IsInjective(Line') /\ ToSet(Line') = Queued'
    BY <1>7, <1>9, <1>10
  <2> QED
    BY <2>1 DEF LineOK
<1>12. OrderOK'
  <2> DEFINE over == passed'
  <2>1. \A x, y \in Jobs : x # e.job => (<<x, y>> \in over <=> <<x, y>> \in passed)
    BY DEF Recorded
  <2>2. ASSUME NEW i \in 1 .. l
        PROVE  <<e.job, posted[i].job>> \in over <=> GivesWay(i, e)
    <3>1. <<e.job, posted[i].job>> \notin passed
      BY <1>2, <1>6 DEF IInv, PassedOK
    <3>2. \A w \in waiting : w.job = posted[i].job => w = posted[i]
      <4>1. \A w \in waiting : \E n \in 1 .. Len(delayed) : w = delayed[n]
        BY <1>1, LenProperties DEF IInv, WaitingOK, ToSet, Typed
      <4> QED
        BY <4>1, StillDelayed DEF l
    <3>3. <<e.job, posted[i].job>> \in over
            <=> \E w \in waiting : e.due < w.due /\ w.job = posted[i].job
      BY <3>1 DEF Recorded
    <3> QED
      BY <3>2, <3>3 DEF GivesWay
  <2>4. \A i \in 1 .. l : q[i] = posted[i] /\ q[i].job \in Jobs /\ q[i].job # e.job
    BY <1>2, <1>4, <1>8
  <2> HIDE DEF over
  <2> SUFFICES ASSUME NEW i \in 1 .. l + 1, NEW k \in 1 .. l + 1, i # k, Ahead(i, k)'
               PROVE  Leads(Line', q[i].job, q[k].job)
    BY <1>4 DEF OrderOK, q
  <2>3. IF i < k THEN <<q[k].job, q[i].job>> \notin over
                 ELSE <<q[i].job, q[k].job>> \in over
    BY DEF Ahead, q, over
  <2>5. CASE i \in 1 .. l /\ k = l + 1
    <3>1. i < k /\ <<e.job, posted[i].job>> \notin over
      <4>1. i < k /\ q[k] = e /\ q[i] = posted[i]
        BY <2>4, <2>5, <1>2, <1>4
      <4> QED
        BY <2>3, <4>1
    <3>2. posted[i].job \in ToSet(p)
      BY <2>2, <2>5, <3>1 DEF l
    <3> QED
      BY <2>4, <2>5, <3>2, <1>4, <1>9, <1>10
  <2>6. CASE i = l + 1 /\ k \in 1 .. l
    <3>1. ~(i < k) /\ <<e.job, posted[k].job>> \in over
      <4>1. ~(i < k) /\ q[i] = e /\ q[k] = posted[k]
        BY <2>4, <2>6, <1>2, <1>4
      <4> QED
        BY <2>3, <4>1
    <3>2. posted[k].job \in ToSet(r)
      BY <2>2, <2>6, <3>1 DEF l
    <3> QED
      BY <2>4, <2>6, <3>2, <1>4, <1>9, <1>10
  <2>7. CASE i \in 1 .. l /\ k \in 1 .. l
    <3>1. Ahead(i, k)
      BY <2>1, <2>3, <2>4, <2>7 DEF Ahead
    <3>2. Leads(Line, posted[i].job, posted[k].job)
      BY <2>7, <3>1 DEF IInv, OrderOK, l
    <3> QED
      BY <3>2, <2>4, <2>7, <1>9
  <2> QED
    BY <2>5, <2>6, <2>7, <1>2
<1>13. PostsOK'
  <2>1. \A f \in asking' : f.delay > 0 /\ DueOK(f) /\ f.job \notin Queued'
    BY <1>7 DEF IInv, PostsOK
  <2>2. \A f, g \in asking' : f.job = g.job => f = g
    BY DEF IInv, PostsOK
  <2>3. ASSUME NEW i \in 1 .. l + 1, q[i].delay > 0 PROVE DueOK(q[i])
    <3>1. CASE i = l + 1
      BY <3>1, <2>3, <1>4
    <3>2. CASE i \in 1 .. l
      BY <3>2, <2>3, <1>4 DEF IInv, PostsOK, l
    <3> QED
      BY <3>1, <3>2, <1>2
  <2>4. ASSUME NEW i \in 1 .. l + 1, NEW k \in 1 .. l + 1, q[i].job = q[k].job
        PROVE  i = k
    <3>1. CASE i \in 1 .. l /\ k \in 1 .. l
      BY <3>1, <2>4, <1>4 DEF IInv, PostsOK, l
    <3>2. CASE i = l + 1 \/ k = l + 1
      <4>1. \A j \in 1 .. l + 1 : q[j].job = e.job => j = l + 1
        BY <1>8, <1>2
      <4> QED
        BY <4>1, <3>2, <2>4, <1>4
    <3> QED
      BY <3>1, <3>2, <1>2
  <2> QED
    BY <2>1, <2>2, <2>3, <2>4, <1>4 DEF PostsOK, q, DueOK
<1>14. PassedOK'
  BY <1>7 DEF IInv, PassedOK, Recorded
<1> QED
  BY <1>7, <1>11, <1>12, <1>13, <1>14

-----------------------------------------------------------------------------
(* Step by step.                                                           *)
Rest == /\ PostsOK /\ DelayedOK /\ WaitingOK /\ PassedOK
        /\ LineOK /\ OrderOK /\ FloorOK

LEMMA EntryFacts ==
  ASSUME Typed, NEW j \in Jobs, NEW d \in Delays
  PROVE  Entry(j, d, Due(d)) \in Entries /\ DueOK(Entry(j, d, Due(d)))
<1>1. d \in Nat /\ now \in Nat /\ ClockMax \in Nat
  BY TimeAssumption DEF Typed
<1>2. Due(d) \in Nat /\ Due(d) \in {now + d, ClockMax}
  BY <1>1 DEF Due
<1> QED
  BY <1>1, <1>2 DEF Entry, Entries, DueOK

LEMMA NextTyped == IInv /\ [Next]_vars => Typed'
<1> SUFFICES ASSUME IInv, [Next]_vars PROVE Typed'
  OBVIOUS
<1> USE TimeAssumption
<1>0. Typed
  BY DEF IInv
<1>1. CASE Tick
  BY <1>0, <1>1 DEF Typed, Tick, postVars, taskVars, stopVars, pumpVars
<1>2. ASSUME NEW j \in Jobs, PostJob(j) PROVE Typed'
  <2>1. CASE Refused /\ UNCHANGED asking
    BY <1>0, <1>2, <2>1 DEF Typed, PostJob, Refused, taskVars, stopVars, pumpVars
  <2>2. CASE /\ jobs' = Append(jobs, j) /\ Recorded(Undelayed(j))
             /\ UNCHANGED delayed
    <3>1. Undelayed(j) \in Entries
      BY DEF Undelayed, Entries
    <3>2. posted \in Seq(Entries) /\ jobs \in Seq(Jobs)
      BY <1>0 DEF Typed
    <3>3. posted' \in Seq(Entries)
      BY <3>1, <3>2, <2>2, AppendFacts DEF Recorded
    <3>4. jobs' \in Seq(Jobs)
      BY <3>2, <2>2, AppendFacts
    <3> QED
      BY <1>0, <1>2, <2>2, <3>3, <3>4 DEF Typed, PostJob, taskVars, stopVars, pumpVars
  <2> QED
    BY <1>2, <2>1, <2>2 DEF PostJob
<1>3. ASSUME NEW j \in Jobs, NEW d \in Delays, PostDelayedJob(j, d) PROVE Typed'
  <2>1. asking' \in SUBSET Entries
    BY <1>0, <1>3, EntryFacts DEF PostDelayedJob, Typed
  <2> QED
    BY <1>0, <1>3, <2>1 DEF Typed, PostDelayedJob, taskVars, stopVars, pumpVars
<1>4. ASSUME NEW e \in asking, QueueDelayed(e) PROVE Typed'
  <2>1. e \in Entries /\ posted \in Seq(Entries) /\ asking' \in SUBSET Entries
    BY <1>0, <1>4 DEF Typed, QueueDelayed
  <2>2. posted' \in Seq(Entries)
    BY <1>4, <2>1, AppendFacts DEF QueueDelayed, Recorded, Refused
  <2>3. delayed' \in Seq(Entries)
    <3>1. delayed \in Seq(Entries) /\ InOrder(delayed)
      BY <1>0 DEF IInv, DelayedOK, Typed
    <3>2. Emplace(delayed, e) \in Seq(Entries)
      BY <3>1, <2>1, EmplaceFacts
    <3> QED
      BY <1>4, <3>1, <3>2 DEF QueueDelayed, Refused
  <2> QED
    BY <1>0, <1>4, <2>1, <2>2, <2>3
    DEF Typed, QueueDelayed, Refused, taskVars, stopVars, pumpVars
<1>5. CASE TerminateExecution \/ CancelTerminateExecution
  BY <1>0, <1>5
  DEF Typed, TerminateExecution, CancelTerminateExecution, postVars, taskVars, pumpVars
<1>6. ASSUME NEW c \in Tasks, QueueTask(c) \/ SettleOffThread(c) PROVE Typed'
  <2>1. micro \in Seq(Tasks)
    BY <1>0 DEF Typed
  <2>2. Append(micro, c) \in Seq(Tasks)
    BY <2>1, AppendFacts
  <2> QED
    BY <1>0, <1>6, <2>2
    DEF Typed, QueueTask, SettleOffThread, postVars, stopVars, pumpVars
<1>7. CASE PumpJobs \/ BeginTurn \/ TaskEnds \/ Drained \/ RunJobsReturns \/ Recheck
           \/ JobReturns \/ StartTask
  BY <1>0, <1>7
  DEF Typed, PumpJobs, BeginTurn, TaskEnds, Drained, RunJobsReturns, Recheck, JobReturns,
      StartTask, postVars, taskVars, stopVars
<1>8. CASE Drain \/ RunJobs
  <2>1. micro \in Seq(Tasks) /\ <<>> \in Seq(Tasks)
    BY <1>0, EmptySeq DEF Typed
  <2>2. micro # <<>> => Tail(micro) \in Seq(Tasks)
    BY <2>1, TailFacts
  <2> QED
    BY <1>0, <1>8, <2>1, <2>2 DEF Typed, Drain, RunJobs, postVars, taskVars, stopVars
<1>9. CASE TakeJob
  <2> DEFINE U == UpToDue(delayed, now)
             joined == jobs \o JobsOf(U)
  <2>1. delayed \in Seq(Entries) /\ now \in Nat /\ jobs \in Seq(Jobs)
    BY <1>0 DEF Typed
  <2>2. U \in Seq(Entries) /\ AfterDue(delayed, now) \in Seq(Entries)
    BY <2>1, CutFacts
  <2>3. JobsOf(U) \in Seq(Jobs)
    BY <2>2, JobsFacts
  <2>4. joined \in Seq(Jobs)
    BY <2>1, <2>3, ConcatFacts
  <2> HIDE DEF joined
  <2>5. joined # <<>> => Tail(joined) \in Seq(Jobs) /\ Head(joined) \in Jobs
    BY <2>4, TailFacts
  <2>6. delayed' \in Seq(Entries)
    BY <1>9, <2>2 DEF TakeJob
  <2>7. \/ joined = <<>> /\ UNCHANGED <<jobs, current>>
        \/ joined # <<>> /\ jobs' = Tail(joined) /\ current' = <<Head(joined)>>
    BY <1>9 DEF TakeJob, joined
  <2>8. jobs' \in Seq(Jobs) /\ current' \in Seq(Jobs)
    <3>1. current \in Seq(Jobs)
      BY <1>0 DEF Typed
    <3>2. joined # <<>> => <<Head(joined)>> \in Seq(Jobs)
      <4> DEFINE h == Head(joined)
      <4>1. joined # <<>> => h \in Jobs
        BY <2>5
      <4> HIDE DEF h
      <4>2. joined # <<>> => <<h>> \in Seq(Jobs)
        BY <4>1
      <4> QED
        BY <4>2 DEF h
    <3> QED
      BY <2>1, <2>5, <2>7, <3>1, <3>2
  <2>9. pc' \in {"idle", "popped"}
    BY <1>9 DEF TakeJob
  <2> QED
    BY <1>0, <1>9, <2>6, <2>8, <2>9 DEF Typed, TakeJob, taskVars, stopVars
<1>10. CASE StartJob
  <2>1. ran \in Seq(Jobs) /\ current \in Seq(Jobs) /\ <<>> \in Seq(Jobs)
    BY <1>0, EmptySeq DEF Typed
  <2>2. ran \o current \in Seq(Jobs)
    BY <2>1, ConcatFacts
  <2> QED
    BY <1>0, <1>10, <2>1, <2>2 DEF Typed, StartJob, postVars, taskVars
<1>11. CASE UNCHANGED vars
  BY <1>0, <1>11 DEF Typed, vars, postVars, taskVars, stopVars, pumpVars
<1> QED
  BY <1>1, <1>2, <1>3, <1>4, <1>5, <1>6, <1>7, <1>8, <1>9, <1>10, <1>11 DEF Next

LEMMA NextControl == IInv /\ [Next]_vars => ControlOK'
<1> SUFFICES ASSUME IInv, [Next]_vars PROVE ControlOK'
  OBVIOUS
<1>0. ControlOK /\ pc \in {"idle", "loop", "drain", "dequeued", "task", "runjobs",
                          "fetched", "recheck", "take", "popped", "job"}
  BY DEF IInv, Typed
<1>1. CASE Tick
  BY <1>0, <1>1 DEF ControlOK, Tick, postVars, taskVars, stopVars, pumpVars
<1>2. ASSUME NEW j \in Jobs, PostJob(j) PROVE ControlOK'
  BY <1>0, <1>2 DEF ControlOK, PostJob, taskVars, stopVars, pumpVars
<1>3. ASSUME NEW j \in Jobs, NEW d \in Delays, PostDelayedJob(j, d) PROVE ControlOK'
  BY <1>0, <1>3 DEF ControlOK, PostDelayedJob, taskVars, stopVars, pumpVars
<1>4. ASSUME NEW e \in asking, QueueDelayed(e) PROVE ControlOK'
  BY <1>0, <1>4 DEF ControlOK, QueueDelayed, taskVars, stopVars, pumpVars
<1>5. CASE TerminateExecution \/ CancelTerminateExecution
  BY <1>0, <1>5
  DEF ControlOK, TerminateExecution, CancelTerminateExecution, postVars, taskVars, pumpVars
<1>6. ASSUME NEW c \in Tasks, QueueTask(c) \/ SettleOffThread(c) PROVE ControlOK'
  BY <1>0, <1>6 DEF ControlOK, QueueTask, SettleOffThread, postVars, stopVars, pumpVars
<1>7. CASE PumpJobs \/ BeginTurn \/ TaskEnds \/ Drained
  BY <1>0, <1>7
  DEF ControlOK, PumpJobs, BeginTurn, TaskEnds, Drained, postVars, taskVars, stopVars
<1>8. CASE RunJobsReturns \/ Recheck \/ JobReturns
  BY <1>0, <1>8
  DEF ControlOK, RunJobsReturns, Recheck, JobReturns, postVars, taskVars, stopVars
<1>9. CASE StartTask
  BY <1>0, <1>9 DEF ControlOK, StartTask, Counted, postVars, taskVars
<1>10. CASE Drain
  BY <1>0, <1>10 DEF ControlOK, Drain, postVars, stopVars
<1>11. CASE RunJobs
  BY <1>0, <1>11 DEF ControlOK, RunJobs, postVars, taskVars, stopVars
<1>12. CASE TakeJob
  BY <1>0, <1>12 DEF ControlOK, TakeJob, taskVars, stopVars
<1>13. CASE StartJob
  BY <1>0, <1>13 DEF ControlOK, StartJob, Counted, postVars, taskVars
<1>14. CASE UNCHANGED vars
  BY <1>0, <1>14 DEF ControlOK, vars, postVars, taskVars, stopVars, pumpVars
<1> QED
  BY <1>1, <1>2, <1>3, <1>4, <1>5, <1>6, <1>7, <1>8, <1>9, <1>10, <1>11, <1>12, <1>13, <1>14
  DEF Next

(* A step that leaves the posts and the delayed entries alone and moves    *)
(* jobs only along the line.                                               *)
LEMMA StillOK ==
  ASSUME IInv, UNCHANGED <<posted, delayed, waiting, passed>>, asking' \subseteq asking,
         Line' = Line, now' \in Nat, now' >= now
  PROVE  Rest'
<1> USE DEF IInv
<1>1. PostsOK'
  BY DEF PostsOK, Queued, DueOK
<1>2. DelayedOK'
  BY DEF DelayedOK
<1>3. LineOK'
  BY DEF LineOK, Queued
<1>4. WaitingOK' /\ PassedOK' /\ OrderOK'
  BY DEF WaitingOK, PassedOK, Queued, OrderOK, Ahead
<1>5. FloorOK'
  <2>1. \A i \in 1 .. Len(posted) : posted[i].from + posted[i].delay \in Nat
    BY LineFacts DEF Entries
  <2>2. now \in Nat
    BY TimeAssumption DEF Typed
  <2> QED
    BY <2>1, <2>2 DEF FloorOK
<1> QED
  BY <1>1, <1>2, <1>3, <1>4, <1>5 DEF Rest

LEMMA PostJobStep ==
  ASSUME IInv, NEW j \in Jobs, PostJob(j)
  PROVE  Rest'
<1>0. Typed /\ now \in Nat
  BY TimeAssumption DEF IInv, Typed
<1>1. UNCHANGED <<now, asking, ran, current>>
  BY DEF PostJob, pumpVars
<1>2. CASE Refused
  <2>1. Line' = Line
    BY <1>1, <1>2 DEF Refused, Line
  <2> QED
    BY <1>0, <1>1, <1>2, <2>1, StillOK DEF Refused, orderVars
<1>3. CASE /\ jobs' = Append(jobs, j)
           /\ Recorded(Undelayed(j))
           /\ UNCHANGED delayed
  <2> DEFINE e == Undelayed(j)
             p == Base
             r == JobsOf(delayed)
             l == Len(posted)
  <2>1. e \in Entries /\ e.job = j /\ e.delay = 0 /\ e.from = 0 /\ e.due = 0
    BY DEF Undelayed, Entries
  <2>2. /\ ran \o current \in Seq(Jobs) /\ p \in Seq(Jobs) /\ r \in Seq(Jobs)
        /\ Line = p \o r /\ l \in Nat
        /\ ToSet(Line) = ToSet(p) \cup ToSet(r)
        /\ \A i \in 1 .. l : posted[i] \in Entries
        /\ Queued = {posted[i].job : i \in 1 .. l}
        /\ ToSet(r) = {delayed[i].job : i \in 1 .. Len(delayed)}
    BY <1>0, LineFacts
  <2>3. jobs \in Seq(Jobs) /\ posted \in Seq(Entries)
    BY <1>0 DEF Typed
  <2>4. Line' = p \o <<j>> \o r
    <3> DEFINE rc == ran \o current
    <3>1. Append(jobs, j) = jobs \o <<j>>
      BY <2>3, AppendIsConcat
    <3>2. <<j>> \in Seq(Jobs)
      OBVIOUS
    <3>3. Line' = rc \o (jobs \o <<j>>) \o r
      BY <1>1, <1>3, <3>1 DEF Line
    <3>4. rc \in Seq(Jobs)
      BY <2>2
    <3> HIDE DEF rc
    <3>5. rc \o (jobs \o <<j>>) = (rc \o jobs) \o <<j>>
      BY <2>3, <3>2, <3>4, ConcatAssociative
    <3>6. rc \o jobs = p
      BY DEF rc, Base
    <3> QED
      BY <3>3, <3>5, <3>6
  <2>5. j \notin Queued /\ \A f \in asking' : f.job # j
    BY <1>1 DEF PostJob, Called
  <2>6. ASSUME NEW i \in 1 .. l
        PROVE  posted[i].job \in IF GivesWay(i, e) THEN ToSet(r) ELSE ToSet(p)
    <3>1. posted[i].job \in ToSet(p) \cup ToSet(r)
      BY <2>2 DEF IInv, LineOK
    <3>2. CASE posted[i].job \in ToSet(r)
      <4>1. PICK n \in 1 .. Len(delayed) : delayed[n].job = posted[i].job
        BY <2>2, <3>2
      <4>2. delayed[n] = posted[i]
        BY <4>1, StillDelayed
      <4>3. posted[i] \in waiting
        BY <4>2, <1>0, LenProperties DEF IInv, WaitingOK, ToSet, Typed
      <4>4. posted[i].delay > 0 /\ DueOK(posted[i])
        BY <4>2 DEF IInv, DelayedOK, PostsOK
      <4>5. posted[i].due > 0
        <5>1. posted[i].from \in Nat /\ posted[i].delay \in Nat
          BY <2>2 DEF Entries
        <5>2. ClockMax \in Nat /\ ClockMax > 0
          BY TimeAssumption
        <5> QED
          BY <4>4, <5>1, <5>2 DEF DueOK
      <4> QED
        BY <2>1, <3>2, <4>3, <4>5 DEF GivesWay
    <3>3. CASE posted[i].job \notin ToSet(r)
      <4>1. posted[i] \notin waiting
        <5>1. waiting \in SUBSET {delayed[n] : n \in 1 .. Len(delayed)}
          BY <1>0, LenProperties DEF IInv, WaitingOK, ToSet, Typed
        <5> QED
          BY <5>1, <2>2, <3>3
      <4> QED
        BY <3>1, <3>3, <4>1 DEF GivesWay
    <3> QED
      BY <3>2, <3>3
  <2>7. Recorded(e) /\ Line' = p \o <<e.job>> \o r /\ asking' \subseteq asking
    BY <1>1, <1>3, <2>1, <2>4
  <2>8. e.job \notin Queued /\ \A f \in asking' : f.job # e.job
    BY <2>1, <2>5
  <2> HIDE DEF e, p, r, l
  <2>9. ~(e.delay > 0)
    BY <2>1
  <2>10. PostsOK' /\ PassedOK' /\ LineOK' /\ OrderOK'
    <3>1. \A i \in 1 .. Len(posted) :
            posted[i].job \in IF GivesWay(i, e) THEN ToSet(r) ELSE ToSet(p)
      BY <2>6 DEF l
    <3> QED
      BY <2>1, <2>2, <2>7, <2>8, <2>9, <3>1, Posting
  <2>11. /\ Len(posted') = l + 1
         /\ \A i \in 1 .. l : posted'[i] = posted[i]
         /\ posted'[l + 1] = e
    BY <2>1, <2>3, <2>7, AppendFacts DEF l, Recorded
  <2>12. WaitingOK'
    BY <1>3, <2>7, <2>9 DEF IInv, WaitingOK, Recorded
  <2>13. DelayedOK'
    <3>1. \A i \in 1 .. l : i \in 1 .. l + 1
      BY <2>2
    <3>2. \A n \in 1 .. Len(delayed) :
            delayed[n].delay > 0 /\ \E i \in 1 .. l : posted[i] = delayed[n]
      BY DEF IInv, DelayedOK, l
    <3>3. \A n \in 1 .. Len(delayed) : \E i \in 1 .. l + 1 : posted'[i] = delayed[n]
      BY <3>1, <3>2, <2>11
    <3>4. InOrder(delayed)
      BY DEF IInv, DelayedOK
    <3> QED
      BY <1>3, <2>11, <3>2, <3>3, <3>4 DEF DelayedOK
  <2>14. FloorOK'
    <3>1. ASSUME NEW i \in 1 .. l + 1, posted'[i].job \notin ToSet(r)
          PROVE  posted'[i].from + posted'[i].delay <= now
      <4>1. CASE i = l + 1
        BY <4>1, <2>1, <2>11, <1>0
      <4>2. CASE i \in 1 .. l
        BY <4>2, <3>1, <2>11 DEF IInv, FloorOK, l, r
      <4> QED
        BY <4>1, <4>2, <2>2
    <3> QED
      BY <1>1, <1>3, <2>11, <3>1 DEF FloorOK, r
  <2> QED
    BY <2>10, <2>12, <2>13, <2>14 DEF Rest
<1> QED
  BY <1>2, <1>3 DEF PostJob

(* Four sequences in a row, however they are bracketed.                    *)
LEMMA Regrouped ==
  \A s, t, u, v \in Seq(Jobs) : ((s \o t) \o u) \o v = s \o ((t \o u) \o v)
<1> TAKE s, t, u, v \in Seq(Jobs)
<1> DEFINE w == t \o u
<1>1. w \in Seq(Jobs)
  BY ConcatFacts
<1>2. (s \o t) \o u = s \o w
  BY ConcatAssociative
<1> HIDE DEF w
<1>3. (s \o w) \o v = s \o (w \o v)
  BY <1>1, ConcatAssociative
<1> QED
  BY <1>2, <1>3 DEF w

LEMMA QueueDelayedStep ==
  ASSUME IInv, NEW e \in asking, QueueDelayed(e)
  PROVE  Rest'
<1>0. Typed /\ now \in Nat
  BY TimeAssumption DEF IInv, Typed
<1>1. UNCHANGED <<now, ran, current>> /\ asking' = asking \ {e}
  BY DEF QueueDelayed, pumpVars
<1>2. CASE Refused
  <2>1. Line' = Line
    BY <1>1, <1>2 DEF Refused, Line
  <2> QED
    BY <1>0, <1>1, <1>2, <2>1, StillOK DEF Refused, orderVars
<1>3. CASE /\ delayed' = Emplace(delayed, e)
           /\ Recorded(e)
           /\ UNCHANGED jobs
  <2> DEFINE U == UpToDue(delayed, e.due)
             A == AfterDue(delayed, e.due)
             JU == JobsOf(U)
             JA == JobsOf(A)
             p == Base \o JU
             l == Len(posted)
  <2>1. e \in Entries /\ e.delay > 0 /\ DueOK(e) /\ e.job \notin Queued
    BY <1>0 DEF Typed, IInv, PostsOK
  <2>2. e.due \in Nat /\ e.job \in Jobs /\ e.delay \in Nat
    BY <2>1 DEF Entries
  <2>3. delayed \in Seq(Entries) /\ InOrder(delayed) /\ posted \in Seq(Entries)
    BY <1>0 DEF Typed, IInv, DelayedOK
  <2>4. /\ Base \in Seq(Jobs) /\ JobsOf(delayed) \in Seq(Jobs)
        /\ Line = Base \o JobsOf(delayed) /\ l \in Nat
        /\ ToSet(Line) = ToSet(Base) \cup ToSet(JobsOf(delayed))
        /\ \A i \in 1 .. l : posted[i] \in Entries
        /\ Queued = {posted[i].job : i \in 1 .. l}
    BY <1>0, LineFacts
  <2>5. /\ U \in Seq(Entries) /\ A \in Seq(Entries)
        /\ JobsOf(delayed) = JU \o JA
    BY <2>2, <2>3, CutFacts
  <2>6. PICK n \in 0 .. Len(delayed) :
          /\ Len(U) = n
          /\ Len(A) = Len(delayed) - n
          /\ \A i \in 1 .. n : U[i] = delayed[i] /\ delayed[i].due <= e.due
          /\ \A i \in 1 .. Len(delayed) - n : A[i] = delayed[n + i]
          /\ \A i \in 1 .. Len(delayed) - n : e.due < A[i].due
    BY <2>2, <2>3, CutFacts
  <2>7. /\ delayed' \in Seq(Entries)
        /\ JobsOf(delayed') = JU \o <<e.job>> \o JA
        /\ InOrder(delayed')
        /\ \A i \in 1 .. Len(delayed') :
             delayed'[i] = e \/ \E m \in 1 .. Len(delayed) : delayed'[i] = delayed[m]
        /\ ToSet(delayed') = ToSet(delayed) \cup {e}
    BY <1>3, <2>1, <2>3, EmplaceFacts
  <2>8. /\ JU \in Seq(Jobs) /\ JA \in Seq(Jobs)
        /\ ToSet(JA) = {A[i].job : i \in 1 .. Len(A)}
        /\ ToSet(JU) = {U[i].job : i \in 1 .. Len(U)}
    BY <2>5, JobsFacts
  <2>9. Len(delayed) \in Nat
    BY <2>3, LenProperties
  <2>s. JU \in Seq(Jobs) /\ JA \in Seq(Jobs)
    BY <2>8
  <2>b. Base \in Seq(Jobs)
    BY <2>4
  <2> HIDE DEF U, A, JU, JA, l
  <2>10. /\ p \in Seq(Jobs) /\ ToSet(p) = ToSet(Base) \cup ToSet(JU)
         /\ ToSet(JobsOf(delayed)) = ToSet(JU) \cup ToSet(JA)
    <3>1. p \in Seq(Jobs) /\ ToSet(p) = ToSet(Base) \cup ToSet(JU)
      BY <2>s, <2>b, ConcatFacts
    <3>2. ToSet(JU \o JA) = ToSet(JU) \cup ToSet(JA)
      BY <2>s, ConcatFacts
    <3> QED
      BY <3>1, <3>2, <2>5
  <2>11. Line = p \o JA
    <3>1. Base \o (JU \o JA) = (Base \o JU) \o JA
      BY <2>s, <2>b, ConcatAssociative
    <3> QED
      BY <3>1, <2>4, <2>5
  <2>12. Line' = p \o <<e.job>> \o JA
    <3> DEFINE b == <<e.job>>
    <3>1. b \in Seq(Jobs)
      BY <2>2
    <3>2. Line' = Base \o ((JU \o b) \o JA)
      BY <1>1, <1>3, <2>7 DEF Line, Base
    <3> HIDE DEF b
    <3>3. ((Base \o JU) \o b) \o JA = Base \o ((JU \o b) \o JA)
      <4>1. Base \in Seq(Jobs)
        BY <2>b
      <4>2. JU \in Seq(Jobs)
        BY <2>s
      <4>3. JA \in Seq(Jobs)
        BY <2>s
      <4>4. b \in Seq(Jobs)
        BY <3>1
      <4>5. \A u, v \in Seq(Jobs) : ((Base \o JU) \o u) \o v = Base \o ((JU \o u) \o v)
        BY <4>1, <4>2, Regrouped
      <4>6. \A v \in Seq(Jobs) : ((Base \o JU) \o b) \o v = Base \o ((JU \o b) \o v)
        BY <4>5, <4>4
      <4> QED
        BY <4>3, <4>6
    <3> QED
      BY <3>2, <3>3 DEF b
  <2>13. ASSUME NEW i \in 1 .. l
         PROVE  posted[i].job \in IF GivesWay(i, e) THEN ToSet(JA) ELSE ToSet(p)
    <3>1. posted[i].job \in ToSet(Base) \cup (ToSet(JU) \cup ToSet(JA))
      BY <2>4, <2>10 DEF IInv, LineOK
    <3>2. posted[i].due \in Nat
      BY <2>4 DEF Entries
    <3>3. CASE posted[i].job \in ToSet(JA)
      <4>1. PICK m \in 1 .. Len(A) : A[m].job = posted[i].job
        BY <2>8, <3>3
      <4>2. m \in 1 .. Len(delayed) - n /\ n + m \in 1 .. Len(delayed)
        BY <2>6, <2>9
      <4>3. A[m] = delayed[n + m] /\ e.due < A[m].due
        BY <4>2, <2>6
      <4>4. delayed[n + m] = posted[i]
        BY <4>1, <4>2, <4>3, StillDelayed DEF l
      <4>5. posted[i] \in waiting
        BY <4>2, <4>4, <2>3, LenProperties DEF IInv, WaitingOK, ToSet
      <4> QED
        BY <3>3, <4>3, <4>4, <4>5 DEF GivesWay
    <3>4. CASE posted[i].job \notin ToSet(JA)
      <4>1. ~GivesWay(i, e)
        <5> SUFFICES ASSUME NEW m \in 1 .. Len(delayed), delayed[m] = posted[i]
                     PROVE  ~(e.due < posted[i].due)
          BY <2>3, LenProperties DEF GivesWay, IInv, WaitingOK, ToSet
        <5>1. CASE m \in 1 .. n
          BY <5>1, <2>2, <2>6, <3>2
        <5>2. CASE m \notin 1 .. n
          <6>1. m - n \in 1 .. Len(delayed) - n /\ n + (m - n) = m
            BY <5>2, <2>9
          <6>2. A[m - n].job = posted[i].job /\ m - n \in 1 .. Len(A)
            BY <6>1, <2>6
          <6> QED
            BY <6>2, <2>8, <3>4
        <5> QED
          BY <5>1, <5>2
      <4> QED
        BY <3>1, <3>4, <4>1, <2>10
    <3> QED
      BY <3>3, <3>4
  <2>14. PostsOK' /\ PassedOK' /\ LineOK' /\ OrderOK' /\ Queued' = Queued \cup {e.job}
    <3>1. \A i \in 1 .. Len(posted) :
            posted[i].job \in IF GivesWay(i, e) THEN ToSet(JA) ELSE ToSet(p)
      BY <2>13 DEF l
    <3>2. asking' \subseteq asking /\ \A f \in asking' : f.job # e.job
      BY <1>1 DEF IInv, PostsOK
    <3> HIDE DEF p
    <3> QED
      BY <1>3, <2>1, <2>8, <2>10, <2>11, <2>12, <3>1, <3>2, Posting
  <2>15. /\ Len(posted') = l + 1
         /\ \A i \in 1 .. l : posted'[i] = posted[i]
         /\ posted'[l + 1] = e
    BY <1>3, <2>1, <2>3, AppendFacts DEF l, Recorded
  <2>16. WaitingOK'
    <3>1. waiting' = waiting \cup {e}
      BY <1>3, <2>1 DEF Recorded
    <3> QED
      BY <3>1, <2>7 DEF IInv, WaitingOK
  <2>17. DelayedOK'
    <3>1. \A m \in 1 .. Len(delayed) :
            delayed[m].delay > 0 /\ \E i \in 1 .. l : posted[i] = delayed[m]
      BY DEF IInv, DelayedOK, l
    <3>2. \A i \in 1 .. l : i \in 1 .. l + 1
      BY <2>4
    <3>3. l + 1 \in 1 .. l + 1
      BY <2>4
    <3>4. ASSUME NEW m \in 1 .. Len(delayed')
          PROVE  delayed'[m].delay > 0 /\ \E i \in 1 .. l + 1 : posted'[i] = delayed'[m]
      <4>1. CASE delayed'[m] = e
        BY <4>1, <3>3, <2>1, <2>15
      <4>2. CASE \E q \in 1 .. Len(delayed) : delayed'[m] = delayed[q]
        BY <4>2, <3>1, <3>2, <2>15
      <4> QED
        BY <4>1, <4>2, <2>7
    <3> QED
      BY <2>7, <2>15, <3>4 DEF DelayedOK
  <2>18. FloorOK'
    <3>1. ToSet(JobsOf(delayed')) = ToSet(JobsOf(delayed)) \cup {e.job}
      <4> DEFINE b == <<e.job>>
      <4>1. b \in Seq(Jobs) /\ ToSet(b) = {e.job}
        BY <2>2 DEF ToSet
      <4>2. JobsOf(delayed') = (JU \o b) \o JA
        BY <2>7
      <4> HIDE DEF b
      <4>3. JU \o b \in Seq(Jobs) /\ ToSet(JU \o b) = ToSet(JU) \cup ToSet(b)
        BY <2>s, <4>1, ConcatFacts
      <4>4. ToSet((JU \o b) \o JA) = ToSet(JU \o b) \cup ToSet(JA)
        <5> DEFINE c == JU \o b
        <5>1. c \in Seq(Jobs)
          BY <4>3
        <5> HIDE DEF c
        <5>2. ToSet(c \o JA) = ToSet(c) \cup ToSet(JA)
          BY <2>s, <5>1, ConcatFacts
        <5> QED
          BY <5>2 DEF c
      <4> QED
        BY <4>1, <4>2, <4>3, <4>4, <2>10
    <3>2. ASSUME NEW i \in 1 .. l + 1, posted'[i].job \notin ToSet(JobsOf(delayed'))
          PROVE  posted'[i].from + posted'[i].delay <= now
      <4>1. i # l + 1
        BY <3>1, <3>2, <2>15
      <4>2. i \in 1 .. l
        BY <4>1, <2>4
      <4> QED
        BY <3>1, <3>2, <4>2, <2>15 DEF IInv, FloorOK, l
    <3> QED
      BY <1>1, <2>15, <3>2 DEF FloorOK
  <2> QED
    BY <2>14, <2>16, <2>17, <2>18 DEF Rest
<1> QED
  BY <1>2, <1>3 DEF QueueDelayed

(* What falls due moves from the head of the delayed entries to the back   *)
(* of the queue: the line stays as it was, and who leaves has waited.      *)
LEMMA TakeJobStep ==
  ASSUME IInv, TakeJob
  PROVE  Rest'
<1> DEFINE U == UpToDue(delayed, now)
           A == AfterDue(delayed, now)
           JU == JobsOf(U)
           JA == JobsOf(A)
           joined == jobs \o JU
           l == Len(posted)
<1>0. Typed /\ now \in Nat
  BY TimeAssumption DEF IInv, Typed
<1>1. UNCHANGED <<now, asking, posted, passed, ran>> /\ delayed' = A /\ current = <<>>
  BY DEF TakeJob, FoundDue, IInv, ControlOK
<1>2. /\ delayed \in Seq(Entries) /\ InOrder(delayed)
      /\ ran \in Seq(Jobs) /\ jobs \in Seq(Jobs)
  BY <1>0 DEF Typed, IInv, DelayedOK
<1>3. /\ U \in Seq(Entries) /\ A \in Seq(Entries)
      /\ JobsOf(delayed) = JU \o JA
  BY <1>0, <1>2, CutFacts
<1>4. PICK n \in 0 .. Len(delayed) :
        /\ Len(U) = n
        /\ Len(A) = Len(delayed) - n
        /\ \A i \in 1 .. n : U[i] = delayed[i] /\ delayed[i].due <= now
        /\ \A i \in 1 .. Len(delayed) - n : A[i] = delayed[n + i]
        /\ \A i \in 1 .. Len(delayed) - n : now < A[i].due
  BY <1>0, <1>2, CutFacts
<1>5. /\ JU \in Seq(Jobs) /\ JA \in Seq(Jobs)
      /\ ToSet(JA) = {A[i].job : i \in 1 .. Len(A)}
      /\ ToSet(JU) = {U[i].job : i \in 1 .. Len(U)}
  BY <1>3, JobsFacts
<1>6. Len(delayed) \in Nat
  BY <1>2, LenProperties
<1>7. /\ l \in Nat
      /\ \A i \in 1 .. l : posted[i] \in Entries
  BY <1>0, LineFacts
<1>8. \/ joined = <<>> /\ UNCHANGED <<jobs, current>>
      \/ joined # <<>> /\ jobs' = Tail(joined) /\ current' = <<Head(joined)>>
  BY DEF TakeJob
<1> HIDE DEF U, A, JU, JA, l, joined
<1>9. JU \in Seq(Jobs) /\ JA \in Seq(Jobs)
  BY <1>5
<1>10. joined \in Seq(Jobs)
  BY <1>2, <1>9, ConcatFacts DEF joined
<1>11. Line = ran \o (joined \o JA)
  <2>1. ran \o current = ran
    BY <1>1, <1>2, ConcatEmptySeq
  <2>2. Line = (ran \o jobs) \o (JU \o JA)
    BY <1>3, <2>1 DEF Line
  <2>3. ran \o jobs \in Seq(Jobs)
    BY <1>2, ConcatFacts
  <2>4. \A s \in Seq(Jobs) : (s \o JU) \o JA = s \o (JU \o JA)
    BY <1>9, ConcatAssociative
  <2>5. (ran \o jobs) \o (JU \o JA) = ((ran \o jobs) \o JU) \o JA
    BY <2>3, <2>4
  <2>6. ((ran \o jobs) \o JU) \o JA = ran \o ((jobs \o JU) \o JA)
    <3>1. \A u, v \in Seq(Jobs) : ((ran \o jobs) \o u) \o v = ran \o ((jobs \o u) \o v)
      BY <1>2, Regrouped
    <3> QED
      BY <3>1, <1>9
  <2> QED
    BY <2>2, <2>5, <2>6 DEF joined
<1>12. current' \o jobs' = joined /\ current' \in Seq(Jobs) /\ jobs' \in Seq(Jobs)
  <2>1. CASE joined = <<>> /\ UNCHANGED <<jobs, current>>
    <3>1. jobs = <<>>
      <4>1. jobs \o JU = <<>> <=> jobs = <<>> /\ JU = <<>>
        BY <1>2, <1>9, ConcatEqualIffEmpty
      <4> QED
        BY <4>1, <2>1 DEF joined
    <3>2. current' = <<>> /\ jobs' = <<>>
      BY <1>1, <2>1, <3>1
    <3>3. <<>> \in Seq(Jobs)
      BY EmptySeq
    <3>4. <<>> \o <<>> = <<>>
      BY <3>3, ConcatEmptySeq
    <3> QED
      BY <2>1, <3>2, <3>3, <3>4
  <2>2. CASE joined # <<>> /\ jobs' = Tail(joined) /\ current' = <<Head(joined)>>
    <3> DEFINE h == Head(joined)
               b == <<h>>
               tl == Tail(joined)
    <3>1. /\ h \in Jobs /\ h = joined[1] /\ tl \in Seq(Jobs) /\ Len(tl) = Len(joined) - 1
          /\ \A i \in 1 .. Len(joined) - 1 : tl[i] = joined[i + 1]
          /\ Len(joined) \in Nat /\ Len(joined) > 0
      BY <1>10, <2>2, TailFacts
    <3> HIDE DEF h, tl
    <3>2. b \in Seq(Jobs) /\ Len(b) = 1 /\ b[1] = h
      BY <3>1
    <3> HIDE DEF b
    <3>3. b \in Seq(Jobs) /\ tl \in Seq(Jobs)
      BY <3>1, <3>2
    <3>4. /\ b \o tl \in Seq(Jobs) /\ Len(b \o tl) = Len(b) + Len(tl)
          /\ \A i \in 1 .. Len(b) + Len(tl) :
               (b \o tl)[i] = IF i <= Len(b) THEN b[i] ELSE tl[i - Len(b)]
      BY <3>3, ConcatFacts
    <3>5. Len(b \o tl) = Len(joined)
      BY <3>1, <3>2, <3>4
    <3>6. ASSUME NEW i \in 1 .. Len(joined) PROVE (b \o tl)[i] = joined[i]
      <4>1. CASE i = 1
        <5>1. 1 \in 1 .. Len(b) + Len(tl) /\ 1 <= Len(b)
          BY <3>1, <3>2
        <5> QED
          BY <4>1, <5>1, <3>1, <3>2, <3>4
      <4>2. CASE i # 1
        <5>1. /\ i \in 1 .. Len(b) + Len(tl) /\ ~(i <= Len(b)) /\ i - Len(b) = i - 1
              /\ i - 1 \in 1 .. Len(joined) - 1 /\ (i - 1) + 1 = i
          BY <4>2, <3>1, <3>2
        <5>2. (b \o tl)[i] = tl[i - 1] /\ tl[i - 1] = joined[(i - 1) + 1]
          BY <5>1, <3>1, <3>4
        <5> QED
          BY <5>1, <5>2
      <4> QED
        BY <4>1, <4>2
    <3>7. b \o tl = joined
      <4>1. b \o tl \in Seq(Jobs)
        BY <3>4
      <4> QED
        BY <1>10, <4>1, <3>5, <3>6, SeqEqual
    <3> QED
      BY <2>2, <3>3, <3>7 DEF b, h, tl
  <2> QED
    BY <1>8, <2>1, <2>2
<1>13. Line' = Line
  <2> DEFINE c == current'
             q == jobs'
  <2>1. Line' = ((ran \o c) \o q) \o JA
    BY <1>1 DEF Line, JA
  <2>2. c \in Seq(Jobs) /\ q \in Seq(Jobs) /\ c \o q = joined
    BY <1>12
  <2> HIDE DEF c, q
  <2>3. \A u, v \in Seq(Jobs) : ((ran \o u) \o v) \o JA = ran \o ((u \o v) \o JA)
    <3>1. ran \in Seq(Jobs)
      BY <1>2
    <3>2. \A u, v, w \in Seq(Jobs) : ((ran \o u) \o v) \o w = ran \o ((u \o v) \o w)
      BY <3>1, Regrouped
    <3> QED
      BY <3>2, <1>9
  <2>4. ((ran \o c) \o q) \o JA = ran \o ((c \o q) \o JA)
    BY <2>2, <2>3
  <2> QED
    BY <2>1, <2>2, <2>4, <1>11
<1>14. PostsOK' /\ WaitingOK' /\ PassedOK' /\ LineOK' /\ OrderOK'
  <2>1. PostsOK' /\ PassedOK'
    BY <1>1 DEF IInv, PostsOK, PassedOK, Queued, DueOK
  <2>2. LineOK' /\ OrderOK'
    BY <1>1, <1>13 DEF IInv, LineOK, OrderOK, Ahead, Queued
  <2>3. WaitingOK'
    <3>1. ToSet(delayed) = {delayed[i] : i \in 1 .. Len(delayed)}
      BY <1>2, LenProperties DEF ToSet
    <3>2. ToSet(A) = {A[i] : i \in 1 .. Len(delayed) - n}
      BY <1>3, <1>4, LenProperties DEF ToSet
    <3>3. waiting' = {v \in ToSet(delayed) : v.due > now}
      BY DEF TakeJob, FoundDue, IInv, WaitingOK
    <3>4. \A i \in 1 .. Len(delayed) - n :
            n + i \in 1 .. Len(delayed) /\ A[i] = delayed[n + i] /\ A[i].due > now
      BY <1>4, <1>6
    <3>5. \A i \in 1 .. Len(delayed) :
            delayed[i].due > now => i - n \in 1 .. Len(delayed) - n /\ A[i - n] = delayed[i]
      <4> SUFFICES ASSUME NEW i \in 1 .. Len(delayed), delayed[i].due > now
                   PROVE  i - n \in 1 .. Len(delayed) - n /\ A[i - n] = delayed[i]
        OBVIOUS
      <4>1. delayed[i].due \in Nat
        <5>1. delayed[i] \in Entries
          BY <1>2, ElementOfSeq
        <5> QED
          BY <5>1 DEF Entries
      <4>2. ~(i <= n)
        BY <4>1, <1>0, <1>4
      <4>3. i - n \in 1 .. Len(delayed) - n /\ n + (i - n) = i
        BY <4>2, <1>6
      <4> QED
        BY <4>3, <1>4
    <3>6. waiting' = ToSet(A)
      BY <3>1, <3>2, <3>3, <3>4, <3>5
    <3> QED
      BY <1>1, <3>6 DEF WaitingOK
  <2> QED
    BY <2>1, <2>2, <2>3
<1>15. DelayedOK'
  <2>1. \A i \in 1 .. Len(delayed) - n : n + i \in 1 .. Len(delayed)
    BY <1>6
  <2>2. InOrder(A)
    <3> SUFFICES ASSUME NEW i \in 1 .. Len(delayed) - n, NEW k \in 1 .. Len(delayed) - n,
                        i <= k
                 PROVE  A[i].due <= A[k].due
      BY <1>4 DEF InOrder
    <3>1. n + i <= n + k
      BY <1>6
    <3> QED
      BY <3>1, <2>1, <1>2, <1>4 DEF InOrder
  <2>3. ASSUME NEW i \in 1 .. Len(A)
        PROVE  A[i].delay > 0 /\ \E k \in 1 .. l : posted[k] = A[i]
    <3>1. A[i] = delayed[n + i] /\ n + i \in 1 .. Len(delayed)
      BY <1>4, <2>1
    <3> QED
      BY <3>1 DEF IInv, DelayedOK, l
  <2> QED
    BY <1>1, <2>2, <2>3 DEF DelayedOK, l
<1>16. FloorOK'
  <2> SUFFICES ASSUME NEW i \in 1 .. l, posted[i].job \notin ToSet(JA)
               PROVE  posted[i].from + posted[i].delay <= now
    BY <1>1 DEF FloorOK, l, JA
  <2>1. CASE posted[i].job \notin ToSet(JobsOf(delayed))
    BY <2>1 DEF IInv, FloorOK, l
  <2>2. CASE posted[i].job \in ToSet(JobsOf(delayed))
    <3>1. ToSet(JobsOf(delayed)) = ToSet(JU) \cup ToSet(JA)
      <4>1. ToSet(JU \o JA) = ToSet(JU) \cup ToSet(JA)
        BY <1>9, ConcatFacts
      <4> QED
        BY <4>1, <1>3
    <3>2. PICK k \in 1 .. n : U[k].job = posted[i].job
      BY <2>2, <3>1, <1>4, <1>5
    <3>3. k \in 1 .. Len(delayed) /\ delayed[k].job = posted[i].job /\ delayed[k].due <= now
      BY <3>2, <1>4, <1>6
    <3>4. delayed[k] = posted[i]
      BY <3>3, StillDelayed DEF l
    <3>5. posted[i].delay > 0 /\ posted[i].due <= now
      BY <3>3, <3>4 DEF IInv, DelayedOK
    <3>6. posted[i].due \in {posted[i].from + posted[i].delay, ClockMax}
      BY <3>5 DEF IInv, PostsOK, DueOK, l
    <3>7. now < ClockMax /\ ClockMax \in Nat
      BY <1>0, TimeAssumption DEF Typed
    <3> QED
      BY <3>5, <3>6, <3>7, <1>0
  <2> QED
    BY <2>1, <2>2
<1> QED
  BY <1>14, <1>15, <1>16 DEF Rest

LEMMA NextRest == IInv /\ [Next]_vars => Rest'
<1> SUFFICES ASSUME IInv, [Next]_vars PROVE Rest'
  OBVIOUS
<1>0. Typed /\ now \in Nat
  BY TimeAssumption DEF IInv, Typed
<1>1. CASE Tick
  <2>1. /\ UNCHANGED <<asking, posted, delayed, waiting, passed, ran, current, jobs>>
        /\ now' = now + 1
    BY <1>1 DEF Tick, postVars, orderVars, pumpVars
  <2>2. Line' = Line
    BY <2>1 DEF Line
  <2>3. now' \in Nat /\ now' >= now
    BY <1>0, <2>1
  <2> QED
    BY <2>1, <2>2, <2>3, StillOK
<1>2. ASSUME NEW j \in Jobs, PostJob(j) PROVE Rest'
  BY <1>2, PostJobStep
<1>3. ASSUME NEW j \in Jobs, NEW d \in Delays, PostDelayedJob(j, d) PROVE Rest'
  <2> DEFINE e == Entry(j, d, Due(d))
  <2>1. /\ UNCHANGED <<now, posted, delayed, waiting, passed, ran, current, jobs>>
        /\ asking' = asking \cup {e} /\ d > 0 /\ j \notin Called
    BY <1>3 DEF PostDelayedJob, orderVars, pumpVars
  <2>2. DueOK(e) /\ e.job = j /\ e.delay = d
    BY <1>0, EntryFacts DEF Entry
  <2> HIDE DEF e
  <2>3. PostsOK'
    <3>1. j \notin Queued /\ \A f \in asking : f.job # j
      BY <2>1 DEF Called
    <3>2. PostsOK
      BY DEF IInv
    <3>3. Queued' = Queued
      BY <2>1 DEF Queued
    <3>4. \A f \in asking' : f.delay > 0 /\ DueOK(f) /\ f.job \notin Queued'
      BY <2>1, <2>2, <3>1, <3>2, <3>3 DEF PostsOK
    <3>5. \A f, g \in asking' : f.job = g.job => f = g
      BY <2>1, <2>2, <3>1, <3>2 DEF PostsOK
    <3>6. posted' = posted
      BY <2>1
    <3> QED
      BY <3>2, <3>4, <3>5, <3>6 DEF PostsOK, DueOK
  <2>4. DelayedOK' /\ WaitingOK' /\ PassedOK' /\ LineOK' /\ OrderOK' /\ FloorOK'
    <3>1. Line' = Line /\ Queued' = Queued
      BY <2>1 DEF Line, Queued
    <3>2. OrderOK'
      BY <2>1, <3>1 DEF IInv, OrderOK, Ahead
    <3> QED
      BY <2>1, <3>1, <3>2 DEF IInv, DelayedOK, WaitingOK, PassedOK, LineOK, FloorOK
  <2> QED
    BY <2>3, <2>4 DEF Rest
<1>4. ASSUME NEW e \in asking, QueueDelayed(e) PROVE Rest'
  BY <1>4, QueueDelayedStep
<1>5. CASE TakeJob
  BY <1>5, TakeJobStep
<1>6. CASE StartJob
  <2>1. UNCHANGED <<now, asking, posted, delayed, waiting, passed, jobs>>
        /\ ran' = ran \o current /\ current' = <<>>
    BY <1>6 DEF StartJob, postVars, orderVars
  <2>2. ran \o current \in Seq(Jobs)
    BY <1>0, LineFacts
  <2>3. (ran \o current) \o <<>> = ran \o current
    BY <2>2, ConcatEmptySeq
  <2>4. Line' = Line
    BY <2>1, <2>3 DEF Line
  <2> QED
    BY <2>1, <2>4, <1>0, StillOK
<1>7. CASE UNCHANGED <<now, postVars, pumpVars>> \/ UNCHANGED <<now, postVars, current, ran>>
  <2>1. UNCHANGED <<now, asking, posted, delayed, waiting, passed, ran, current, jobs>>
    BY <1>7 DEF postVars, orderVars, pumpVars
  <2>2. Line' = Line
    BY <2>1 DEF Line
  <2> QED
    BY <2>1, <2>2, <1>0, StillOK
<1>8. CASE \/ TerminateExecution \/ CancelTerminateExecution
           \/ \E c \in Tasks : QueueTask(c) \/ SettleOffThread(c)
           \/ UNCHANGED vars
  <2>1. UNCHANGED <<now, postVars, pumpVars>>
    BY <1>8 DEF TerminateExecution, CancelTerminateExecution, QueueTask, SettleOffThread, vars
  <2> QED
    BY <2>1, <1>7
<1>9. CASE \/ PumpJobs \/ BeginTurn \/ Drain \/ StartTask \/ TaskEnds \/ Drained
           \/ RunJobs \/ RunJobsReturns \/ Recheck \/ JobReturns
  <2>1. UNCHANGED <<now, postVars, current, ran>>
    BY <1>9 DEF PumpJobs, BeginTurn, Drain, StartTask, TaskEnds, Drained, RunJobs,
                RunJobsReturns, Recheck, JobReturns
  <2> QED
    BY <2>1, <1>7
<1> QED
  BY <1>1, <1>2, <1>3, <1>4, <1>5, <1>6, <1>8, <1>9 DEF Next

LEMMA InitIInv == Init => IInv
<1> SUFFICES ASSUME Init PROVE IInv
  OBVIOUS
<1>1. /\ Len(<<>>) = 0 /\ \A S : <<>> \in Seq(S)
  BY EmptySeq
<1>2. /\ engine \in Engines /\ now = 0 /\ asking = {} /\ delayed = <<>> /\ jobs = <<>>
      /\ posted = <<>> /\ waiting = {} /\ passed = {} /\ micro = <<>> /\ settled = {} /\ terminating = FALSE
      /\ sinceStop = 0 /\ stopIn = "other" /\ pc = "idle" /\ current = <<>> /\ ran = <<>>
  BY DEF Init
<1>3. Typed
  <2>1. 0 \in 0 .. MaxTime
    BY TimeAssumption
  <2>2. \A S : <<>> \in Seq(S)
    BY <1>1
  <2> QED
    BY <1>2, <2>1, <2>2 DEF Typed
<1>4. ControlOK
  BY <1>2 DEF ControlOK
<1>5. Len(posted) = 0 /\ Len(delayed) = 0
  BY <1>1, <1>2
<1>6. PostsOK
  BY <1>2, <1>5 DEF PostsOK
<1>7. DelayedOK /\ WaitingOK /\ PassedOK
  <2>1. ToSet(delayed) = {}
    BY <1>2 DEF ToSet
  <2> QED
    BY <1>2, <1>5, <2>1 DEF DelayedOK, InOrder, WaitingOK, PassedOK
<1>8. OrderOK /\ FloorOK
  BY <1>5 DEF OrderOK, FloorOK
<1>9. LineOK
  <2>1. JobsOf(delayed) = <<>>
    BY <1>2 DEF JobsOf
  <2>2. <<>> \in Seq(Jobs)
    BY <1>1
  <2>3. <<>> \o <<>> = <<>>
    BY <2>2, ConcatEmptySeq
  <2>4. Line = <<>>
    BY <1>2, <2>1, <2>3 DEF Line
  <2>5. IsInjective(Line) /\ ToSet(Line) = {}
    BY <2>4 DEF IsInjective, ToSet
  <2>6. Queued = {}
    BY <1>3, <1>5, LineFacts
  <2> QED
    BY <2>5, <2>6 DEF LineOK
<1> QED
  BY <1>3, <1>4, <1>6, <1>7, <1>8, <1>9 DEF IInv

(* A job that ran is not waiting for its time: it has one place.           *)
LEMMA RanIsNotDelayed ==
  ASSUME Typed, IsInjective(Line), NEW j \in ToSet(ran)
  PROVE  j \notin ToSet(JobsOf(delayed))
<1> DEFINE w == JobsOf(delayed)
           k == Len(ran)
           b == Len(Base)
<1>1. ran \in Seq(Jobs) /\ current \in Seq(Jobs) /\ jobs \in Seq(Jobs)
  BY DEF Typed
<1>2. ran \o current \in Seq(Jobs) /\ Base \in Seq(Jobs) /\ w \in Seq(Jobs) /\ Line = Base \o w
  BY LineFacts
<1>3. /\ k \in Nat /\ DOMAIN ran = 1 .. k /\ Len(current) \in Nat
      /\ Len(ran \o current) = k + Len(current)
      /\ \A i \in 1 .. k + Len(current) :
           (ran \o current)[i] = IF i <= k THEN ran[i] ELSE current[i - k]
  BY <1>1, ConcatFacts
<1>4. /\ b = k + Len(current) + Len(jobs) /\ Len(jobs) \in Nat
      /\ \A i \in 1 .. k : Base[i] = ran[i]
  <2> DEFINE c == ran \o current
  <2>1. c \in Seq(Jobs)
    BY <1>2
  <2>2. Base = c \o jobs
    BY DEF Base
  <2>3. Len(c) = k + Len(current) /\ \A i \in 1 .. k : c[i] = ran[i] /\ i <= Len(c)
    BY <1>3
  <2> HIDE DEF c
  <2>4. /\ Len(jobs) \in Nat /\ Len(c) \in Nat /\ Len(c \o jobs) = Len(c) + Len(jobs)
        /\ \A i \in 1 .. Len(c) + Len(jobs) :
             (c \o jobs)[i] = IF i <= Len(c) THEN c[i] ELSE jobs[i - Len(c)]
    BY <1>1, <2>1, ConcatFacts
  <2>5. \A i \in 1 .. k : i \in 1 .. Len(c) + Len(jobs)
    BY <1>3, <2>3, <2>4
  <2> QED
    BY <2>2, <2>3, <2>4, <2>5
<1> HIDE DEF w
<1>5. Base \in Seq(Jobs) /\ w \in Seq(Jobs)
  BY <1>2
<1>6. /\ Len(w) \in Nat /\ DOMAIN w = 1 .. Len(w) /\ b \in Nat
      /\ DOMAIN (Base \o w) = 1 .. b + Len(w)
      /\ \A i \in 1 .. b + Len(w) : (Base \o w)[i] = IF i <= b THEN Base[i] ELSE w[i - b]
  BY <1>5, ConcatFacts
<1> HIDE DEF b, k
<1> SUFFICES ASSUME j \in ToSet(w) PROVE FALSE
  BY DEF w
<1>7. PICK n \in 1 .. Len(w) : w[n] = j
  BY <1>6 DEF ToSet
<1>8. PICK m \in 1 .. k : ran[m] = j
  BY <1>3 DEF ToSet
<1>9. /\ m \in 1 .. b + Len(w) /\ m <= b /\ b + n \in 1 .. b + Len(w) /\ ~(b + n <= b)
      /\ (b + n) - b = n /\ m # b + n
  BY <1>3, <1>4, <1>6
<1>10. Line[m] = j
  BY <1>2, <1>4, <1>6, <1>8, <1>9
<1>11. Line[b + n] = j
  BY <1>2, <1>6, <1>7, <1>9
<1> QED
  BY <1>2, <1>6, <1>9, <1>10, <1>11 DEF IsInjective

-----------------------------------------------------------------------------
(* The results.                                                            *)

(* The inductive invariant holds throughout: the line has every queued job *)
(* once, in an order every post respects.                                  *)
THEOREM Invariance == Spec => []IInv
<1>1. Init => IInv
  BY InitIInv
<1>2. IInv /\ [Next]_vars => IInv'
  BY NextTyped, NextControl, NextRest DEF IInv, Rest
<1> QED
  BY <1>1, <1>2, PTL DEF Spec

(* A job that was queued is in one place at a time, and the rest of the    *)
(* state keeps its types.                                                  *)
THEOREM TypeCorrect == Spec => []TypeOK
<1>1. IInv => TypeOK
  BY DEF IInv, Typed, LineOK, Line, TypeOK
<1> QED
  BY <1>1, Invariance, PTL

(* Posted work runs once each and in one order, whatever the number of     *)
(* jobs, threads, pumps and stops: that of the posts, except that what is  *)
(* posted with an earlier time, or none, goes ahead of the delayed jobs    *)
(* that still wait for a later one, and of nothing else.                   *)
THEOREM WorkRunsInOrder == Spec => []RunOrder
<1>1. ASSUME IInv PROVE RunOrder
  <2>1. Typed
    BY <1>1 DEF IInv
  <2>2. ran \in Seq(Jobs) /\ current \in Seq(Jobs) /\ jobs \in Seq(Jobs)
    BY <2>1 DEF Typed
  <2>3. JobsOf(delayed) \in Seq(Jobs) /\ DOMAIN posted = 1 .. Len(posted)
    BY <2>1, LineFacts
  <2> DEFINE k == Len(ran)
             rest == current \o (jobs \o JobsOf(delayed))
  <2>4. Line = ran \o rest /\ rest \in Seq(Jobs)
    <3> DEFINE w == JobsOf(delayed)
    <3>1. w \in Seq(Jobs)
      BY <2>3
    <3>2. Line = ((ran \o current) \o jobs) \o w
      BY DEF Line
    <3>3. rest = current \o (jobs \o w)
      OBVIOUS
    <3> HIDE DEF w, rest
    <3>4. \A u, v \in Seq(Jobs) : ((ran \o current) \o u) \o v = ran \o ((current \o u) \o v)
      BY <2>2, Regrouped
    <3>5. ((ran \o current) \o jobs) \o w = ran \o ((current \o jobs) \o w)
      BY <2>2, <3>1, <3>4
    <3>6. \A s, u, v \in Seq(Jobs) : (s \o u) \o v = s \o (u \o v)
      BY ConcatAssociative
    <3>7. (current \o jobs) \o w = rest
      BY <2>2, <3>1, <3>3, <3>6
    <3>8. jobs \o w \in Seq(Jobs)
      BY <2>2, <3>1, ConcatFacts
    <3>9. rest \in Seq(Jobs)
      BY <2>2, <3>3, <3>8, ConcatFacts
    <3> QED
      BY <3>2, <3>5, <3>7, <3>9
  <2> HIDE DEF rest
  <2>5. rest \in Seq(Jobs)
    BY <2>4
  <2>6. /\ k \in Nat /\ Len(rest) \in Nat
        /\ DOMAIN ran = 1 .. k /\ DOMAIN (ran \o rest) = 1 .. k + Len(rest)
        /\ \A i \in 1 .. k + Len(rest) :
             (ran \o rest)[i] = IF i <= k THEN ran[i] ELSE rest[i - k]
    BY <2>2, <2>5, ConcatFacts
  <2>7. \A i \in 1 .. k : i \in DOMAIN Line /\ Line[i] = ran[i]
    BY <2>4, <2>6
  <2>a. IsInjective(ran)
    BY <1>1, <2>6, <2>7 DEF IInv, LineOK, IsInjective
  <2> SUFFICES ASSUME NEW i \in 1 .. Len(posted), NEW q \in 1 .. Len(posted), i # q,
                      Ahead(i, q),
                      NEW n \in 1 .. k, ran[n] = posted[q].job
               PROVE  \E m \in 1 .. n : ran[m] = posted[i].job
    BY <2>3, <2>6, <2>a DEF RunOrder
  <2>8. Leads(Line, posted[i].job, posted[q].job)
    BY <1>1 DEF IInv, OrderOK
  <2>9. PICK m \in 1 .. n : Line[m] = posted[i].job
    BY <2>7, <2>8 DEF Leads
  <2>10. m \in 1 .. k
    BY <2>6
  <2> QED
    BY <2>7, <2>9, <2>10
<1> QED
  BY <1>1, Invariance, PTL

(* A delay is a floor under the time a job starts, measured from the call, *)
(* and a job too late for the clock never starts.                          *)
THEOREM DelaysAreFloors == Spec => []DelayIsAFloor
<1>1. ASSUME IInv PROVE DelayIsAFloor
  <2>1. Typed
    BY <1>1 DEF IInv
  <2>2. ran \in Seq(Jobs) /\ current \in Seq(Jobs) /\ jobs \in Seq(Jobs)
    BY <2>1 DEF Typed
  <2>3. DOMAIN posted = 1 .. Len(posted) /\ JobsOf(delayed) \in Seq(Jobs)
    BY <2>1, LineFacts
  <2> SUFFICES ASSUME NEW i \in 1 .. Len(posted), posted[i].job \in ToSet(ran)
               PROVE  posted[i].job \notin ToSet(JobsOf(delayed))
    BY <1>1, <2>3 DEF DelayIsAFloor, IInv, FloorOK
  <2> QED
    BY <1>1, <2>1, RanIsNotDelayed DEF IInv, LineOK
<1> QED
  BY <1>1, Invariance, PTL

(* A stop ends the pump it lands in and costs that pump only: one piece of *)
(* work at most still starts, and none is dropped by a stop made while no  *)
(* pump was running.                                                       *)
THEOREM StopCostsOnePump == Spec => []StopEndsOnePump
<1>1. IInv => StopEndsOnePump
  BY DEF IInv, ControlOK, StopEndsOnePump
<1> QED
  BY <1>1, Invariance, PTL

(* No piece of posted work starts while a continuation is waiting.         *)
THEOREM ContinuationsGoFirst == Spec => ContinuationsFirst
<1>1. ASSUME IInv, [Next]_vars, pc # "job", pc' = "job" PROVE micro = <<>>
  <2>1. pc = "popped"
    BY <1>1 DEF Next, Tick, PostJob, PostDelayedJob, QueueDelayed, TerminateExecution,
      CancelTerminateExecution, QueueTask, SettleOffThread, PumpJobs, BeginTurn, Drain,
      StartTask, TaskEnds, Drained, RunJobs, RunJobsReturns, Recheck, TakeJob, StartJob,
      JobReturns, vars, pumpVars
  <2> QED
    BY <1>1, <2>1 DEF IInv, ControlOK
<1>2. IInv /\ [Next]_vars => [pc # "job" /\ pc' = "job" => micro = <<>>]_vars
  BY <1>1
<1> QED
  BY <1>2, Invariance, PTL DEF Spec, ContinuationsFirst
=============================================================================
