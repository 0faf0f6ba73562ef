-------------------------- MODULE InterruptDelivery --------------------------
(***************************************************************************)
(* What Isolate::RequestInterrupt promises on either engine                *)
(* (unibind/isolate.h): requests run on the isolate's thread in the order  *)
(* they were taken, once each; a pass begins at a check of running script, *)
(* never at one that meets a stop, and runs until nothing is waiting, a    *)
(* request made from inside a callback included.                           *)
(***************************************************************************)
EXTENDS Sequences, SequencesExt

CONSTANT Requests  \* the calls of RequestInterrupt, each made at most once

VARIABLES
  waiting,  \* requests taken and not run, in the order they were taken
  ran,      \* requests whose callback has run, in order
  passing,  \* the isolate's thread is in a pass
  stopped   \* a stop is in force

vars == <<waiting, ran, passing, stopped>>

Init ==
  /\ waiting = <<>>
  /\ ran = <<>>
  /\ passing = FALSE
  /\ stopped = FALSE

Take(r) ==
  /\ r \notin ToSet(ran \o waiting)
  /\ waiting' = Append(waiting, r)
  /\ UNCHANGED <<ran, passing, stopped>>

BeginPass ==
  /\ ~passing /\ ~stopped
  /\ passing' = TRUE
  /\ UNCHANGED <<waiting, ran, stopped>>

Run ==
  /\ passing /\ waiting # <<>>
  /\ ran' = Append(ran, Head(waiting))
  /\ waiting' = Tail(waiting)
  /\ UNCHANGED <<passing, stopped>>

EndPass ==
  /\ passing /\ waiting = <<>>
  /\ passing' = FALSE
  /\ UNCHANGED <<waiting, ran, stopped>>

Stop == stopped' = TRUE /\ UNCHANGED <<waiting, ran, passing>>
Cancel == ~passing /\ stopped' = FALSE /\ UNCHANGED <<waiting, ran, passing>>

Next ==
  \/ \E r \in Requests : Take(r)
  \/ BeginPass \/ Run \/ EndPass
  \/ Stop \/ Cancel

Spec == Init /\ [][Next]_vars
=============================================================================
