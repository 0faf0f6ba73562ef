-------------------------- MODULE ExceptionDelivery --------------------------
(***************************************************************************)
(* What unibind/exception.h promises of an exception: the scope it is      *)
(* thrown in has it at once - an open TryCatch catches it, script may      *)
(* catch it or be unwound by it, a native hands it to the script that      *)
(* called it - and a TryCatch keeps what it caught from everything         *)
(* further out unless ReThrow was called.  With nothing on the stack it is *)
(* uncaught and forgotten.                                                 *)
(*                                                                         *)
(* A stop is not an exception: it makes void whatever scopes it finds, and *)
(* nothing is promised of what those catch or send on.                     *)
(***************************************************************************)
EXTENDS Sequences, SequencesExt

CONSTANT Throws  \* things thrown, each once

VARIABLES
  scopes,    \* open scopes of the isolate's thread, innermost last
  thrown,    \* what has been thrown
  stopped    \* a stop is in force

vars == <<scopes, thrown, stopped>>

-----------------------------------------------------------------------------
None == "none"

(* A scope that a stop met is void from then on.                           *)
Scope(kind) == [is |-> kind, has |-> None, onward |-> FALSE, void |-> stopped]
Void(scope) == [scope EXCEPT !.has = None, !.onward = FALSE, !.void = TRUE]

(* What e, leaving the scopes above s, becomes.                            *)
Give(s, e) ==
  IF s = <<>> \/ e = None \/ Last(s).void
  THEN s
  ELSE Append(Front(s), [Last(s) EXCEPT !.has = e])

Init ==
  /\ scopes = <<>>
  /\ thrown = {}
  /\ stopped = FALSE

Enter(kind) ==
  /\ scopes' = Append(scopes, Scope(kind))
  /\ UNCHANGED <<thrown, stopped>>

Throw(e) ==
  /\ e \notin thrown
  /\ thrown' = thrown \cup {e}
  /\ scopes' = Give(scopes, e)
  /\ UNCHANGED stopped

(* What script and natives do not catch goes to the scope below; a handler *)
(* sends on what it has only if it was asked to.                           *)
Leave ==
  /\ scopes # <<>>
  /\ LET top == Last(scopes)
         sent == IF top.is # "handler" \/ top.onward THEN top.has ELSE None
     IN scopes' = Give(Front(scopes), sent)
  /\ UNCHANGED <<thrown, stopped>>

(* A catch in script, or Reset.                                            *)
Consume ==
  /\ scopes # <<>> /\ Last(scopes).is # "native"
  /\ scopes' = Append(Front(scopes),
                      [Last(scopes) EXCEPT !.has = None, !.onward = FALSE])
  /\ UNCHANGED <<thrown, stopped>>

ReThrow ==
  /\ scopes # <<>> /\ Last(scopes).is = "handler" /\ ~Last(scopes).void
  /\ scopes' = Append(Front(scopes), [Last(scopes) EXCEPT !.onward = TRUE])
  /\ UNCHANGED <<thrown, stopped>>

Stop ==
  /\ stopped' = TRUE
  /\ scopes' = [i \in DOMAIN scopes |-> Void(scopes[i])]
  /\ UNCHANGED thrown

Cancel ==
  /\ stopped' = FALSE
  /\ UNCHANGED <<scopes, thrown>>

Next ==
  \/ \E kind \in {"script", "native", "handler"} : Enter(kind)
  \/ \E e \in Throws : Throw(e)
  \/ Leave \/ Consume \/ ReThrow
  \/ Stop \/ Cancel

Spec == Init /\ [][Next]_vars
=============================================================================
