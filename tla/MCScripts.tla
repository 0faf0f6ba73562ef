------------------------------ MODULE MCScripts -------------------------------
(***************************************************************************)
(* Scripts with two sources that share a resource name; and with them the  *)
(* pure modules, whose assumptions TLC evaluates on this run.              *)
(***************************************************************************)
EXTENDS Scripts, Values, Utf8, Binary, Limits

CONSTANTS s, t, n, h1, h2

MCNameOf == [x \in {s, t} |-> n]

=============================================================================
