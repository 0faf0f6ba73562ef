------------------------------- MODULE Engine --------------------------------
(***************************************************************************)
(* The backend the library was built with.  A module that models code both *)
(* backends have lets the initial state choose one, and shows where they   *)
(* differ.                                                                 *)
(***************************************************************************)
CONSTANT Engines  \* the backends to consider

ASSUME EngineAssumption == Engines \subseteq {"V8", "SpiderMonkey"}

VARIABLE engine  \* the one the library was built with
=============================================================================
