----------------------------- MODULE MCTemplates ------------------------------
(***************************************************************************)
(* Templates on a small world: a class f that may inherit from g, nested   *)
(* objects, a prototype that mentions its own constructor, and a parent    *)
(* that has its child for a static member.                                 *)
(***************************************************************************)
EXTENDS Templates, Interceptors

CONSTANTS f, g, q

MCNests ==
  {<<Prototype(f), F(f)>>, <<F(g), F(f)>>, <<Prototype(g), Instance(f)>>,
   <<Instance(f), F(g)>>}
MCPlain ==
  {<<Instance(f), "accessor">>, <<Instance(f), "symbol method">>,
   <<F(g), "constant">>, <<F(g), "method">>}
MCShaped == {Instance(f)}
MCOnDemand == {Prototype(f), Instance(f), Prototype(g)}
MCAncestry == {<<f, g>>}

=============================================================================
