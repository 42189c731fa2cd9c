------------------------------ MODULE MCEngine ------------------------------
(* The execution engine on small sets.  The ticks are the value-initialised*)
(* one, one around the price of every order and one above it.              *)
EXTENDS EngineProperties, TLC

MCQuotes == {<<0, 0>>, <<9, 11>>, <<12, 14>>}
MCOneQuote == {<<9, 11>>}
ClientSymmetry == Permutations(Clients)
=============================================================================
