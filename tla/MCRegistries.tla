---------------------------- MODULE MCRegistries ----------------------------
(* A small instance of Registries for TLC: patterns of every kind, one     *)
(* message they tell apart from another, routes with two destinations or   *)
(* none, every backoff strategy.                                           *)
EXTENDS Registries

CONSTANTS h1, t1, d1, d2

MCPatterns ==
  {[kind |-> "route", value |-> <<"a", "b">>, version |-> None, headers |-> {h1}],
   [kind |-> None, value |-> <<"a", "*">>, version |-> 1, headers |-> {}],
   [kind |-> None, value |-> t1, version |-> None, headers |-> {}],
   [kind |-> "headers", value |-> <<"*", "b">>, version |-> None, headers |-> {h1}],
   [kind |-> "headers", value |-> <<"*">>, version |-> None, headers |-> {}],
   [kind |-> None, value |-> <<"*">>, version |-> None, headers |-> {}]}

MCMessages ==
  {[route |-> <<"a", "b">>, version |-> 1, headers |-> {h1}, types |-> {t1}],
   [route |-> <<"a", "b">>, version |-> 2, headers |-> {}, types |-> {}]}

MCDestinationLists == {<<>>, <<d1, d2>>}

MCMaxSequence == [router |-> 2, middleware |-> 2, emitter |-> 3]
=============================================================================
