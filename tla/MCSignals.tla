----------------------------- MODULE MCSignals ------------------------------
(***************************************************************************)
(* Signals for TLC.  Windows are a few seconds long and in the order of    *)
(* the real ones; names with a subdomain, without one, and that are no     *)
(* domains.                                                                *)
(***************************************************************************)
EXTENDS Signals, TLC

SomeQueries == {<<"x", "a", "com">>, <<"a", "com">>, <<"b", "org">>, <<"com">>,
                <<"c", "_">>}
Symmetry ==
  Permutations(Threads) \cup Permutations(Names) \cup Permutations(Coroutines)
=============================================================================
