------------------------------ MODULE MCAnimus ------------------------------
(* Animus with two faculties and definitions of every shape, and items of  *)
(* which two have the same printed id.                                     *)
EXTENDS Animus

MCDefinitions ==
  {[name |-> "a", orient |-> TRUE, consolidate |-> TRUE],
   [name |-> "a", orient |-> FALSE, consolidate |-> FALSE],
   [name |-> "b", orient |-> TRUE, consolidate |-> FALSE],
   [name |-> "b", orient |-> FALSE, consolidate |-> TRUE]}
MCUuids == {<<0, 0, 0, 0>>, <<0, 0, 0, 1>>, <<0, 1, 0, 0>>, <<1, 0, 0, 0>>}
MCWide == {<<0, 1, 0, 0>>}
=============================================================================
