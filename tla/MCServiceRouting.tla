-------------------------- MODULE MCServiceRouting -------------------------
(***************************************************************************)
(* ServiceRouting for TLC, from four kinds of initial states: no service,  *)
(* or one, with one pod and all edits to come; one service with two        *)
(* backends, so that its chain has more than one rule, or two services, so *)
(* that their chains meet, and one edit to come.                           *)
(***************************************************************************)
EXTENDS ServiceRouting

MCInit ==
    /\ Init
    /\ <<Cardinality(ExistingServices), Cardinality(ExistingPods), edits>>
         \in {<<0, 1, 0>>, <<1, 1, 0>>, <<1, 2, MaxEdits - 1>>, <<2, 1, MaxEdits - 1>>}

MCSpec == MCInit /\ [][Next]_vars /\ Fairness
=============================================================================
