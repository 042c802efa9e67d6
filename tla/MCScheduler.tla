---------------------------- MODULE MCScheduler ----------------------------
(***************************************************************************)
(* Two subgraphs of one graph: two roots, a task that waits for one of     *)
(* them and, across the subgraphs, one that waits for all three; both      *)
(* types on the one core of each dispatcher.                               *)
(***************************************************************************)
EXTENDS SchedulerInv

T(id, type, preds) == [id |-> id, type |-> type, predecessors |-> preds]
MCGraph == [p \in 0 .. 1 |->
    IF p = 0 THEN << T(0, 0, <<>>), T(1, 1, <<>>), T(2, 1, <<0>>) >>
             ELSE << T(3, 0, <<0, 1, 2>>) >>]

\* One core answers the handshake.
MCReplies == { [d \in 0 .. 1 |-> IF d = 0 THEN {<<0, 0, 0>>} ELSE {}] }
=============================================================================
