----------------------------- MODULE MCEslProxy ------------------------------
(***************************************************************************)
(* Small instances of EslProxy: dependency graphs, types and block counts. *)
(***************************************************************************)
EXTENDS EslProxyInv

ByTask(xs) == [t \in Tasks |-> xs[t + 1]]

Ones       == [t \in Tasks |-> 1]
SpmdSecond == ByTask(<<1, 2, 1, 1>>)

AllCube == [t \in Tasks |-> TASK_TYPE_CUBE]
Mixed3  == ByTask(<<0, 1, 0>>)
Mixed4  == ByTask(<<0, 1, 0, 0>>)
Mixed6  == ByTask(<<0, 0, 1, 0, 1, 0>>)

Chain3  == ByTask(<< <<>>, <<0>>, <<1>> >>)
Join3   == ByTask(<< <<>>, <<>>, <<0, 1>> >>)
Diamond == ByTask(<< <<>>, <<0>>, <<0>>, <<1, 2>> >>)
\* Over four entries the last two tasks reuse those of the first two.
Ladder6 == ByTask(<< <<>>, <<>>, <<1>>, <<1>>, <<2, 3>>, <<>> >>)
=============================================================================
