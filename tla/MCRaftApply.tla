---------------------------- MODULE MCRaftApply ----------------------------
(* An instance of RaftApply for TLC: two leaders, a command of each.       *)
EXTENDS RaftApply

CONSTANT c

TwoLeaders ==
    LET cmds == <<Noop, Noop, c, Noop, c>>
    IN  [i \in 1..5 |-> [term |-> IF i = 1 THEN 1 ELSE IF i < 4 THEN 2 ELSE 3, index |-> i - 1,
                         cmd |-> cmds[i]]]

=============================================================================
