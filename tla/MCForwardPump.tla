---------------------------- MODULE MCForwardPump ----------------------------
(* A forwarded port for TLC: each client has Up chunks to say, and the       *)
(* service Down chunks to each of them.                                      *)
EXTENDS ForwardPump

CONSTANTS Up, Down

MCLimit == [f \in Flows |-> IF f[2] = "up" THEN Up ELSE Down]
===============================================================================
