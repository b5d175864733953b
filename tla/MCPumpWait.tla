----------------------------- MODULE MCPumpWait -----------------------------
(* TLC instances of PumpWait.                                               *)
EXTENDS PumpWait

CONSTANTS w1, w2

(* w1 asks for anything; w2 is a text wait that shares the mutex and the    *)
(* condition variable with it.                                              *)
MCKinds == [w \in {w1, w2} |-> IF w = w1 THEN {"text", "stable", "except"} ELSE {"text"}]
=============================================================================
