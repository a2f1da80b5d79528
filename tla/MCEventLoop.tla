---------------------------- MODULE MCEventLoop ----------------------------
(* Instances of EventLoop for TLC. *)
EXTENDS EventLoop

CONSTANTS t1, t2, a1, a2

MCPlaneOf == [c \in Clients |-> IF c \in {t1, t2} THEN "tool" ELSE "admin"]
=============================================================================
