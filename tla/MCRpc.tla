-------------------------------- MODULE MCRpc --------------------------------
(* The lengths of Rpc on a small scale, on which the buffer for an object still *)
(* holds {"long":{},"session_id":""}: an escape takes two bytes, all else one.  *)
EXTENDS Rpc

MCBytes == [c \in Symbols |-> IF c \in {"escape", "escquote", "unicode"} THEN 2 ELSE 1]
=============================================================================
