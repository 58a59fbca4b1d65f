------------------------------ MODULE MCBuffer ------------------------------
(* Buffer with messages of up to three bytes.                              *)
EXTENDS Buffer

MCMessage == UNION {[1 .. n -> {1, 2}] : n \in 0 .. 3}
=============================================================================
