----------------------------- MODULE MCEvbuffer -----------------------------
(* Evbuffer with two buffers and chains of two bytes or more.              *)
EXTENDS Evbuffer

=============================================================================
