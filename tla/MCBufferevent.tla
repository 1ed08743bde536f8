--------------------------- MODULE MCBufferevent ---------------------------
(* Bufferevent with two writers, of which one holds the mutex.             *)
EXTENDS Bufferevent

=============================================================================
