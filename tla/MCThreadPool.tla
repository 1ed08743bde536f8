---------------------------- MODULE MCThreadPool ----------------------------
(* ThreadPool with its pauses: a few threads, callers and jobs.            *)
EXTENDS PausedPool
=============================================================================
