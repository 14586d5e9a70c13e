---------------------------- MODULE MCThreadPool ----------------------------
(* Instances of ThreadPool for TLC: two workers and two clients, so that a    *)
(* submit can race a wait and a task can be slower than a later one.         *)
EXTENDS ThreadPool
=============================================================================
