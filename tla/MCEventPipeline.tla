-------------------------- MODULE MCEventPipeline --------------------------
(* EventPipeline with a ring buffer of two and three events, one of which  *)
(* the server refuses: the buffer overflows, a submission is retried after *)
(* broken connections, and a refused event blocks the others.              *)
EXTENDS EventPipeline

CONSTANTS e1, e2, e3

MCEvents == {e1, e2, e3}
MCRejected == {e3}
=============================================================================
