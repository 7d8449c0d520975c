--------------------------- MODULE MCWebSession ---------------------------
(* Two users, one of whom has to change the password, and two requests.    *)
EXTENDS WebSession

CONSTANTS ada, bob, guest, r1, r2

MCUsers == {ada, bob}
MCNewUsers == {bob}
MCRequests == {r1, r2}
=============================================================================
