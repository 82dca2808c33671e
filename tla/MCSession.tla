----------------------------- MODULE MCSession -----------------------------
(* Session with a first session (1) and a reconnected one (3).              *)
EXTENDS Session

MCFirstGenerations == {1, 3}
=============================================================================
