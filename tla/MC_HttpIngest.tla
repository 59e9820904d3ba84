---------------------------- MODULE MC_HttpIngest ----------------------------
(***************************************************************************)
(* Instances of HttpIngest for TLC: one or two clients, two urls as in     *)
(* docker-compose.yml, batches of two, the second of them incomplete.      *)
(***************************************************************************)
EXTENDS HttpIngest

CONSTANTS c1, c2

NoneInvalid == {}
SecondInvalid == {<<c1, 2>>}
=============================================================================
