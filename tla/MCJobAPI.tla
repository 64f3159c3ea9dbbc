------------------------------ MODULE MCJobAPI ------------------------------
(* One push, the last of a POST, may be repeated by the Redis client.      *)
EXTENDS JobAPI

CONSTANT p1

MCRepeatable == {<<p1, N>>}
=============================================================================
