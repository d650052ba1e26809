----------------------------- MODULE MCHttpApi -----------------------------
(* A small instance of HttpApi for TLC. *)
EXTENDS HttpApi, TLC

CONSTANTS v, w

\* Single bytes that are UTF-8, as the keys of the API are; the greatest of
\* them is one, so that nothing sorts after a prefix of it.
MCByte == {1, 127}
MCValue == {v, w}
Symmetry == Permutations(Request)

=============================================================================
