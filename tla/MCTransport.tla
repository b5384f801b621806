----------------------------- MODULE MCTransport -----------------------------
(* Instances of the transport for TLC.                                     *)
EXTENDS HttpTransport, TLC

Symmetry == Permutations(Conn)

=============================================================================
