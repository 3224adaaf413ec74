------------------------------- MODULE MCRelay -------------------------------
(* Instances of Relay for TLC. *)
EXTENDS Relay, TLC

\* Connections are interchangeable.
Symmetry == Permutations(Conn)

=============================================================================
