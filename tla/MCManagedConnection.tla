------------------------- MODULE MCManagedConnection -------------------------
(* Servers and symmetry for model checking ManagedConnection. *)
EXTENDS ManagedConnection
CONSTANTS t1, t2, o1, o2, m1
MCServerSize == <<1, 2>>
Symmetry == Permutations(Thread) \cup Permutations(Object)
=============================================================================
