----------------------------- MODULE MCLockout -----------------------------
(* Instances of Lockout for TLC; connections and addresses are interchangeable,
   which the safety runs use. *)
EXTENDS Lockout, TLC

Symmetry == Permutations(Conns) \cup Permutations(IPs)
=============================================================================
