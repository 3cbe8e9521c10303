----------------------------- MODULE MCMailbox -----------------------------
(* Instances of Mailbox for TLC; clients and mails are interchangeable. *)
EXTENDS Mailbox, TLC

Symmetry == Permutations(Clients) \cup Permutations(Mails)
=============================================================================
