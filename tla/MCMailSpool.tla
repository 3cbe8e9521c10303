---------------------------- MODULE MCMailSpool ----------------------------
(***************************************************************************)
(* Instances of MailSpool for TLC.  Threads, users, mails, names and mutex *)
(* objects are interchangeable, which the safety runs use.                 *)
(***************************************************************************)
EXTENDS MailSpool, TLC

AllOps == {"SEND", "LIST", "READ", "DEL"}

Symmetry == Permutations(Threads) \cup Permutations(Users) \cup Permutations(Messages)
            \cup Permutations(Ids) \cup Permutations(Mutexes)

(***************************************************************************)
(* No run stops because names, mutex objects or mails run out: a thread    *)
(* draws at most one name per receiver it serves, and no more objects are  *)
(* in use than there are threads and user names.                           *)
(***************************************************************************)
ASSUME Enough ==
  /\ RepeatedIds \/ "SEND" \notin Ops \/
       Cardinality(Ids \ WorkingDir) >= Cardinality(Messages) * MaxReceivers
  /\ Cardinality(Mutexes) >= Cardinality(Threads) + Cardinality(Users) - 1
=============================================================================
