----------------------------- MODULE MailStore -----------------------------
(***************************************************************************)
(* What the mail spool promises to those who share it: a mail appears in a *)
(* mailbox whole and in one step, is never replaced by another one, and    *)
(* once it has left its mailbox its file name is not given out again.      *)
(***************************************************************************)
CONSTANTS Users,      \* the mailboxes
          Ids,        \* the names a file of a mailbox can have
          Messages    \* the mails

VARIABLES box,        \* the mails on offer: triples <<user, id, message>>
          gone        \* the mails that have left their mailbox

vars == <<box, gone>>

Init == box = {} /\ gone = {}

(***************************************************************************)
(* A mail is delivered under a file name its mailbox never held.           *)
(***************************************************************************)
Deliver(u, i, m) ==
  /\ \A n \in Messages : <<u, i, n>> \notin box \cup gone
  /\ box' = box \cup {<<u, i, m>>}
  /\ UNCHANGED gone

Delete(f) ==
  /\ f \in box
  /\ box' = box \ {f}
  /\ gone' = gone \cup {f}

(***************************************************************************)
(* A mail whose file is deleted while it is being written is delivered     *)
(* into nowhere: it is gone at once.                                       *)
(***************************************************************************)
Vanish(u, i, m) ==
  /\ \A n \in Messages : <<u, i, n>> \notin box \cup gone
  /\ gone' = gone \cup {<<u, i, m>>}
  /\ UNCHANGED box

Next == \/ \E u \in Users, i \in Ids, m \in Messages : Deliver(u, i, m) \/ Vanish(u, i, m)
        \/ \E f \in box : Delete(f)

Spec == Init /\ [][Next]_vars
=============================================================================
