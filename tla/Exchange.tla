------------------------------ MODULE Exchange ------------------------------
(***************************************************************************)
(* What a connection promises its user, whatever becomes of the texts on   *)
(* the wire: a request is carried out at most once, in one step and as it  *)
(* was made, and the response he is shown is true of the mailboxes and the *)
(* login as they are then.  The promise holds up to the first mail that    *)
(* the text of a message cannot carry.                                     *)
(***************************************************************************)
EXTENDS Naturals, Sequences, FiniteSets, Functions

CONSTANTS Requests,   \* what the user can ask for
          Sendable,   \* those the text can carry
          Password    \* the one that the directory accepts

VARIABLES turn,       \* "idle", "asked", "served" (the response is to come), "left" (the
                      \* user went away from a request), "over", or "void": no promise
          request,    \* the request last made
          mails,      \* mails in mailboxes: pairs <<user, mail>>
          trusted,    \* has the server accepted a login?
          shown       \* the response last shown

vars == <<turn, request, mails, trusted, shown>>

Init == turn \in {"idle", "void"} /\ ~trusted

Ask(m) ==
  /\ turn = "idle" /\ turn' = (IF m \in Sendable THEN "asked" ELSE "void")
  /\ request' = m
  /\ UNCHANGED <<mails, trusted, shown>>

-----------------------------------------------------------------------------
(***************************************************************************)
(* A mail as it arrives: the last byte of an attachment is not kept.  Of a *)
(* mail whose sender left, an attachment may be shorter, its bytes others. *)
(***************************************************************************)
Torn(x, m) ==
  /\ x = [m EXCEPT !.attachments = x.attachments]
  /\ Len(x.attachments) = Len(m.attachments)
  /\ \A i \in 1..Len(m.attachments) :
       /\ x.attachments[i].filename = m.attachments[i].filename
       /\ Len(x.attachments[i].data) <= Len(m.attachments[i].data)

Copy(x, m) ==
  /\ Torn(x, m)
  /\ \A i \in 1..Len(m.attachments) :
       /\ Len(x.attachments[i].data) = Len(m.attachments[i].data)
       /\ \A k \in 1..(Len(m.attachments[i].data) - 1) :
            x.attachments[i].data[k] = m.attachments[i].data[k]

(***************************************************************************)
(* The requests: each fails, or changes nothing, or does what it is for.   *)
(***************************************************************************)
Deliver ==
  /\ request.type = "SEND" /\ UNCHANGED trusted
  /\ \E n \in 0..Len(request.receivers), x \in {b[2] : b \in mails'} :
       /\ mails' = mails \cup {<<request.receivers[i], x>> : i \in 1..n}
       /\ IF turn = "asked" THEN Copy(x, request) ELSE Torn(x, request)

Delete ==
  /\ request.type = "DEL" /\ UNCHANGED trusted
  /\ \E b \in mails : b[1] = request.user /\ mails' = mails \ {b}

Login ==
  /\ request.type = "LOGIN" /\ UNCHANGED mails
  /\ trusted' => trusted \/ request.password = Password

Perform == \/ UNCHANGED <<mails, trusted>>
           \/ trusted /\ (Deliver \/ Delete)
           \/ Login

Serve ==
  /\ \/ turn = "asked" /\ turn' = "served"
     \/ turn = "left" /\ turn' = "over"
  /\ Perform
  /\ UNCHANGED <<request, shown>>

-----------------------------------------------------------------------------
(***************************************************************************)
(* What the user may be shown.  A list that fails is shown as an empty one.*)
(***************************************************************************)
Mailbox(u) == {b \in mails : b[1] = u}

Agreed ==
  /\ trusted /\ request.type \in {"SEND", "DEL", "LOGIN"}
  /\ request.type = "SEND" =>
       \A i \in 1..Len(request.receivers) :
         \E b \in Mailbox(request.receivers[i]) : Copy(b[2], request)

Listed(titles) ==
  /\ request.type = "LIST"
  /\ \/ titles = <<>>
     \/ \E f \in Bijection(1..Len(titles), Mailbox(request.user)) :
          \A i \in 1..Len(titles) : titles[i] = f[i][2].title

Shows(m) ==
  /\ request.type = "READ"
  /\ \E b \in Mailbox(request.user) : Copy(m, b[2])

True(r) == \/ r.type = "err"
           \/ r.type = "ok" /\ Agreed
           \/ r.type = "list" /\ Listed(r.titles)
           \/ r.type = "read" /\ Shows(r.mail)

Show ==
  /\ turn = "served" /\ turn' = "idle"
  /\ True(shown')
  /\ UNCHANGED <<request, mails, trusted>>

(***************************************************************************)
(* The connection may end at any point.                                    *)
(***************************************************************************)
Leave ==
  /\ turn \in {"idle", "asked", "served"}
  /\ turn' = (IF turn = "asked" THEN "left" ELSE "over")
  /\ UNCHANGED <<request, mails, trusted, shown>>

Void == turn = "void" /\ turn' = "void"

Next == (\E m \in Requests : Ask(m)) \/ Serve \/ Show \/ Leave \/ Void

Spec == Init /\ [][Next]_vars
=============================================================================
