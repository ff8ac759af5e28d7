------------------------ MODULE SmtpSenderRefinement ------------------------
(***************************************************************************)
(* SmtpSender as an implementation of MailDelivery: what waits is what the *)
(* join of the tables mails and queue says, so nothing of it is in memory. *)
(***************************************************************************)
EXTENDS SmtpSenderInv

Addressed == {p \in Msg \X Dest : \E k \in 1..Len(Rcpts[p[1]]) : Rcpts[p[1]][k] = p[2]}

Waiting ==
    {p \in Msg \X Dest : \E id \in Ids : outbox[id] = p[1] /\ <<p[2], id>> \in queue}

Got == {p \in Msg \X Dest : delivered[p] > 0}

Delivery == INSTANCE MailDelivery WITH
    Mail <- Msg, Node <- Dest, Addressed <- Addressed,
    waiting <- Waiting, settled <- concluded, got <- Got, sent <- sent

\* Every storage call, answer, failure and crash of QueueFor, the manager and
\* run() is a step of MailDelivery or no step of it at all: a recipient is
\* taken on once, its row goes only after its fate is settled, a node gets
\* only what is addressed to it, and a mail is filed in Sent in a step of its
\* own, after its last row is gone.
ImplementsDelivery == Delivery!Spec

=============================================================================
