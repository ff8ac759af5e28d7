---------------------------- MODULE MCMailServer ----------------------------
(* Instances of MailServer for TLC.                                        *)
EXTENDS MailServer, TLC

CONSTANTS inbox, outbox, work, c1, m1, m2

Names == {inbox, work}
Defaults == {inbox}
TwoMails == {m1, m2}

\* With Threshold = 2, Header = 1 and limits 4 and 2: m1 is small; it fits the
\* limit 4, and 2 only until it is stored.  m2 is large; its estimate fits the
\* limit 4, its size does not, and both are over 2.
Sizes == m1 :> 2 @@ m2 :> 4

=============================================================================
