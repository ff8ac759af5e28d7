---------------------------- MODULE MCSmtpSender ----------------------------
(* Small instances of SmtpSender for TLC.                                  *)
EXTENDS SmtpSenderRefinement, TLC

CONSTANTS self, r1, bad, m1, m2

SelfAndOne == {self, r1}
OneRemote == {r1}
OneMail == {m1}
TwoMails == {m1, m2}

\* One recipient per mail: loopback and remote.
RcptsSingle == m1 :> <<self>> @@ m2 :> <<r1>>
\* Two mails for the same node: ids are reused and refs hold two rows.
RcptsSame == m1 :> <<r1>> @@ m2 :> <<r1>>
\* A mail to this node and to another one, and a second mail.
RcptsMulti == m1 :> <<self, r1>> @@ m2 :> <<self>>
\* The same, with a third address that does not parse.
RcptsFailing == m1 :> <<self, r1, bad>> @@ m2 :> <<self>>
RcptsOne == m1 :> <<r1>>
RcptsBoth == m1 :> <<self, r1>>

=============================================================================
