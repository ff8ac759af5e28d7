---------------------------- MODULE MailDelivery ----------------------------
(***************************************************************************)
(* What the outgoing side of Yggmail promises, without goroutines, rows or *)
(* ids: a mail that was handed in waits for each node it is addressed to   *)
(* until its fate there is settled, and is filed in Sent after that.       *)
(***************************************************************************)

CONSTANTS
    Mail, Node,
    Addressed   \* pairs <<mail, node>>: who is to get what

VARIABLES
    waiting,    \* pairs that are to be delivered: known after a restart too
    settled,    \* pairs transmitted, refused for good or given up
    got,        \* pairs whose node has the whole mail
    sent        \* mails filed in Sent

vars == <<waiting, settled, got, sent>>

Init == waiting = {} /\ settled = {} /\ got = {} /\ sent = {}

\* A recipient is taken on, once.
Accept(p) ==
    /\ p \in Addressed \ (waiting \cup settled)
    /\ waiting' = waiting \cup {p}
    /\ UNCHANGED <<settled, got, sent>>

\* The mail is transmitted, refused or given up while it waits; the node may
\* have it at once ...
Settle(p) ==
    /\ p \in waiting
    /\ settled' = settled \cup {p}
    /\ got' \in {got, got \cup {p}}
    /\ UNCHANGED <<waiting, sent>>

\* ... or when it acknowledges it.
Receive(p) ==
    /\ p \in settled \cap Addressed
    /\ got' = got \cup {p}
    /\ UNCHANGED <<waiting, settled, sent>>

\* Only what is settled stops waiting.
Forget(p) ==
    /\ p \in waiting \cap settled
    /\ waiting' = waiting \ {p}
    /\ UNCHANGED <<settled, got, sent>>

\* A mail is filed when nobody waits for it any more.
File(m) ==
    /\ \A p \in Addressed : p[1] = m => p \in settled \ waiting
    /\ sent' = sent \cup {m}
    /\ UNCHANGED <<waiting, settled, got>>

Next ==
    \/ \E p \in Mail \X Node :
         Accept(p) \/ Settle(p) \/ Receive(p) \/ Forget(p)
    \/ \E m \in Mail : File(m)

Spec == Init /\ [][Next]_vars

=============================================================================
