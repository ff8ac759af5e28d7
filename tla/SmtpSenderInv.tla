---------------------------- MODULE SmtpSenderInv ---------------------------
(***************************************************************************)
(* The inductive invariants behind the theorems about SmtpSender.          *)
(***************************************************************************)
EXTENDS SmtpSender

\* Labels between MailSelect and the end of the loop body.
Busy == Pc \ {"idle", "start", "sleep", "fetch", "loop", "expunge", "stop"}

\* The type invariant by groups of variables.
DbType ==
    /\ outbox \in [Ids -> Msg \cup {NoMsg}]
    /\ deleted \in SUBSET Ids
    /\ expired \in SUBSET Ids
    /\ queue \in SUBSET (Dest \X Ids)
    /\ sent \in SUBSET Msg

MemType ==
    /\ running \in [Dest -> BOOLEAN]
    /\ retrying \in [Dest -> BOOLEAN]
    /\ attempted \in [Dest -> BOOLEAN]
    /\ trigger \in BOOLEAN
    /\ mgr \in {"timer", "scan", "dead"}
    /\ mgrTodo \in SUBSET Dest

\* A run that is inside the loop body holds an id and the mail it read.
RunType ==
    /\ pc \in [Worker -> Pc]
    /\ refs \in [Worker -> SUBSET Ids]
    /\ cur \in [Worker -> Ids \cup {0}]
    /\ snap \in [Worker -> Msg \cup {NoMsg}]
    /\ res \in [Worker -> Res]
    /\ \A w \in Worker : pc[w] \in Busy => cur[w] \in Ids /\ snap[w] \in Msg

\* A submitter that stored its mail knows its id.
SubmitType ==
    /\ subPc \in [Msg -> {"new", "insert", "spawn", "done", "failed"}]
    /\ subId \in [Msg -> Ids \cup {0}]
    /\ subNext \in [Msg -> Nat]
    /\ \A m \in Msg : subPc[m] \in {"insert", "spawn"} => subId[m] \in Ids

RemoteType ==
    /\ delivered \in [Msg \X Dest -> 0..MaxCopies]
    /\ partial \in SUBSET (Msg \X Dest)
    /\ queued \in SUBSET (Msg \X Dest)
    /\ concluded \in SUBSET (Msg \X Dest)
    /\ failed \in SUBSET (Dest \X Ids)

TypeInv == DbType /\ MemType /\ RunType /\ SubmitType /\ RemoteType

-----------------------------------------------------------------------------
(* One recipient per mail and no mail client in the Outbox: the conditions *)
(* under which ids that are reused never confuse two mails.                *)

SingleRecipient == \A m \in Msg : Len(Rcpts[m]) = 1

To(m) == Rcpts[m][1]

\* A row of table queue belongs to a mail that is there, is not flagged and
\* is addressed to the row's destination.
RowsOK ==
    \A d \in Dest, id \in Ids : <<d, id>> \in queue =>
      /\ outbox[id] \in Msg
      /\ To(outbox[id]) = d
      /\ id \notin deleted
      /\ <<outbox[id], d>> \in queued

FlagsOK == \A id \in deleted : outbox[id] \in Msg

\* What a run has still to visit is in the queue, and is not what it holds.
RefsOK(w) ==
    \A id \in refs[w] :
      /\ <<w[1], id>> \in queue
      /\ pc[w] \in Busy \cup {"loop"}
      /\ pc[w] \in Busy => id # cur[w]

\* The mail in hand was queued for this destination.
SnapOK(w) ==
    pc[w] \in Busy => To(snap[w]) = w[1] /\ <<snap[w], w[1]>> \in queued

\* Until it is moved or flagged, the id in hand denotes the mail in hand.
Holding(w) ==
    \/ pc[w] \in Busy \ {"close", "classify"}
    \/ pc[w] = "classify" /\ res[w] = "perm"

CurOK(w) == Holding(w) => outbox[cur[w]] = snap[w] /\ cur[w] \notin deleted

\* A mail is taken out of the queue only once it is concluded.
Leaving == {"drop", "dropPending", "dropFlag", "dropExpunge", "selfDequeue",
            "selfPending", "selfMove", "dequeue", "pending", "move", "close"}

SettledOK(w) ==
    pc[w] \in Leaving \/ (pc[w] = "classify" /\ res[w] = "perm")
      => <<snap[w], w[1]>> \in concluded

\* Nobody waits for a mail that is about to be moved or flagged.
LastOK(w) ==
    pc[w] \in {"move", "selfMove", "dropFlag"}
      => \A d \in Dest : <<d, cur[w]>> \notin queue

\* A transfer that began is never classified as refused.
ResOK(w) == pc[w] \in {"abort", "close"} => res[w] # "perm"

RunOK(w) == ResOK(w) /\ RefsOK(w) /\ SnapOK(w) /\ CurOK(w) /\ SettledOK(w) /\ LastOK(w)

\* Before the row of its recipient is inserted the mail is in the Outbox and
\* no run can know it.
SubmitOK ==
    \A m \in Msg :
      /\ subPc[m] = "new" => \A d \in Dest : <<m, d>> \notin queued
      /\ subPc[m] = "spawn" => subNext[m] = 1
      /\ subPc[m] = "insert" /\ subNext[m] = 1 =>
           /\ outbox[subId[m]] = m
           /\ subId[m] \notin deleted
           /\ \A d \in Dest : <<m, d>> \notin queued
      /\ subPc[m] = "insert" => subNext[m] >= 1

\* What reached Sent or a node was settled, respectively addressed to it.
OutcomeOK ==
    /\ \A m \in sent : <<m, To(m)>> \in concluded
    /\ \A m \in Msg, d \in Dest :
         delivered[<<m, d>>] > 0 \/ <<m, d>> \in partial => d = To(m)

QueueInv ==
    /\ RowsOK
    /\ FlagsOK
    /\ \A w \in Worker : RunOK(w)
    /\ SubmitOK
    /\ OutcomeOK
    /\ NoMailLost

-----------------------------------------------------------------------------
(* How often a mail is delivered, without storage errors and crashes.      *)

\* From where a run may still hand over the mail it holds.
Serving == {"self", "dial", "data", "abort", "dequeue", "pending", "move", "close"}

\* Nobody has the mail a run is about to hand over.
FreshOK(w) == pc[w] \in Serving => delivered[<<snap[w], w[1]>>] = 0

\* A run that dequeued the mail in hand left no row of it.
GoneOK(w) ==
    pc[w] \in {"pending", "move", "close"}
      => \A id \in Ids : outbox[id] = snap[w] => <<w[1], id>> \notin queue

\* A row of a delivered mail is one that its run is about to delete.
ServedOK ==
    \A m \in Msg, d \in Dest, id \in Ids :
      delivered[<<m, d>>] > 0 /\ outbox[id] = m /\ <<d, id>> \in queue
        => \E w \in Worker : w[1] = d /\ pc[w] = "selfDequeue" /\ cur[w] = id

\* What was delivered was queued, so no row for it is inserted any more.
KnownOK == \A p \in Msg \X Dest : delivered[p] > 0 => p \in queued

CopiesInv ==
    /\ NoDuplicateCopy
    /\ KnownOK
    /\ ServedOK
    /\ \A w \in Worker : FreshOK(w) /\ GoneOK(w)

=============================================================================
