---------------------- MODULE SmtpSenderRefinementProofs ---------------------
(***************************************************************************)
(* SmtpSender implements MailDelivery, under the conditions of             *)
(* SmtpSenderQueueProofs: one recipient per mail, and no mail client that  *)
(* deletes from the Outbox.                                                *)
(***************************************************************************)
EXTENDS SmtpSenderQueueProofs, SmtpSenderRefinement

\* What the refinement needs beyond QueueInv: only queued recipients are
\* settled, and a mail is in the Outbox at most once, and not before it is
\* submitted.
StoredOnce ==
    /\ \A i, j \in Ids : outbox[i] \in Msg /\ outbox[i] = outbox[j] => i = j
    /\ \A m \in Msg, i \in Ids : subPc[m] = "new" => outbox[i] # m

RefInv == concluded \subseteq queued /\ StoredOnce

\* A step of MailDelivery, or none.
Step == [Delivery!Next]_(Delivery!vars)

-----------------------------------------------------------------------------
(* The invariant.                                                          *)

\* A step that only removes mails from the Outbox stores none twice.
LEMMA OnceKept ==
    ASSUME StoredOnce, \A i \in Ids : outbox'[i] \in {outbox[i], NoMsg},
           \A m \in Msg : subPc'[m] = "new" => subPc[m] = "new"
    PROVE  StoredOnce'
  BY ConstantsAssumption DEF StoredOnce

\* The one action that stores a mail in the Outbox does so once per mail.
LEMMA OnceCreate ==
    ASSUME TypeInv, StoredOnce, NEW m \in Msg, QueueForCreate(m)
    PROVE  StoredOnce'
<1> USE DEF TypeInv, DbType, SubmitType
<1>1. CASE UNCHANGED outbox /\ subPc' = [subPc EXCEPT ![m] = "failed"]
  BY <1>1 DEF StoredOnce
<1>2. ASSUME NEW id \in Ids, MailCreate(m, id), subPc' = [subPc EXCEPT ![m] = "insert"]
      PROVE  StoredOnce'
  <2>1. \A i \in Ids : outbox'[i] = IF i = id THEN m ELSE outbox[i]
    BY <1>2 DEF MailCreate
  <2>2. \A i \in Ids : outbox[i] # m
    BY DEF QueueForCreate, StoredOnce
  <2>3. \A n \in Msg : subPc'[n] = "new" => subPc[n] = "new" /\ n # m
    BY <1>2
  <2>4. QED
    BY <2>1, <2>2, <2>3 DEF StoredOnce
<1>3. QED
  BY <1>1, <1>2 DEF QueueForCreate

\* Steps of run() only remove mails and settle what is queued.
LEMMA RefRun ==
    ASSUME TypeInv, QueueInv, RefInv, NEW w \in Worker, Run(w)
    PROVE  RefInv'
<1>1. Frame(w)
  BY RunFrame
<1>2. \A i \in Ids : outbox'[i] \in {outbox[i], NoMsg}
  <2>1. UNCHANGED outbox \/ \E I : RemoveMails(I)
    BY DEF Run, RunStart, RunWake, RunFetch, RunSkip, RunSelect, RunDone,
       DropDequeue, DropPending, DropFlag, DropExpunge, SelfDeliver,
       SelfDequeue, SelfPending, SelfMove, RemoteDial, RemoteData, RemoteAbort,
       RemoteDequeue, RemotePending, RemoteMove, RemoteClose, RemoteClassify,
       RunExpunge, RunStop, MailExpunge, MailMove, HalfMove, db
  <2>2. QED
    BY <2>1 DEF RemoveMails
<1>3. StoredOnce'
  BY <1>1, <1>2, OnceKept DEF RefInv, Frame, submit
<1>4. concluded' \subseteq queued
  <2>1. CASE RunSelect(w)
    <3>1. PICK id \in Ids : RunSelect(w)!2!(id)
      BY <2>1 DEF RunSelect
    <3>2. <<w[1], id>> \in queue
      BY <3>1 DEF IsNextRef, QueueInv, RunOK, RefsOK
    <3>3. <<outbox[id], w[1]>> \in queued
      BY <3>2, WorkerDest DEF QueueInv, RowsOK
    <3>4. concluded' \subseteq concluded \cup {<<outbox[id], w[1]>>}
      BY <3>1
    <3>5. QED
      BY <3>3, <3>4 DEF RefInv
  <2>2. CASE SelfDeliver(w) \/ RemoteDial(w) \/ RemoteData(w)
    <3>1. pc[w] \in Busy /\ concluded' \subseteq concluded \cup {<<snap[w], w[1]>>}
      BY <2>2 DEF SelfDeliver, RemoteDial, RemoteData, Busy, Pc
    <3>2. <<snap[w], w[1]>> \in queued
      BY <3>1 DEF QueueInv, RunOK, SnapOK
    <3>3. QED
      BY <3>1, <3>2 DEF RefInv
  <2>3. CASE /\ ~RunSelect(w) /\ ~SelfDeliver(w)
             /\ ~RemoteDial(w) /\ ~RemoteData(w)
    <3>1. UNCHANGED concluded
      BY <2>3 DEF Run, RunStart, RunWake, RunFetch, RunSkip, RunDone,
         DropDequeue, DropPending, DropFlag, DropExpunge, SelfDequeue,
         SelfPending, SelfMove, RemoteAbort, RemoteDequeue, RemotePending,
         RemoteMove, RemoteClose, RemoteClassify, RunExpunge, RunStop, history
    <3>2. QED
      BY <3>1 DEF RefInv
  <2>4. QED
    BY <2>1, <2>2, <2>3
<1>5. QED
  BY <1>1, <1>3, <1>4 DEF RefInv, Frame

LEMMA RefNext ==
    ASSUME "user" \notin Events, TypeInv, QueueInv, RefInv, [Next]_vars
    PROVE  RefInv'
<1> USE DEF RefInv
<1>1. ASSUME NEW m \in Msg, QueueForCreate(m) PROVE RefInv'
  BY <1>1, OnceCreate DEF QueueForCreate, history
<1>2. ASSUME NEW w \in Worker, Run(w) PROVE RefInv'
  BY <1>2, RefRun
<1>3. ASSUME UNCHANGED outbox, concluded' \subseteq queued',
             \A m \in Msg : subPc'[m] = "new" => subPc[m] = "new"
      PROVE  RefInv'
  BY <1>3, OnceKept
<1>4. ASSUME NEW m \in Msg, Submit(m), ~QueueForCreate(m) PROVE RefInv'
  BY <1>3, <1>4 DEF Submit, QueueForBadAddress, QueueForInsert, QueueForSpawn,
     QueueForReturn, db, history, TypeInv, SubmitType
<1>5. CASE Manager \/ ResetRetryCounters \/ Expire \/ Crash
  BY <1>3, <1>5 DEF Manager, ManagerList, ManagerSpawn, ManagerReschedule,
     ResetRetryCounters, Expire, Crash, db, history, submit, outer, TypeInv, SubmitType
<1>6. CASE UNCHANGED vars
  BY <1>3, <1>6 DEF vars, db, history, submit
<1>7. QED
  BY <1>1, <1>2, <1>4, <1>5, <1>6 DEF Next, Environment, UserDelete, UserExpunge

-----------------------------------------------------------------------------
(* The kinds of steps, by what they are in MailDelivery.                   *)

\* Nothing of it is visible there.
LEMMA Stutter ==
    ASSUME Waiting' = Waiting, Got' = Got, UNCHANGED <<concluded, sent>>
    PROVE  Step
  BY DEF Step, Delivery!vars

\* What waits depends on the rows and on the mails they belong to.
LEMMA WaitingKept ==
    ASSUME queue' = queue,
           \A id \in Ids, d \in Dest : <<d, id>> \in queue => outbox'[id] = outbox[id]
    PROVE  Waiting' = Waiting
  BY DEF Waiting

\* A node that accepts a copy has the mail.
LEMMA GotCopy ==
    ASSUME TypeInv, NEW m \in Msg, NEW d \in Dest, Copy(m, d)
    PROVE  Got' = Got \cup {<<m, d>>}
<1>1. \A p \in Msg \X Dest : delivered[p] \in 0..MaxCopies
  BY DEF TypeInv, RemoteType
<1>2. \A p \in Msg \X Dest : delivered'[p] =
        IF p = <<m, d>> /\ delivered[p] < MaxCopies THEN delivered[p] + 1 ELSE delivered[p]
  BY DEF Copy, TypeInv, RemoteType
<1>3. \A p \in Msg \X Dest : delivered'[p] > 0 <=> delivered[p] > 0 \/ p = <<m, d>>
  BY <1>1, <1>2, ConstantsAssumption
<1>4. QED
  BY <1>3 DEF Got

\* The mail in hand is addressed to the destination of its run.
LEMMA InHand ==
    ASSUME TypeInv, QueueInv, SingleRecipient, NEW w \in Worker, pc[w] \in Busy
    PROVE  /\ <<snap[w], w[1]>> \in Addressed
           /\ snap[w] \in Msg /\ w[1] \in Dest
           /\ \A p \in Addressed : p[1] = snap[w] => p = <<snap[w], w[1]>>
<1>1. /\ snap[w] \in Msg /\ w[1] \in Dest /\ Rcpts[snap[w]][1] = w[1]
      /\ Len(Rcpts[snap[w]]) = 1
  BY WorkerDest DEF TypeInv, RunType, QueueInv, RunOK, SnapOK, To, SingleRecipient
<1>2. 1..Len(Rcpts[snap[w]]) = {1}
  BY <1>1
<1>3. QED
  BY <1>1, <1>2 DEF Addressed

\* The mail in hand is settled: for the first time, and then it waits, or
\* again.
LEMMA SettleStep ==
    ASSUME TypeInv, QueueInv, SingleRecipient, NEW w \in Worker, pc[w] \in Busy,
           Waiting' = Waiting, sent' = sent,
           concluded' = concluded \cup {<<snap[w], w[1]>>},
           Got' \in {Got, Got \cup {<<snap[w], w[1]>>}}
    PROVE  Step
<1> DEFINE p == <<snap[w], w[1]>>
<1>1. p \in Addressed /\ p \in Msg \X Dest
  BY InHand
<1>2. CASE p \in concluded
  <2>1. CASE Got' = Got
    BY <1>2, <2>1, Stutter
  <2>2. CASE Got' = Got \cup {p}
    <3>1. Delivery!Receive(p)
      BY <1>1, <1>2, <2>2 DEF Delivery!Receive
    <3>2. QED
      BY <1>1, <3>1 DEF Step, Delivery!Next
  <2>3. QED
    BY <2>1, <2>2
<1>3. CASE p \notin concluded
  <2>1. p \in queued
    BY DEF QueueInv, RunOK, SnapOK
  <2>2. p \in Waiting
    BY <1>1, <1>3, <2>1 DEF QueueInv, NoMailLost, Waiting
  <2>3. Delivery!Settle(p)
    BY <2>2 DEF Delivery!Settle
  <2>4. QED
    BY <1>1, <2>3 DEF Step, Delivery!Next
<1>4. QED
  BY <1>2, <1>3

\* The row of a settled recipient is deleted.
LEMMA ForgetStep ==
    ASSUME TypeInv, QueueInv, SingleRecipient, NEW w \in Worker, pc[w] \in Busy,
           Holding(w), <<snap[w], w[1]>> \in concluded,
           queue' = queue \ {<<w[1], cur[w]>>},
           UNCHANGED <<outbox, concluded, sent>>, Got' = Got
    PROVE  Step
<1> DEFINE p == <<snap[w], w[1]>>
<1>1. p \in Msg \X Dest
  BY InHand
<1>2. outbox[cur[w]] = snap[w]
  BY DEF QueueInv, RunOK, CurOK
<1>3. Waiting' \subseteq Waiting
  BY DEF Waiting
<1>4. ASSUME NEW q \in Waiting, q # p PROVE q \in Waiting'
  <2>1. PICK id \in Ids : outbox[id] = q[1] /\ <<q[2], id>> \in queue
    BY <1>4 DEF Waiting
  <2>2. q \in Msg \X Dest /\ q = <<q[1], q[2]>>
    BY <1>4 DEF Waiting
  <2>3. <<q[2], id>> # <<w[1], cur[w]>>
    BY <1>2, <1>4, <2>1, <2>2
  <2>4. outbox'[id] = q[1] /\ <<q[2], id>> \in queue'
    BY <2>1, <2>3
  <2>5. QED
    BY <2>2, <2>4 DEF Waiting
<1>5. Waiting' = Waiting \/ Waiting' = Waiting \ {p}
  BY <1>3, <1>4
<1>6. CASE Waiting' = Waiting
  BY <1>6, Stutter
<1>7. CASE Waiting' = Waiting \ {p} /\ p \in Waiting
  <2>1. Delivery!Forget(p)
    BY <1>7 DEF Delivery!Forget
  <2>2. QED
    BY <1>1, <2>1 DEF Step, Delivery!Next
<1>8. QED
  BY <1>5, <1>6, <1>7

\* A mail of which no row is left is filed.
LEMMA FileStep ==
    ASSUME TypeInv, QueueInv, RefInv, SingleRecipient, NEW w \in Worker,
           pc[w] \in {"move", "selfMove"},
           sent' = sent \cup {snap[w]},
           Waiting' = Waiting, Got' = Got, UNCHANGED concluded
    PROVE  Step
<1>1. pc[w] \in Busy /\ Holding(w)
  BY DEF Holding, Busy, Pc
<1>2. /\ outbox[cur[w]] = snap[w] /\ cur[w] \in Ids
      /\ <<snap[w], w[1]>> \in concluded
      /\ \A d \in Dest : <<d, cur[w]>> \notin queue
  BY <1>1, HoldingBusy DEF QueueInv, RunOK, CurOK, SettledOK, LastOK, Leaving
<1>3. snap[w] \in Msg /\ w[1] \in Dest
  BY <1>1, InHand
<1>4. \A id \in Ids : outbox[id] = snap[w] => id = cur[w]
  BY <1>2, <1>3 DEF RefInv, StoredOnce
<1>5. <<snap[w], w[1]>> \notin Waiting
  BY <1>2, <1>3, <1>4 DEF Waiting
<1>6. Delivery!File(snap[w])
  BY <1>1, <1>2, <1>5, InHand DEF Delivery!File
<1>7. QED
  BY <1>3, <1>6 DEF Step, Delivery!Next

-----------------------------------------------------------------------------
(* The steps of run().                                                     *)

\* Steps that leave the database and the outside world alone.
LEMMA SilentRun ==
    ASSUME NEW w \in Worker,
           \/ RunStart(w) \/ RunWake(w) \/ RunFetch(w) \/ RunSkip(w)
           \/ RunDone(w) \/ RunStop(w) \/ DropPending(w) \/ DropFlag(w)
           \/ SelfPending(w) \/ RemoteAbort(w) \/ RemotePending(w)
           \/ RemoteClassify(w)
    PROVE  Step
<1>1. UNCHANGED <<outbox, queue, sent, concluded, delivered>>
  BY DEF RunStart, RunWake, RunFetch, RunSkip, RunDone, RunStop, DropPending,
     DropFlag, SelfPending, RemoteAbort, RemotePending, RemoteClassify, db,
     remote, history
<1>2. Waiting' = Waiting /\ Got' = Got
  BY <1>1 DEF Waiting, Got
<1>3. QED
  BY <1>1, <1>2, Stutter

\* A mail that is too old when it is read is given up.
LEMMA SelectStep ==
    ASSUME TypeInv, QueueInv, SingleRecipient, NEW w \in Worker, RunSelect(w)
    PROVE  Step
<1>1. PICK id \in Ids : RunSelect(w)!2!(id)
  BY DEF RunSelect
<1>2. UNCHANGED <<outbox, queue, sent, delivered>>
  BY DEF RunSelect, db, remote
<1>3. Waiting' = Waiting /\ Got' = Got
  BY <1>2 DEF Waiting, Got
<1>4. <<w[1], id>> \in queue /\ w[1] \in Dest
  BY <1>1, WorkerDest DEF IsNextRef, QueueInv, RunOK, RefsOK
<1>5. outbox[id] \in Msg
  BY <1>4 DEF QueueInv, RowsOK
<1>6. <<outbox[id], w[1]>> \in Waiting
  BY <1>4, <1>5 DEF Waiting
<1>7. CASE UNCHANGED concluded
  BY <1>2, <1>3, <1>7, Stutter
<1>8. CASE concluded' = concluded \cup {<<outbox[id], w[1]>>}
  <2>1. Delivery!Settle(<<outbox[id], w[1]>>)
    BY <1>2, <1>3, <1>6, <1>8 DEF Delivery!Settle
  <2>2. QED
    BY <1>4, <1>5, <2>1 DEF Step, Delivery!Next
<1>9. QED
  BY <1>1, <1>7, <1>8

\* The mail is delivered to this node, refused by another one or written to it.
LEMMA SettleSteps ==
    ASSUME TypeInv, QueueInv, SingleRecipient, NEW w \in Worker,
           SelfDeliver(w) \/ RemoteDial(w) \/ RemoteData(w)
    PROVE  Step
<1>1. pc[w] \in Busy
  BY DEF SelfDeliver, RemoteDial, RemoteData, Busy, Pc
<1>2. UNCHANGED <<outbox, queue, sent>>
  BY DEF SelfDeliver, RemoteDial, RemoteData, db
<1>3. Waiting' = Waiting
  BY <1>2, WaitingKept
<1>4. snap[w] \in Msg /\ w[1] \in Dest
  BY <1>1, InHand
<1>5. \/ UNCHANGED <<concluded, delivered>>
      \/ /\ concluded' = concluded \cup {<<snap[w], w[1]>>}
         /\ UNCHANGED delivered \/ Copy(snap[w], w[1])
  BY DEF SelfDeliver, RemoteDial, RemoteData, remote
<1>6. UNCHANGED delivered => Got' = Got
  BY DEF Got
<1>7. QED
  BY <1>1, <1>2, <1>3, <1>4, <1>5, <1>6, GotCopy, SettleStep, Stutter

\* The final "." reaches the node, or not.
LEMMA CloseStep ==
    ASSUME TypeInv, QueueInv, SingleRecipient, NEW w \in Worker, RemoteClose(w)
    PROVE  Step
<1>1. pc[w] = "close" /\ pc[w] \in Busy
  BY DEF RemoteClose, Busy, Pc
<1>2. <<snap[w], w[1]>> \in concluded
  BY <1>1 DEF QueueInv, RunOK, SettledOK, Leaving
<1>3. UNCHANGED <<outbox, queue, sent, concluded>>
  BY DEF RemoteClose, db, history
<1>4. Waiting' = Waiting
  BY <1>3, WaitingKept
<1>5. concluded' = concluded \cup {<<snap[w], w[1]>>}
  BY <1>2, <1>3
<1>6. Got' \in {Got, Got \cup {<<snap[w], w[1]>>}}
  <2>1. UNCHANGED delivered => Got' = Got
    BY DEF Got
  <2>2. QED
    BY <1>1, <2>1, InHand, GotCopy DEF RemoteClose
<1>7. QED
  BY <1>1, <1>3, <1>4, <1>5, <1>6, SettleStep

\* The row of the mail in hand goes, or its deletion fails.
LEMMA ForgetSteps ==
    ASSUME TypeInv, QueueInv, SingleRecipient, NEW w \in Worker,
           DropDequeue(w) \/ SelfDequeue(w) \/ RemoteDequeue(w)
    PROVE  Step
<1>1. pc[w] \in {"drop", "selfDequeue", "dequeue"}
  BY DEF DropDequeue, SelfDequeue, RemoteDequeue
<1>2. pc[w] \in Busy /\ Holding(w) /\ <<snap[w], w[1]>> \in concluded
  BY <1>1 DEF Holding, Busy, Pc, QueueInv, RunOK, SettledOK, Leaving
<1>3. UNCHANGED <<outbox, sent, concluded, delivered>>
  BY DEF DropDequeue, SelfDequeue, RemoteDequeue, remote
<1>4. Got' = Got
  BY <1>3 DEF Got
<1>5. CASE queue' = queue
  BY <1>3, <1>4, <1>5, WaitingKept, Stutter
<1>6. CASE queue' = queue \ {<<w[1], cur[w]>>}
  BY <1>2, <1>3, <1>4, <1>6, ForgetStep
<1>7. QED
  BY <1>5, <1>6 DEF DropDequeue, SelfDequeue, RemoteDequeue,
     QueueDeleteDestinationForID

\* An expunge removes mails nobody waits for.
LEMMA ExpungeIsSilent ==
    ASSUME TypeInv, QueueInv, NEW w \in Worker, DropExpunge(w) \/ RunExpunge(w)
    PROVE  Step
<1>1. RemoveMails(deleted) \/ UNCHANGED <<outbox, queue>>
  BY DEF DropExpunge, RunExpunge, MailExpunge, db
<1>2. UNCHANGED <<sent, concluded, delivered>>
  BY DEF DropExpunge, RunExpunge, MailExpunge, db, remote
<1>3. \A id \in deleted, d \in Dest : <<d, id>> \notin queue
  BY DEF QueueInv, RowsOK, TypeInv, DbType
<1>4. queue' = queue
  BY <1>1, <1>3, NoRowsRemoved
<1>5. \A id \in Ids, d \in Dest : <<d, id>> \in queue => outbox'[id] = outbox[id]
  BY <1>1, <1>3 DEF RemoveMails
<1>6. Waiting' = Waiting /\ Got' = Got
  BY <1>2, <1>4, <1>5, WaitingKept DEF Got
<1>7. QED
  BY <1>2, <1>6, Stutter

\* The move to Sent, complete, half done or not at all.
LEMMA MoveFiles ==
    ASSUME TypeInv, QueueInv, RefInv, SingleRecipient, NEW w \in Worker,
           SelfMove(w) \/ RemoteMove(w)
    PROVE  Step
<1>1. pc[w] \in {"move", "selfMove"} /\ pc[w] \in Busy
  BY DEF SelfMove, RemoteMove, Busy, Pc
<1>2. /\ outbox[cur[w]] = snap[w] /\ snap[w] \in Msg
      /\ \A d \in Dest : <<d, cur[w]>> \notin queue
  BY <1>1, InHand DEF QueueInv, RunOK, CurOK, Holding, LastOK, Busy, Pc
<1>3. /\ RemoveMails({cur[w]}) \/ UNCHANGED <<outbox, queue>>
      /\ sent' \in {sent, sent \cup {snap[w]}}
      /\ UNCHANGED <<concluded, delivered>>
  BY <1>1, <1>2, ConstantsAssumption
  DEF SelfMove, RemoteMove, MailMove, HalfMove, db, remote
<1>4. queue' = queue
  BY <1>2, <1>3, NoRowsRemoved
<1>5. \A id \in Ids, d \in Dest : <<d, id>> \in queue => outbox'[id] = outbox[id]
  BY <1>2, <1>3 DEF RemoveMails
<1>6. Waiting' = Waiting /\ Got' = Got
  BY <1>3, <1>4, <1>5, WaitingKept DEF Got
<1>7. QED
  BY <1>1, <1>3, <1>6, FileStep, Stutter

LEMMA RunStep ==
    ASSUME TypeInv, QueueInv, RefInv, SingleRecipient, NEW w \in Worker, Run(w)
    PROVE  Step
  BY SilentRun, SelectStep, SettleSteps, CloseStep, ForgetSteps, ExpungeIsSilent,
     MoveFiles DEF Run

-----------------------------------------------------------------------------
(* Submitters, the manager and the environment.                            *)

\* A mail that is stored waits for nobody yet: the id it gets has no rows.
LEMMA CreateIsSilent ==
    ASSUME TypeInv, QueueInv, NEW m \in Msg, QueueForCreate(m)
    PROVE  Step
<1>1. UNCHANGED <<queue, sent, concluded, delivered>>
  BY DEF QueueForCreate, remote, history
<1>2. \A id \in Ids, d \in Dest : <<d, id>> \in queue => outbox'[id] = outbox[id]
  <2>1. CASE UNCHANGED outbox
    BY <2>1
  <2>2. ASSUME NEW new \in Ids, MailCreate(m, new)
        PROVE  \A id \in Ids, d \in Dest : <<d, id>> \in queue => outbox'[id] = outbox[id]
    <3>1. \A i \in Ids : Present(i) => i # new
      BY <2>2 DEF MailCreate, IsNextId, Ids
    <3>2. \A i \in Ids, d \in Dest : <<d, i>> \in queue => i # new
      BY <3>1, ConstantsAssumption DEF QueueInv, RowsOK, Present
    <3>3. QED
      BY <2>2, <3>2 DEF MailCreate, TypeInv, DbType
  <2>3. QED
    BY <2>1, <2>2 DEF QueueForCreate
<1>3. Waiting' = Waiting /\ Got' = Got
  BY <1>1, <1>2, WaitingKept DEF Got
<1>4. QED
  BY <1>1, <1>3, Stutter

\* The row of a recipient is inserted: it is taken on.
LEMMA InsertAccepts ==
    ASSUME TypeInv, QueueInv, RefInv, SingleRecipient, NEW m \in Msg, QueueForInsert(m)
    PROVE  Step
<1> DEFINE d == Rcpts[m][subNext[m]]
           p == <<m, d>>
<1>1. UNCHANGED <<outbox, sent, concluded, delivered>> /\ Got' = Got
  BY DEF QueueForInsert, remote, Got
<1>2. CASE UNCHANGED queue
  BY <1>1, <1>2, WaitingKept, Stutter
<1>3. CASE queue' = queue \cup {<<d, subId[m]>>}
  <2>1. subNext[m] = 1 /\ subPc[m] = "insert" /\ subId[m] \in Ids /\ d \in Dest
    BY DEF QueueForInsert, SingleRecipient, TypeInv, SubmitType
  <2>2. /\ outbox[subId[m]] = m
        /\ p \notin queued
    BY <2>1 DEF QueueInv, SubmitOK
  <2>3. p \in Addressed
    BY <2>1 DEF QueueForInsert, Addressed
  <2>4. p \notin Waiting
    BY <2>2 DEF Waiting, QueueInv, RowsOK
  <2>5. p \notin concluded
    BY <2>2 DEF RefInv
  <2>6. Waiting' = Waiting \cup {p}
    <3>1. \A q \in Msg \X Dest : q \in Waiting' <=> q \in Waiting \/ q = p
      <4>1. ASSUME NEW q \in Msg \X Dest, q \in Waiting' PROVE q \in Waiting \/ q = p
        BY <1>1, <1>3, <2>1, <2>2, <4>1 DEF Waiting
      <4>2. ASSUME NEW q \in Msg \X Dest, q \in Waiting PROVE q \in Waiting'
        BY <1>1, <1>3, <4>2 DEF Waiting
      <4>3. p \in Waiting'
        BY <1>1, <1>3, <2>1, <2>2 DEF Waiting
      <4>4. QED
        BY <4>1, <4>2, <4>3
    <3>2. Waiting \subseteq Msg \X Dest /\ Waiting' \subseteq Msg \X Dest /\ p \in Msg \X Dest
      BY <2>1 DEF Waiting
    <3>3. QED
      BY <3>1, <3>2
  <2>7. Delivery!Accept(p)
    BY <1>1, <2>3, <2>4, <2>5, <2>6 DEF Delivery!Accept
  <2>8. QED
    BY <2>1, <2>7 DEF Step, Delivery!Next
<1>4. QED
  BY <1>2, <1>3 DEF QueueForInsert

\* A crash loses nothing of it; a move under way may have filed its mail.
LEMMA CrashStep ==
    ASSUME TypeInv, QueueInv, RefInv, SingleRecipient, Crash
    PROVE  Step
<1>1. UNCHANGED <<outbox, queue, concluded, delivered>>
  BY DEF Crash, remote
<1>2. Waiting' = Waiting /\ Got' = Got
  BY <1>1, WaitingKept DEF Got
<1>3. CASE UNCHANGED sent
  BY <1>1, <1>2, <1>3, Stutter
<1>4. ASSUME NEW w \in Worker, pc[w] \in {"move", "selfMove"},
             sent' = sent \cup {outbox[cur[w]]}
      PROVE  Step
  <2>1. outbox[cur[w]] = snap[w]
    BY <1>4 DEF QueueInv, RunOK, CurOK, Holding, Busy, Pc
  <2>2. QED
    BY <1>1, <1>2, <1>4, <2>1, FileStep
<1>5. QED
  BY <1>3, <1>4 DEF Crash

\* Everything else is a matter of memory and time.
LEMMA OtherStep ==
    ASSUME \/ \E m \in Msg : QueueForBadAddress(m) \/ QueueForSpawn(m) \/ QueueForReturn(m)
           \/ Manager \/ ResetRetryCounters \/ Expire \/ UNCHANGED vars
    PROVE  Step
<1>1. UNCHANGED <<outbox, queue, sent, concluded, delivered>>
  BY DEF QueueForBadAddress, QueueForSpawn, QueueForReturn, Manager, ManagerList,
     ManagerSpawn, ManagerReschedule, ResetRetryCounters, Expire, vars, db,
     remote, history
<1>2. Waiting' = Waiting /\ Got' = Got
  BY <1>1 DEF Waiting, Got
<1>3. QED
  BY <1>1, <1>2, Stutter

-----------------------------------------------------------------------------
\* At the start nothing waits and nobody has anything.
LEMMA InitRefines == Init => RefInv /\ Delivery!Init
<1> SUFFICES ASSUME Init PROVE RefInv /\ Delivery!Init
  OBVIOUS
<1>1. RefInv
  BY ConstantsAssumption DEF Init, RefInv, StoredOnce
<1>2. Waiting = {} /\ Got = {}
  BY DEF Init, Waiting, Got
<1>3. QED
  BY <1>1, <1>2 DEF Init, Delivery!Init

LEMMA NextRefines ==
    ASSUME SingleRecipient, "user" \notin Events, TypeInv, QueueInv, RefInv, [Next]_vars
    PROVE  [Delivery!Next]_(Delivery!vars)
  BY RunStep, CreateIsSilent, InsertAccepts, CrashStep, OtherStep
  DEF Next, Submit, Environment, UserDelete, UserExpunge, Step

\* Under these conditions sender.go over its tables implements MailDelivery:
\* whatever fails and wherever the process is killed, a recipient is taken on
\* once, waits until it is settled, only then loses its row, and its mail is
\* filed in Sent only after that.
THEOREM Refines ==
    ASSUME SingleRecipient, "user" \notin Events
    PROVE  Spec => ImplementsDelivery
<1>1. TypeInv /\ QueueInv /\ RefInv /\ [Next]_vars
        => RefInv' /\ [Delivery!Next]_(Delivery!vars)
  BY RefNext, NextRefines
<1>2. QED
  BY <1>1, InitRefines, QueueInvariant, RunnerInvariant, PTL
  DEF Spec, ImplementsDelivery, Delivery!Spec

=============================================================================
