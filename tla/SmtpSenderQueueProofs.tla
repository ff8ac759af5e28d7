----------------------- MODULE SmtpSenderQueueProofs ------------------------
(***************************************************************************)
(* What the tables guarantee: no queued recipient is lost, no mail is in   *)
(* Sent too early and none goes to a wrong node.  The theorems hold for    *)
(* mails with one recipient each and without mail clients that delete from *)
(* the Outbox, for every other combination of failures.                    *)
(***************************************************************************)
EXTENDS SmtpSenderProofs

\* Two goroutines of one destination are the same.
LEMMA SameDest ==
    ASSUME SingleRunner, NEW v \in Worker, NEW w \in Worker,
           v[1] = w[1], pc[v] # "idle", pc[w] # "idle"
    PROVE  v = w
<1>1. /\ v = <<v[1], v[2]>> /\ v[1] \in Dest /\ v[2] \in Gen
      /\ w = <<w[1], w[2]>> /\ w[1] \in Dest /\ w[2] \in Gen
  BY WorkerDest
<1>2. v[2] = w[2]
  BY <1>1 DEF SingleRunner, Active
<1>3. QED
  BY <1>1, <1>2

\* Who holds a mail is inside the loop body, with an id and a mail.
LEMMA HoldingBusy ==
    ASSUME TypeInv, NEW w \in Worker, Holding(w)
    PROVE  pc[w] \in Busy /\ pc[w] # "idle" /\ cur[w] \in Ids /\ snap[w] \in Msg
<1>1. pc[w] \in Busy
  BY DEF Holding, Busy, Pc
<1>2. QED
  BY <1>1, Labels DEF TypeInv, RunType

\* The id a run holds is in no other run's hands: the mail behind it is
\* addressed to one destination, and that destination has one goroutine.
LEMMA Exclusive ==
    ASSUME TypeInv, SingleRunner, QueueInv, NEW w \in Worker, Holding(w)
    PROVE  /\ \A v \in Worker : Holding(v) /\ cur[v] = cur[w] => v = w
           /\ \A v \in Worker : cur[w] \notin refs[v]
<1> USE DEF QueueInv, RunOK
<1>1. /\ pc[w] \in Busy /\ cur[w] \in Ids /\ pc[w] # "idle"
      /\ outbox[cur[w]] = snap[w] /\ To(snap[w]) = w[1]
  BY HoldingBusy DEF CurOK, SnapOK
<1>2. ASSUME NEW v \in Worker, Holding(v), cur[v] = cur[w] PROVE v = w
  <2>1. /\ pc[v] # "idle" /\ outbox[cur[v]] = snap[v] /\ To(snap[v]) = v[1]
    BY <1>2, HoldingBusy DEF CurOK, SnapOK
  <2>2. QED
    BY <1>1, <1>2, <2>1, SameDest
<1>3. ASSUME NEW v \in Worker, cur[w] \in refs[v] PROVE FALSE
  <2>1. <<v[1], cur[w]>> \in queue /\ pc[v] \in Busy \cup {"loop"} 
    BY <1>3 DEF RefsOK
  <2>2. v[1] = w[1]
    BY <1>1, <2>1, WorkerDest DEF RowsOK
  <2>3. v = w
    BY <1>1, <2>1, <2>2, SameDest, Labels
  <2>4. QED
    BY <1>1, <1>3, <2>3 DEF RefsOK
<1>4. QED
  BY <1>2, <1>3

\* A mail that a run holds is not one that a submitter has still to queue.
LEMMA NotSubmitted ==
    ASSUME TypeInv, QueueInv, NEW w \in Worker, Holding(w),
           NEW m \in Msg, subPc[m] = "insert", subNext[m] = 1
    PROVE  subId[m] # cur[w] /\ snap[w] # m
<1>1. pc[w] \in Busy /\ outbox[cur[w]] = snap[w] /\ <<snap[w], w[1]>> \in queued
  BY HoldingBusy DEF QueueInv, RunOK, CurOK, SnapOK
<1>2. outbox[subId[m]] = m /\ \A d \in Dest : <<m, d>> \notin queued
  BY DEF QueueInv, SubmitOK
<1>3. QED
  BY <1>1, <1>2, WorkerDest

-----------------------------------------------------------------------------
(* What a step of a run leaves alone.                                      *)

\* The goroutine v is where it was, with the locals it had.
Same(v) ==
    /\ pc'[v] = pc[v] /\ refs'[v] = refs[v] /\ cur'[v] = cur[v]
    /\ snap'[v] = snap[v] /\ res'[v] = res[v]

\* A step of goroutine w touches no other one and no submitter.
Frame(w) ==
    /\ \A v \in Worker : v # w => Same(v)
    /\ UNCHANGED <<submit, queued>>
    /\ concluded \subseteq concluded'

\* Every step of run() is such a step.
LEMMA RunFrame == ASSUME TypeInv, NEW w \in Worker, Run(w) PROVE Frame(w)
<1> USE DEF TypeInv, RunType, Same, Frame, Goto, NextRef, ClearLocals, locals,
        outer, history, mem, submit
<1>1. CASE RunStart(w) \/ RunWake(w) \/ RunFetch(w) \/ RunSkip(w)
  BY <1>1 DEF RunStart, RunWake, RunFetch, RunSkip
<1>2. CASE RunSelect(w)
  BY <1>2 DEF RunSelect
<1>3. CASE RunDone(w) \/ DropDequeue(w) \/ RunExpunge(w) \/ RunStop(w)
  BY <1>3 DEF RunDone, DropDequeue, RunExpunge, RunStop
<1>4. CASE DropPending(w) \/ DropFlag(w) \/ DropExpunge(w)
  BY <1>4 DEF DropPending, DropFlag, DropExpunge, AfterDrop
<1>5. CASE SelfDeliver(w)
  BY <1>5 DEF SelfDeliver
<1>6. CASE SelfDequeue(w) \/ SelfPending(w) \/ SelfMove(w)
  BY <1>6 DEF SelfDequeue, SelfPending, SelfMove
<1>7. CASE RemoteDial(w) \/ RemoteData(w) \/ RemoteAbort(w) \/ RemoteDequeue(w)
  BY <1>7 DEF RemoteDial, RemoteData, RemoteAbort, RemoteDequeue
<1>8. CASE RemotePending(w) \/ RemoteMove(w) \/ RemoteClose(w) \/ RemoteClassify(w)
  BY <1>8 DEF RemotePending, RemoteMove, RemoteClose, RemoteClassify
<1>9. QED
  BY <1>1, <1>2, <1>3, <1>4, <1>5, <1>6, <1>7, <1>8 DEF Run

\* A goroutine that a step leaves alone keeps RunOK when what it refers to
\* in the tables stays.
LEMMA OtherRun ==
    ASSUME NEW v \in Worker, RunOK(v), Same(v),
           queued \subseteq queued', concluded \subseteq concluded',
           \A id \in refs[v] : <<v[1], id>> \in queue',
           Holding(v) => outbox'[cur[v]] = outbox[cur[v]] /\ cur[v] \notin deleted',
           pc[v] \in {"move", "selfMove", "dropFlag"}
             => \A d \in Dest : <<d, cur[v]>> \notin queue'
    PROVE  RunOK(v)'
  BY DEF Same, RunOK, ResOK, RefsOK, SnapOK, CurOK, Holding, SettledOK, LastOK

-----------------------------------------------------------------------------
(* The kinds of steps of a run, by what they do to the tables.  In each    *)
(* lemma the goroutine's own RunOK is left to the caller.                  *)

\* A step that leaves the tables alone.
LEMMA LocalStep ==
    ASSUME QueueInv, NEW w \in Worker, Frame(w),
           UNCHANGED <<outbox, deleted, queue>>, OutcomeOK', RunOK(w)'
    PROVE  QueueInv'
<1> USE DEF QueueInv, Frame
<1>1. RowsOK' /\ FlagsOK' /\ SubmitOK'
  BY DEF RowsOK, FlagsOK, SubmitOK, submit
<1>2. NoMailLost'
  BY DEF NoMailLost
<1>3. ASSUME NEW v \in Worker, v # w PROVE RunOK(v)'
  <2>1. RunOK(v) /\ Same(v)
    BY <1>3
  <2>2. QED
    BY <2>1, OtherRun DEF RunOK, RefsOK, CurOK, LastOK
<1>4. QED
  BY <1>1, <1>2, <1>3

\* The row of the mail in hand is deleted, once the recipient is settled.
LEMMA DequeueStep ==
    ASSUME TypeInv, SingleRunner, QueueInv, NEW w \in Worker, Frame(w),
           queue' = queue \ {<<w[1], cur[w]>>}, UNCHANGED <<outbox, deleted>>,
           Holding(w), <<snap[w], w[1]>> \in concluded, OutcomeOK', RunOK(w)'
    PROVE  QueueInv'
<1> USE DEF QueueInv, Frame
<1>1. RowsOK' /\ FlagsOK' /\ SubmitOK'
  BY DEF RowsOK, FlagsOK, SubmitOK, submit
<1>2. ASSUME NEW p \in queued, p \notin concluded
      PROVE  \E id \in Ids : outbox[id] = p[1] /\ <<p[2], id>> \in queue'
  <2>1. PICK id \in Ids : outbox[id] = p[1] /\ <<p[2], id>> \in queue
    BY <1>2 DEF NoMailLost
  <2>2. p = <<p[1], p[2]>>
    BY DEF TypeInv, RemoteType
  <2>3. outbox[cur[w]] = snap[w]
    BY DEF RunOK, CurOK
  <2>4. <<p[2], id>> # <<w[1], cur[w]>>
    BY <1>2, <2>1, <2>2, <2>3
  <2>5. QED
    BY <2>1, <2>4
<1>3. NoMailLost'
  BY <1>2 DEF NoMailLost
<1>4. ASSUME NEW v \in Worker, v # w PROVE RunOK(v)'
  <2>1. RunOK(v) /\ Same(v)
    BY <1>4
  <2>2. \A id \in refs[v] : <<v[1], id>> \in queue'
    BY <2>1, Exclusive DEF RunOK, RefsOK
  <2>3. QED
    BY <2>1, <2>2, OtherRun DEF RunOK, CurOK, LastOK
<1>5. QED
  BY <1>1, <1>3, <1>4

\* Removing mails that have no rows leaves table queue as it is.
LEMMA NoRowsRemoved ==
    ASSUME TypeInv, NEW I, RemoveMails(I),
           \A id \in I, d \in Dest : <<d, id>> \notin queue
    PROVE  queue' = queue
  BY DEF RemoveMails, TypeInv, DbType

\* Mails nobody waits for are removed; nobody else holds them.
LEMMA RemoveStep ==
    ASSUME TypeInv, QueueInv, NEW w \in Worker, Frame(w),
           NEW I, RemoveMails(I),
           \A id \in I, d \in Dest : <<d, id>> \notin queue,
           \A v \in Worker : v # w /\ Holding(v) => cur[v] \notin I,
           \A m \in Msg : subPc[m] = "insert" /\ subNext[m] = 1 => subId[m] \notin I,
           OutcomeOK', RunOK(w)'
    PROVE  QueueInv' /\ queue' = queue
<1> USE DEF QueueInv, Frame
<1>1. queue' = queue
  BY NoRowsRemoved
<1>2. /\ deleted' = deleted \ I
      /\ \A id \in Ids : id \notin I => outbox'[id] = outbox[id]
  BY DEF RemoveMails
<1>3. RowsOK' /\ FlagsOK'
  BY <1>1, <1>2 DEF RowsOK, FlagsOK, TypeInv, DbType
<1>4. SubmitOK'
  BY <1>2 DEF SubmitOK, submit, TypeInv, SubmitType
<1>5. NoMailLost'
  <2>1. ASSUME NEW p \in queued, p \notin concluded
        PROVE  \E id \in Ids : outbox'[id] = p[1] /\ <<p[2], id>> \in queue
    <3>1. PICK id \in Ids : outbox[id] = p[1] /\ <<p[2], id>> \in queue
      BY <2>1 DEF NoMailLost
    <3>2. id \notin I
      BY <3>1 DEF TypeInv, DbType
    <3>3. QED
      BY <3>1, <3>2, <1>2
  <2>2. QED
    BY <2>1, <1>1 DEF NoMailLost
<1>6. ASSUME NEW v \in Worker, v # w PROVE RunOK(v)'
  <2>1. RunOK(v) /\ Same(v)
    BY <1>6
  <2>2. Holding(v) => cur[v] \in Ids /\ cur[v] \notin I
    BY <1>6, HoldingBusy
  <2>3. QED
    BY <1>1, <1>2, <2>1, <2>2, OtherRun DEF RunOK, RefsOK, CurOK, LastOK
<1>7. QED
  BY <1>1, <1>3, <1>4, <1>5, <1>6

\* The expunge of the Outbox: flagged mails have no rows and no holders.
LEMMA ExpungeStep ==
    ASSUME TypeInv, QueueInv, NEW w \in Worker, Frame(w), RemoveMails(deleted),
           OutcomeOK', RunOK(w)'
    PROVE  QueueInv'
<1>1. \A id \in deleted, d \in Dest : <<d, id>> \notin queue
  BY DEF QueueInv, RowsOK, TypeInv, DbType
<1>2. \A v \in Worker : v # w /\ Holding(v) => cur[v] \notin deleted
  BY DEF QueueInv, RunOK, CurOK
<1>3. \A m \in Msg : subPc[m] = "insert" /\ subNext[m] = 1 => subId[m] \notin deleted
  BY DEF QueueInv, SubmitOK
<1>4. QED
  BY <1>1, <1>2, <1>3, RemoveStep

\* The mail in hand is moved out of the Outbox.
LEMMA MoveStep ==
    ASSUME TypeInv, SingleRunner, QueueInv, NEW w \in Worker, Frame(w),
           RemoveMails({cur[w]}), pc[w] \in {"move", "selfMove"},
           OutcomeOK', RunOK(w)'
    PROVE  QueueInv'
<1>1. Holding(w)
  BY DEF Holding, Busy, Pc
<1>2. \A d \in Dest : <<d, cur[w]>> \notin queue
  BY DEF QueueInv, RunOK, LastOK
<1>3. \A v \in Worker : v # w /\ Holding(v) => cur[v] \notin {cur[w]}
  BY <1>1, Exclusive
<1>4. \A m \in Msg : subPc[m] = "insert" /\ subNext[m] = 1 => subId[m] \notin {cur[w]}
  BY <1>1, NotSubmitted
<1>5. QED
  BY <1>2, <1>3, <1>4, RemoveStep

\* The mail in hand is flagged as deleted.
LEMMA FlagStep ==
    ASSUME TypeInv, SingleRunner, QueueInv, NEW w \in Worker, Frame(w),
           deleted' \in {deleted, deleted \cup {cur[w]}}, UNCHANGED <<outbox, queue>>,
           pc[w] = "dropFlag", OutcomeOK', RunOK(w)'
    PROVE  QueueInv'
<1> USE DEF QueueInv, Frame
<1>1. Holding(w)
  BY DEF Holding, Busy, Pc
<1>2. /\ \A d \in Dest : <<d, cur[w]>> \notin queue
      /\ outbox[cur[w]] \in Msg
  BY <1>1, HoldingBusy DEF RunOK, LastOK, CurOK
<1>3. RowsOK' /\ FlagsOK' /\ NoMailLost'
  BY <1>2 DEF RowsOK, FlagsOK, NoMailLost
<1>4. SubmitOK'
  BY <1>1, NotSubmitted DEF SubmitOK, submit
<1>5. ASSUME NEW v \in Worker, v # w PROVE RunOK(v)'
  <2>1. RunOK(v) /\ Same(v)
    BY <1>5
  <2>2. Holding(v) => cur[v] # cur[w]
    BY <1>1, <1>5, Exclusive
  <2>3. QED
    BY <2>1, <2>2, OtherRun DEF RunOK, RefsOK, CurOK, LastOK
<1>6. QED
  BY <1>3, <1>4, <1>5

-----------------------------------------------------------------------------
(* The goroutine that takes the step.                                      *)

\* Outside the loop a run has nothing to visit.
LEMMA OutsideOK ==
    ASSUME NEW w \in Worker, refs'[w] = {},
           pc'[w] \in {"idle", "start", "sleep", "fetch", "expunge", "stop"}
    PROVE  RunOK(w)'
  BY DEF RunOK, ResOK, RefsOK, SnapOK, CurOK, Holding, SettledOK, LastOK, Busy,
     Pc, Leaving

\* At the head of the loop only what is left to visit matters.
LEMMA LoopOK ==
    ASSUME NEW w \in Worker, pc'[w] = "loop",
           \A id \in refs'[w] : <<w[1], id>> \in queue'
    PROVE  RunOK(w)'
  BY DEF RunOK, ResOK, RefsOK, SnapOK, CurOK, Holding, SettledOK, LastOK, Busy,
     Pc, Leaving

\* Inside the loop body the mail in hand stays the same.
LEMMA BodyOK ==
    ASSUME TypeInv, NEW w \in Worker, RunOK(w), pc[w] \in Busy,
           pc'[w] \in Busy, cur'[w] = cur[w], snap'[w] = snap[w],
           refs'[w] = refs[w], UNCHANGED queued,
           queue' \in {queue, queue \ {<<w[1], cur[w]>>}},
           ResOK(w)', CurOK(w)', SettledOK(w)', LastOK(w)'
    PROVE  RunOK(w)'
  BY DEF RunOK, RefsOK, SnapOK

\* What a run visits next is a mail queued for its destination.
LEMMA SelectOK ==
    ASSUME TypeInv, QueueInv, NEW w \in Worker, RunSelect(w)
    PROVE  RunOK(w)'
<1>1. PICK id \in Ids : RunSelect(w)!2!(id)
  BY DEF RunSelect
<1>2. id \in refs[w] /\ <<w[1], id>> \in queue
  BY <1>1 DEF IsNextRef, QueueInv, RunOK, RefsOK
<1>3. /\ outbox[id] \in Msg /\ To(outbox[id]) = w[1] /\ id \notin deleted
      /\ <<outbox[id], w[1]>> \in queued
  BY <1>2, WorkerDest DEF QueueInv, RowsOK
<1>4. /\ refs'[w] = refs[w] \ {id} /\ cur'[w] = id /\ snap'[w] = outbox[id]
      /\ UNCHANGED <<queue, queued, outbox, deleted>>
  BY <1>1 DEF RunSelect, TypeInv, RunType, db
<1>5. \/ pc'[w] = "drop" /\ <<outbox[id], w[1]>> \in concluded'
      \/ pc'[w] \in {"self", "dial"}
  BY <1>1, <1>3 DEF Goto, TypeInv, RunType
<1>6. pc[w] = "loop" /\ RefsOK(w)
  BY DEF RunSelect, QueueInv, RunOK
<1>7. QED
  BY <1>3, <1>4, <1>5, <1>6 DEF RunOK, ResOK, RefsOK, SnapOK, CurOK, Holding,
     SettledOK, LastOK, Busy, Pc, Leaving

\* A mail that reached Sent, or a node, on a step of a run.
LEMMA OutcomeStep ==
    ASSUME TypeInv, QueueInv, SingleRecipient, NEW w \in Worker, Frame(w),
           pc[w] \in Busy,
           sent' \in {sent, sent \cup {snap[w]}},
           sent' # sent => <<snap[w], w[1]>> \in concluded,
           UNCHANGED delivered \/ Copy(snap[w], w[1]),
           partial' \in {partial, partial \cup {<<snap[w], w[1]>>}}
    PROVE  OutcomeOK'
<1>1. snap[w] \in Msg /\ w[1] \in Dest /\ To(snap[w]) = w[1]
  BY WorkerDest DEF TypeInv, RunType, QueueInv, RunOK, SnapOK
<1>2. \A m \in Msg, d \in Dest : delivered'[<<m, d>>] > 0
        => delivered[<<m, d>>] > 0 \/ (m = snap[w] /\ d = w[1])
  BY <1>1 DEF Copy, TypeInv, RemoteType
<1>3. \A m \in sent' : <<m, To(m)>> \in concluded'
  BY <1>1 DEF QueueInv, OutcomeOK, Frame
<1>4. QED
  BY <1>1, <1>2, <1>3 DEF QueueInv, OutcomeOK

-----------------------------------------------------------------------------
(* The steps of run().                                                     *)

\* A step that leaves Sent and the nodes alone keeps OutcomeOK.
LEMMA OutcomeFrame ==
    ASSUME QueueInv, concluded \subseteq concluded', UNCHANGED <<sent, delivered, partial>>
    PROVE  OutcomeOK'
  BY DEF QueueInv, OutcomeOK

\* Before the loop, and at its head.
LEMMA HeadSteps ==
    ASSUME TypeInv, QueueInv, NEW w \in Worker, Frame(w),
           \/ RunStart(w) \/ RunWake(w) \/ RunFetch(w) \/ RunSkip(w)
           \/ RunSelect(w) \/ RunDone(w) \/ RunStop(w)
    PROVE  QueueInv'
<1> USE DEF Goto, db, locals, remote
<1>1. /\ RefsOK(w)
      /\ pc \in [Worker -> Pc] /\ refs \in [Worker -> SUBSET Ids]
  BY DEF QueueInv, RunOK, TypeInv, RunType
<1>2. /\ UNCHANGED <<outbox, deleted, queue, sent, delivered, partial>>
  BY DEF RunStart, RunWake, RunFetch, RunSkip, RunSelect, RunDone, RunStop
<1>3. OutcomeOK'
  BY <1>2, OutcomeFrame DEF Frame
<1>4. CASE RunStart(w) \/ RunWake(w) \/ RunDone(w) \/ RunStop(w)
  <2>1. refs[w] = {}
    BY <1>1, <1>4 DEF RunStart, RunWake, RunDone, RunStop, RefsOK, Busy
  <2>2. QED
    BY <1>1, <1>2, <1>3, <1>4, <2>1, OutsideOK, LocalStep
    DEF RunStart, RunWake, RunDone, RunStop
<1>5. CASE RunFetch(w)
  <2>1. refs[w] = {}
    BY <1>1, <1>5 DEF RunFetch, RefsOK, Busy
  <2>2. CASE refs' = [refs EXCEPT ![w] = QueueMailIDsForDestination(w[1])] /\ Goto(w, "loop")
    BY <1>1, <1>2, <1>3, <2>2, LoopOK, LocalStep DEF QueueMailIDsForDestination
  <2>3. CASE UNCHANGED refs /\ Goto(w, "expunge")
    BY <1>1, <1>2, <1>3, <2>1, <2>3, OutsideOK, LocalStep
  <2>4. QED
    BY <1>5, <2>2, <2>3 DEF RunFetch
<1>6. CASE RunSkip(w)
  <2>1. pc'[w] = "loop" /\ \A id \in refs'[w] : <<w[1], id>> \in queue'
    BY <1>1, <1>2, <1>6 DEF RunSkip, RefsOK
  <2>2. QED
    BY <1>2, <1>3, <2>1, LoopOK, LocalStep
<1>7. CASE RunSelect(w)
  BY <1>2, <1>3, <1>7, SelectOK, LocalStep
<1>8. QED
  BY <1>4, <1>5, <1>6, <1>7

\* What a run knows while it is inside the loop body.
LEMMA BodyFacts ==
    ASSUME TypeInv, QueueInv, NEW w \in Worker, pc[w] \in Busy
    PROVE  /\ pc \in [Worker -> Pc] /\ refs \in [Worker -> SUBSET Ids]
           /\ cur \in [Worker -> Ids \cup {0}] /\ snap \in [Worker -> Msg \cup {NoMsg}]
           /\ res \in [Worker -> Res]
           /\ cur[w] \in Ids /\ snap[w] \in Msg
           /\ \A id \in refs[w] : <<w[1], id>> \in queue /\ id # cur[w]
           /\ RunOK(w)
  BY DEF TypeInv, RunType, QueueInv, RunOK, RefsOK

\* Every step of run() that only looks at the tables.
LEMMA LookSteps ==
    ASSUME TypeInv, QueueInv, SingleRecipient, NEW w \in Worker, Frame(w),
           \/ DropPending(w) \/ SelfDeliver(w) \/ SelfPending(w)
           \/ RemoteDial(w) \/ RemoteData(w) \/ RemoteAbort(w)
           \/ RemotePending(w) \/ RemoteClose(w) \/ RemoteClassify(w)
    PROVE  QueueInv'
<1> USE DEF db, locals, remote, history
<1>1. pc[w] \in Busy
  BY Labels DEF DropPending, SelfDeliver, SelfPending, RemoteDial, RemoteData,
     RemoteAbort, RemotePending, RemoteClose, RemoteClassify
<1>2. UNCHANGED <<outbox, deleted, queue, sent, queued>>
  BY DEF DropPending, SelfDeliver, SelfPending, RemoteDial, RemoteData,
     RemoteAbort, RemotePending, RemoteClose, RemoteClassify
<1>3. OutcomeOK'
  <2>1. /\ UNCHANGED delivered \/ Copy(snap[w], w[1])
        /\ partial' \in {partial, partial \cup {<<snap[w], w[1]>>}}
    BY DEF DropPending, SelfDeliver, SelfPending, RemoteDial, RemoteData,
       RemoteAbort, RemotePending, RemoteClose, RemoteClassify
  <2>2. QED
    BY <1>1, <1>2, <2>1, OutcomeStep
<1>4. SUFFICES RunOK(w)'
  BY <1>2, <1>3, LocalStep
<1>5. CASE DropPending(w) /\ AfterDrop(w)
  BY <1>1, <1>2, <1>5, BodyFacts, LoopOK, OutsideOK
  DEF AfterDrop, NextRef, ClearLocals, Goto
<1>6. CASE NextRef(w) /\ UNCHANGED refs
  BY <1>1, <1>2, <1>6, BodyFacts, LoopOK DEF NextRef, ClearLocals, Goto
<1>7. ASSUME UNCHANGED <<refs, cur, snap>>, NEW l \in Busy, Goto(w, l),
             ResOK(w)', CurOK(w)', SettledOK(w)', LastOK(w)'
      PROVE  RunOK(w)'
  BY <1>1, <1>2, <1>7, BodyFacts, BodyOK DEF Goto
<1> USE DEF Goto, ResOK, CurOK, Holding, SettledOK, LastOK, Leaving, Busy, Pc
<1>8. CASE DropPending(w) /\ ~AfterDrop(w)
  <2>1. PICK l \in {"dropExpunge", "dropFlag"} : Goto(w, l) /\ UNCHANGED <<refs, cur, snap, res>>
    BY <1>8 DEF DropPending
  <2>2. ~QueueSelectIsMessagePendingSend(cur[w]) /\ pc[w] = "dropPending"
    BY <1>8 DEF DropPending
  <2>3. QED
    BY <1>1, <1>2, <1>7, <2>1, <2>2, BodyFacts
    DEF RunOK, QueueSelectIsMessagePendingSend, Frame
<1>9. CASE SelfDeliver(w)
  BY <1>1, <1>2, <1>6, <1>7, <1>9, BodyFacts DEF RunOK, SelfDeliver
<1>10. CASE SelfPending(w)
  BY <1>1, <1>2, <1>6, <1>7, <1>10, BodyFacts
  DEF RunOK, SelfPending, QueueSelectIsMessagePendingSend, Frame
<1>11. CASE RemoteDial(w)
  BY <1>1, <1>2, <1>7, <1>11, BodyFacts DEF RunOK, RemoteDial
<1>12. CASE RemoteData(w)
  BY <1>1, <1>2, <1>7, <1>12, BodyFacts DEF RunOK, RemoteData
<1>13. CASE RemoteAbort(w)
  BY <1>1, <1>2, <1>7, <1>13, BodyFacts DEF RunOK, RemoteAbort, Frame
<1>14. CASE RemotePending(w)
  BY <1>1, <1>2, <1>7, <1>14, BodyFacts
  DEF RunOK, RemotePending, QueueSelectIsMessagePendingSend, Frame
<1>15. CASE RemoteClose(w)
  BY <1>1, <1>2, <1>7, <1>15, BodyFacts DEF RunOK, RemoteClose, Frame
<1>16. CASE RemoteClassify(w)
  BY <1>1, <1>2, <1>6, <1>7, <1>16, BodyFacts DEF RunOK, RemoteClassify, Frame
<1>17. QED
  BY <1>5, <1>8, <1>9, <1>10, <1>11, <1>12, <1>13, <1>14, <1>15, <1>16

\* The steps that delete the row of the mail in hand.
LEMMA DequeueSteps ==
    ASSUME TypeInv, SingleRunner, QueueInv, NEW w \in Worker, Frame(w),
           DropDequeue(w) \/ SelfDequeue(w) \/ RemoteDequeue(w)
    PROVE  QueueInv'
<1> USE DEF DropDequeue, SelfDequeue, RemoteDequeue, QueueDeleteDestinationForID,
        locals, remote
<1>1. /\ pc[w] \in {"drop", "selfDequeue", "dequeue"}
      /\ UNCHANGED <<outbox, deleted, sent, queued, delivered, partial, refs, cur, snap>>
  OBVIOUS
<1>2. queue' = queue \/ queue' = queue \ {<<w[1], cur[w]>>}
  OBVIOUS
<1>3. pc[w] \in Busy /\ Holding(w) /\ <<snap[w], w[1]>> \in concluded
  BY <1>1 DEF Holding, Busy, Pc, QueueInv, RunOK, SettledOK, Leaving
<1>4. OutcomeOK'
  BY <1>1, OutcomeFrame DEF Frame
<1>5. RunOK(w)'
  <2>1. /\ pc'[w] \in {"dropPending", "selfPending", "pending", "close"}
        /\ pc'[w] = "close" => res'[w] = "temp"
    BY <1>3, BodyFacts DEF Goto
  <2>2. ResOK(w)' /\ CurOK(w)' /\ SettledOK(w)' /\ LastOK(w)' /\ pc'[w] \in Busy
    BY <1>1, <1>3, <2>1, BodyFacts
    DEF RunOK, ResOK, CurOK, Holding, SettledOK, LastOK, Leaving, Busy, Pc, Frame
  <2>3. QED
    BY <1>1, <1>2, <1>3, <2>2, BodyFacts, BodyOK
<1>6. QED
  BY <1>1, <1>2, <1>3, <1>4, <1>5, LocalStep, DequeueStep

\* The end of a drop leaves the loop body.
LEMMA AfterDropOK ==
    ASSUME TypeInv, QueueInv, NEW w \in Worker, pc[w] \in Busy, AfterDrop(w),
           UNCHANGED queue
    PROVE  RunOK(w)'
  BY BodyFacts, LoopOK, OutsideOK DEF AfterDrop, NextRef, ClearLocals, Goto

\* Flagging the mail in hand.
LEMMA FlagSteps ==
    ASSUME TypeInv, SingleRunner, QueueInv, NEW w \in Worker, Frame(w), DropFlag(w)
    PROVE  QueueInv'
<1>1. /\ pc[w] = "dropFlag" /\ pc[w] \in Busy
      /\ UNCHANGED <<outbox, queue, sent, delivered, partial>>
      /\ deleted' \in {deleted, deleted \cup {cur[w]}}
  BY Labels DEF DropFlag, MailDelete, remote
<1>2. OutcomeOK' /\ RunOK(w)'
  BY <1>1, OutcomeFrame, AfterDropOK DEF DropFlag, Frame
<1>3. QED
  BY <1>1, <1>2, FlagStep

\* The expunge of the Outbox, in the loop and at the end of a run.
LEMMA ExpungeSteps ==
    ASSUME TypeInv, SingleRunner, QueueInv, NEW w \in Worker, Frame(w),
           DropExpunge(w) \/ RunExpunge(w)
    PROVE  QueueInv'
<1>1. /\ RemoveMails(deleted) \/ UNCHANGED <<outbox, deleted, queue>>
      /\ UNCHANGED <<sent, delivered, partial>>
  BY DEF DropExpunge, RunExpunge, MailExpunge, db, remote
<1>2. queue' = queue
  <2>1. \A id \in deleted, d \in Dest : <<d, id>> \notin queue
    BY DEF QueueInv, RowsOK, TypeInv, DbType
  <2>2. QED
    BY <1>1, <2>1, NoRowsRemoved
<1>3. OutcomeOK'
  BY <1>1, OutcomeFrame DEF Frame
<1>4. CASE DropExpunge(w)
  <2>1. RunOK(w)'
    BY <1>2, <1>4, AfterDropOK, Labels DEF DropExpunge
  <2>2. QED
    BY <1>1, <1>3, <2>1, LocalStep, ExpungeStep
<1>5. CASE RunExpunge(w)
  <2>1. refs'[w] = {} /\ pc'[w] = "stop"
    BY <1>5 DEF RunExpunge, Goto, locals, QueueInv, RunOK, RefsOK, Busy, TypeInv, RunType
  <2>2. QED
    BY <1>1, <1>3, <2>1, OutsideOK, LocalStep, ExpungeStep
<1>6. QED
  BY <1>4, <1>5

\* The move to Sent, complete, half done or not at all.
LEMMA MoveSteps ==
    ASSUME TypeInv, SingleRunner, QueueInv, SingleRecipient, NEW w \in Worker,
           Frame(w), SelfMove(w) \/ RemoteMove(w)
    PROVE  QueueInv'
<1>1. pc[w] \in {"move", "selfMove"} /\ pc[w] \in Busy
  BY Labels DEF SelfMove, RemoteMove
<1>2. /\ outbox[cur[w]] = snap[w] /\ <<snap[w], w[1]>> \in concluded
      /\ \A d \in Dest : <<d, cur[w]>> \notin queue
  BY <1>1 DEF QueueInv, RunOK, CurOK, Holding, SettledOK, LastOK, Leaving, Busy, Pc
<1>3. /\ RemoveMails({cur[w]}) \/ UNCHANGED <<outbox, deleted, queue>>
      /\ sent' \in {sent, sent \cup {snap[w]}}
      /\ UNCHANGED <<delivered, partial>>
  BY <1>1, <1>2, BodyFacts, ConstantsAssumption
  DEF SelfMove, RemoteMove, MailMove, HalfMove, db, remote
<1>4. queue' = queue
  <2>1. \A id \in {cur[w]}, d \in Dest : <<d, id>> \notin queue
    BY <1>2
  <2>2. QED
    BY <1>3, <2>1, NoRowsRemoved
<1>5. OutcomeOK'
  BY <1>1, <1>2, <1>3, OutcomeStep
<1>6. RunOK(w)'
  <2>1. CASE SelfMove(w)
    BY <1>1, <1>4, <2>1, BodyFacts, LoopOK DEF SelfMove, NextRef, Goto
  <2>2. CASE RemoteMove(w)
    <3>1. /\ pc'[w] = "close" /\ res'[w] \in {"ok", "temp"}
          /\ UNCHANGED <<refs, cur, snap, queued>>
      BY <1>1, <2>2, BodyFacts DEF RemoteMove, Goto
    <3>2. ResOK(w)' /\ CurOK(w)' /\ SettledOK(w)' /\ LastOK(w)' /\ pc'[w] \in Busy
      BY <1>2, <3>1 DEF ResOK, CurOK, Holding, SettledOK, LastOK, Busy, Pc, Frame
    <3>3. QED
      BY <1>1, <1>4, <3>1, <3>2, BodyFacts, BodyOK
  <2>3. QED
    BY <2>1, <2>2
<1>7. QED
  BY <1>1, <1>3, <1>5, <1>6, LocalStep, MoveStep

\* Every step of run() keeps the invariant.
LEMMA RunNext ==
    ASSUME TypeInv, SingleRunner, QueueInv, SingleRecipient, NEW w \in Worker, Run(w)
    PROVE  QueueInv'
<1>1. Frame(w)
  BY RunFrame
<1>2. QED
  BY <1>1, HeadSteps, LookSteps, DequeueSteps, FlagSteps, ExpungeSteps, MoveSteps
  DEF Run

-----------------------------------------------------------------------------
(* Submitters, the manager and the environment.                            *)

\* A step that leaves the goroutines alone, but for a new one.
LEMMA RunsKept ==
    ASSUME QueueInv, UNCHANGED <<refs, cur, snap, res>>,
           \A v \in Worker : pc'[v] = pc[v] \/ (pc[v] = "idle" /\ pc'[v] = "start"),
           queued \subseteq queued', concluded \subseteq concluded', queue \subseteq queue',
           \A v \in Worker : Holding(v) =>
             outbox'[cur[v]] = outbox[cur[v]] /\ cur[v] \notin deleted',
           \A v \in Worker : pc[v] \in {"move", "selfMove", "dropFlag"}
             => \A d \in Dest : <<d, cur[v]>> \notin queue'
    PROVE  \A v \in Worker : RunOK(v)'
<1> SUFFICES ASSUME NEW v \in Worker PROVE RunOK(v)'
  OBVIOUS
<1>1. RunOK(v)
  BY DEF QueueInv
<1>2. CASE pc'[v] = pc[v]
  BY <1>1, <1>2, OtherRun DEF Same, RunOK, RefsOK
<1>3. CASE pc[v] = "idle" /\ pc'[v] = "start"
  <2>1. refs[v] = {}
    BY <1>1, <1>3 DEF RunOK, RefsOK, Busy
  <2>2. QED
    BY <1>3, <2>1, OutsideOK
<1>4. QED
  BY <1>2, <1>3

\* MailCreate takes an id that nothing refers to.
LEMMA CreateNext ==
    ASSUME TypeInv, QueueInv, NEW m \in Msg, QueueForCreate(m)
    PROVE  QueueInv'
<1> USE DEF QueueInv
<1>1. /\ subPc[m] = "new"
      /\ UNCHANGED <<deleted, queue, sent, pc, refs, cur, snap, res, delivered,
                     partial, queued, concluded>>
  BY DEF QueueForCreate, locals, remote, history
<1>2. OutcomeOK'
  BY <1>1, OutcomeFrame
<1>3. CASE \E id \in Ids :
              /\ MailCreate(m, id)
              /\ subId' = [subId EXCEPT ![m] = id]
              /\ subNext' = [subNext EXCEPT ![m] = 1]
              /\ subPc' = [subPc EXCEPT ![m] = "insert"]
  <2>1. PICK id \in Ids :
              /\ MailCreate(m, id)
              /\ subId' = [subId EXCEPT ![m] = id]
              /\ subNext' = [subNext EXCEPT ![m] = 1]
              /\ subPc' = [subPc EXCEPT ![m] = "insert"]
    BY <1>3
  <2>2. outbox[id] = NoMsg /\ outbox' = [outbox EXCEPT ![id] = m]
    <3>1. id \in Int /\ ~(id < id)
      BY ConstantsAssumption DEF Ids
    <3>2. QED
      BY <2>1, <3>1 DEF MailCreate, IsNextId, Present
  <2>3. /\ outbox'[id] = m
        /\ \A i \in Ids : outbox[i] \in Msg => outbox'[i] = outbox[i]
    BY <2>2, ConstantsAssumption DEF TypeInv, DbType
  <2>4. RowsOK' /\ FlagsOK'
    BY <1>1, <2>3 DEF RowsOK, FlagsOK, TypeInv, DbType
  <2>5. NoMailLost'
    BY <1>1, <2>3 DEF NoMailLost, TypeInv, RemoteType
  <2>6. \A v \in Worker : RunOK(v)'
    <3>1. \A v \in Worker : Holding(v) => outbox'[cur[v]] = outbox[cur[v]] /\ cur[v] \notin deleted
      BY <2>3, HoldingBusy DEF RunOK, CurOK
    <3>2. QED
      BY <1>1, <3>1, RunsKept DEF RunOK, LastOK
  <2>7. SubmitOK'
    <3>1. id \notin deleted
      BY <2>2, ConstantsAssumption DEF FlagsOK
    <3>2. \A d \in Dest : <<m, d>> \notin queued
      BY <1>1 DEF SubmitOK
    <3>3. /\ subPc'[m] = "insert" /\ subNext'[m] = 1 /\ subId'[m] = id
          /\ \A n \in Msg : n # m => /\ subPc'[n] = subPc[n]
                                     /\ subNext'[n] = subNext[n] /\ subId'[n] = subId[n]
      BY <2>1 DEF TypeInv, SubmitType
    <3>4. \A n \in Msg : n # m /\ subPc[n] = "insert" /\ subNext[n] = 1
            => outbox'[subId[n]] = n /\ subId[n] \notin deleted
      BY <2>3 DEF SubmitOK, TypeInv, SubmitType
    <3>5. QED
      BY <1>1, <2>3, <3>1, <3>2, <3>3, <3>4 DEF SubmitOK
  <2>8. QED
    BY <1>2, <2>4, <2>5, <2>6, <2>7
<1>4. CASE subPc' = [subPc EXCEPT ![m] = "failed"] /\ UNCHANGED <<outbox, subId, subNext>>
  <2>1. RowsOK' /\ FlagsOK' /\ NoMailLost'
    BY <1>1, <1>4 DEF RowsOK, FlagsOK, NoMailLost
  <2>2. SubmitOK'
    BY <1>1, <1>4 DEF SubmitOK, TypeInv, SubmitType
  <2>3. QED
    BY <1>1, <1>2, <1>4, <2>1, <2>2, RunsKept DEF RunOK, CurOK, LastOK
<1>5. QED
  BY <1>3, <1>4 DEF QueueForCreate

\* The row a submitter inserts is for the mail it stored: nobody could have
\* moved that mail, as nobody knew its id.
LEMMA InsertNext ==
    ASSUME TypeInv, SingleRunner, QueueInv, SingleRecipient, NEW m \in Msg, QueueForInsert(m)
    PROVE  QueueInv'
<1> USE DEF QueueInv
<1>1. /\ subPc[m] = "insert" /\ subNext[m] = 1 /\ To(m) = Rcpts[m][subNext[m]]
      /\ UNCHANGED <<outbox, deleted, sent, pc, refs, cur, snap, res, subId, subNext,
                     delivered, partial, concluded>>
  <2>1. /\ subPc[m] = "insert" /\ subNext[m] \in 1..Len(Rcpts[m])
        /\ UNCHANGED <<outbox, deleted, sent, pc, refs, cur, snap, res, subId, subNext,
                       delivered, partial, concluded>>
    BY DEF QueueForInsert, locals, remote
  <2>2. Len(Rcpts[m]) = 1
    BY DEF SingleRecipient
  <2>3. subNext[m] = 1
    BY <2>1, <2>2
  <2>4. QED
    BY <2>1, <2>3 DEF To
<1>2. /\ outbox[subId[m]] = m /\ subId[m] \in Ids /\ subId[m] \notin deleted
      /\ \A d \in Dest : <<m, d>> \notin queued
  BY <1>1 DEF SubmitOK, TypeInv, SubmitType
<1>3. OutcomeOK'
  BY <1>1, OutcomeFrame
<1>4. CASE /\ To(m) \in Dest
           /\ queue' = queue \cup {<<To(m), subId[m]>>}
           /\ queued' = queued \cup {<<m, To(m)>>}
           /\ subPc' = [subPc EXCEPT ![m] = "spawn"]
  <2>1. RowsOK' /\ FlagsOK'
    BY <1>1, <1>2, <1>4 DEF RowsOK, FlagsOK
  <2>2. NoMailLost'
    <3>1. ASSUME NEW p \in queued, p \notin concluded
          PROVE  \E id \in Ids : outbox[id] = p[1] /\ <<p[2], id>> \in queue'
      BY <1>4, <3>1 DEF NoMailLost
    <3>2. outbox[subId[m]] = <<m, To(m)>>[1] /\ <<<<m, To(m)>>[2], subId[m]>> \in queue'
      BY <1>2, <1>4
    <3>3. QED
      BY <1>1, <1>2, <1>4, <3>1, <3>2 DEF NoMailLost
  <2>3. SubmitOK'
    BY <1>1, <1>2, <1>4 DEF SubmitOK, TypeInv, SubmitType
  <2>4. \A v \in Worker : RunOK(v)'
    <3>1. \A v \in Worker : pc[v] \in {"move", "selfMove", "dropFlag"} =>
             Holding(v) /\ \A d \in Dest : <<d, cur[v]>> \notin queue
      BY DEF Holding, Busy, Pc, RunOK, LastOK
    <3>2. \A v \in Worker : pc[v] \in {"move", "selfMove", "dropFlag"} =>
             \A d \in Dest : <<d, cur[v]>> \notin queue'
      BY <1>1, <1>4, <3>1, NotSubmitted
    <3>3. QED
      BY <1>1, <1>4, <3>2, RunsKept DEF RunOK, CurOK
  <2>5. QED
    BY <1>3, <2>1, <2>2, <2>3, <2>4
<1>5. CASE subPc' = [subPc EXCEPT ![m] = "failed"] /\ UNCHANGED <<queue, queued>>
  <2>1. RowsOK' /\ FlagsOK' /\ NoMailLost'
    BY <1>1, <1>5 DEF RowsOK, FlagsOK, NoMailLost
  <2>2. SubmitOK'
    BY <1>1, <1>5 DEF SubmitOK, TypeInv, SubmitType
  <2>3. QED
    BY <1>1, <1>3, <1>5, <2>1, <2>2, RunsKept DEF RunOK, CurOK, LastOK
<1>6. QED
  BY <1>1, <1>4, <1>5 DEF QueueForInsert

\* The other steps of a submitter leave the tables alone.
LEMMA SubmitNext ==
    ASSUME TypeInv, QueueInv, NEW m \in Msg,
           QueueForBadAddress(m) \/ QueueForSpawn(m) \/ QueueForReturn(m)
    PROVE  QueueInv'
<1> USE DEF QueueInv
<1>1. UNCHANGED <<outbox, deleted, queue, sent, refs, cur, snap, res, delivered,
                  partial, queued, concluded, subId>>
  BY DEF QueueForBadAddress, QueueForSpawn, QueueForReturn, db, locals, remote, history
<1>2. RowsOK' /\ FlagsOK' /\ NoMailLost' /\ OutcomeOK'
  BY <1>1 DEF RowsOK, FlagsOK, NoMailLost, OutcomeOK
<1>3. SubmitOK'
  BY <1>1 DEF QueueForBadAddress, QueueForSpawn, QueueForReturn, SubmitOK,
     TypeInv, SubmitType
<1>4. \A v \in Worker : pc'[v] = pc[v] \/ (pc[v] = "idle" /\ pc'[v] = "start")
  BY DEF QueueForBadAddress, QueueForSpawn, QueueForReturn, queueFor, TypeInv, RunType
<1>5. QED
  BY <1>1, <1>2, <1>3, <1>4, RunsKept DEF RunOK, CurOK, LastOK

\* So do the manager, the reset of the counters and the passing of time.
LEMMA ManagerNext ==
    ASSUME TypeInv, QueueInv, Manager \/ ResetRetryCounters \/ Expire
    PROVE  QueueInv'
<1> USE DEF QueueInv, Manager
<1>1. UNCHANGED <<outbox, deleted, queue, sent, refs, cur, snap, res, delivered,
                  partial, queued, concluded, subPc, subId, subNext>>
  BY DEF ManagerList, ManagerSpawn, ManagerReschedule, ResetRetryCounters,
     Expire, db, locals, submit, remote, history, outer
<1>2. RowsOK' /\ FlagsOK' /\ NoMailLost' /\ OutcomeOK' /\ SubmitOK'
  BY <1>1 DEF RowsOK, FlagsOK, NoMailLost, OutcomeOK, SubmitOK
<1>3. \A v \in Worker : pc'[v] = pc[v] \/ (pc[v] = "idle" /\ pc'[v] = "start")
  BY DEF ManagerList, ManagerSpawn, ManagerReschedule, ResetRetryCounters,
     Expire, queueFor, TypeInv, RunType
<1>4. QED
  BY <1>1, <1>2, <1>3, RunsKept DEF RunOK, CurOK, LastOK

\* After a crash the tables alone are enough.
LEMMA CrashNext ==
    ASSUME TypeInv, QueueInv, Crash
    PROVE  QueueInv'
<1> USE DEF QueueInv
<1>1. UNCHANGED <<outbox, deleted, queue, subId, subNext, delivered, partial,
                  queued, concluded>>
  BY DEF Crash, remote
<1>2. RowsOK' /\ FlagsOK' /\ NoMailLost'
  BY <1>1 DEF RowsOK, FlagsOK, NoMailLost
<1>3. SubmitOK'
  BY <1>1 DEF Crash, SubmitOK, TypeInv, SubmitType
<1>4. \A v \in Worker : RunOK(v)'
  BY OutsideOK DEF Crash
<1>5. OutcomeOK'
  <2>1. CASE UNCHANGED sent
    BY <1>1, <2>1, OutcomeFrame
  <2>2. ASSUME NEW w \in Worker, pc[w] \in {"move", "selfMove"},
               sent' = sent \cup {outbox[cur[w]]}
        PROVE  OutcomeOK'
    <3>1. /\ outbox[cur[w]] = snap[w] /\ To(snap[w]) = w[1]
          /\ <<snap[w], w[1]>> \in concluded
      BY <2>2 DEF RunOK, CurOK, SnapOK, Holding, SettledOK, Leaving, Busy, Pc
    <3>2. QED
      BY <1>1, <2>2, <3>1 DEF OutcomeOK
  <2>3. QED
    BY <2>1, <2>2 DEF Crash
<1>6. QED
  BY <1>2, <1>3, <1>4, <1>5

-----------------------------------------------------------------------------
\* The invariant holds initially.
LEMMA QueueInit == Init => QueueInv
<1> SUFFICES ASSUME Init PROVE QueueInv
  OBVIOUS
<1>1. RowsOK /\ FlagsOK /\ NoMailLost
  BY DEF Init, RowsOK, FlagsOK, NoMailLost
<1>2. SubmitOK /\ OutcomeOK
  BY DEF Init, SubmitOK, OutcomeOK
<1>3. \A w \in Worker : RunOK(w)
  BY DEF Init, RunOK, ResOK, RefsOK, SnapOK, CurOK, Holding, SettledOK, LastOK,
     Busy, Pc, Leaving
<1>4. QED
  BY <1>1, <1>2, <1>3 DEF QueueInv

\* It is inductive, relative to the types and to SingleRunner.
LEMMA QueueNext ==
    ASSUME SingleRecipient, "user" \notin Events,
           TypeInv, SingleRunner, QueueInv, [Next]_vars
    PROVE  QueueInv'
<1>1. CASE UNCHANGED vars
  <2>1. UNCHANGED <<outbox, deleted, queue, sent, pc, refs, cur, snap, res, delivered,
                    partial, queued, concluded, subPc, subId, subNext>>
    BY <1>1 DEF vars, db, locals, submit, remote, history
  <2>2. RowsOK' /\ FlagsOK' /\ NoMailLost' /\ OutcomeOK' /\ SubmitOK'
    BY <2>1 DEF QueueInv, RowsOK, FlagsOK, NoMailLost, OutcomeOK, SubmitOK
  <2>3. QED
    BY <2>1, <2>2, RunsKept DEF QueueInv, RunOK, CurOK, LastOK
<1>2. CASE Next
  BY <1>2, RunNext, CreateNext, InsertNext, SubmitNext, ManagerNext, CrashNext
  DEF Next, Submit, Environment, UserDelete, UserExpunge
<1>3. QED
  BY <1>1, <1>2

\* The inductive invariant of the queue, for single-recipient mails and an
\* Outbox no mail client deletes from.
THEOREM QueueInvariant ==
    ASSUME SingleRecipient, "user" \notin Events
    PROVE  Spec => []QueueInv
  BY QueueInit, QueueNext, RunnerInvariant, PTL DEF Spec

\* Under these conditions a recipient queued by QueueFor keeps its row, on the
\* mail it was queued for, until run() has settled it: whatever storage call
\* fails, wherever the process is killed and although ids are reused.
THEOREM NothingLost ==
    ASSUME SingleRecipient, "user" \notin Events
    PROVE  Spec => []NoMailLost
<1>1. QueueInv => NoMailLost
  BY DEF QueueInv
<1>2. QED
  BY <1>1, QueueInvariant, PTL

\* Under these conditions what run() delivers, completely or cut off, goes to a
\* node the mail is addressed to: the id in hand still denotes that mail.
THEOREM OnlyToRecipients ==
    ASSUME SingleRecipient, "user" \notin Events
    PROVE  Spec => []RightRecipient
<1>1. QueueInv => RightRecipient
  <2> SUFFICES ASSUME QueueInv, NEW m \in Msg, NEW d \in Dest,
                      delivered[<<m, d>>] > 0 \/ <<m, d>> \in partial
               PROVE  \E k \in 1..Len(Rcpts[m]) : Rcpts[m][k] = d
    BY DEF RightRecipient
  <2>1. d = Rcpts[m][1]
    BY DEF QueueInv, OutcomeOK, To
  <2>2. 1 \in 1..Len(Rcpts[m])
    BY DEF SingleRecipient
  <2>3. QED
    BY <2>1, <2>2
<1>2. QED
  BY <1>1, QueueInvariant, PTL

=============================================================================
