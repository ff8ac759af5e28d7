----------------------- MODULE SmtpSenderCopiesProofs -----------------------
(***************************************************************************)
(* Nobody gets a mail twice, under the conditions of SmtpSenderQueueProofs *)
(* and when no storage call fails and the process is not killed: a row     *)
(* that cannot be deleted, or that a crash leaves, is served once more.    *)
(***************************************************************************)
EXTENDS SmtpSenderRefinementProofs

\* What may happen to the rows on a step of a run: they only become fewer.
Shrinks ==
    /\ queue' \subseteq queue
    /\ \A i \in Ids : outbox'[i] \in {outbox[i], NoMsg}

\* A first copy is one copy, and nobody else gets one.
LEMMA FirstCopy ==
    ASSUME TypeInv, NEW m \in Msg, NEW d \in Dest, Copy(m, d), delivered[<<m, d>>] = 0
    PROVE  /\ delivered'[<<m, d>>] = 1
           /\ \A p \in Msg \X Dest : p # <<m, d>> => delivered'[p] = delivered[p]
  BY ConstantsAssumption DEF Copy, TypeInv, RemoteType

\* A step of run() that delivers nothing keeps the invariant if its own
\* goroutine does, and if it deletes the row it was about to delete.
LEMMA QuietStep ==
    ASSUME TypeInv, CopiesInv, NEW w \in Worker, Frame(w), Shrinks,
           UNCHANGED delivered,
           pc[w] = "selfDequeue" => <<w[1], cur[w]>> \notin queue',
           FreshOK(w)', GoneOK(w)'
    PROVE  CopiesInv'
<1> USE DEF CopiesInv, Frame, Shrinks
<1>1. NoDuplicateCopy' /\ KnownOK'
  BY DEF NoDuplicateCopy, KnownOK
<1>2. ServedOK'
  <2> SUFFICES ASSUME NEW m \in Msg, NEW d \in Dest, NEW id \in Ids,
                      delivered[<<m, d>>] > 0, outbox'[id] = m, <<d, id>> \in queue'
               PROVE  \E v \in Worker : v[1] = d /\ pc'[v] = "selfDequeue" /\ cur'[v] = id
    BY DEF ServedOK
  <2>1. outbox[id] = m /\ <<d, id>> \in queue
    BY ConstantsAssumption
  <2>2. PICK v \in Worker : v[1] = d /\ pc[v] = "selfDequeue" /\ cur[v] = id
    BY <2>1 DEF ServedOK
  <2>3. v # w
    BY <2>2
  <2>4. QED
    BY <2>2, <2>3 DEF Same
<1>3. ASSUME NEW v \in Worker, v # w PROVE FreshOK(v)' /\ GoneOK(v)'
  <2>1. Same(v) /\ FreshOK(v) /\ GoneOK(v)
    BY <1>3
  <2>2. FreshOK(v)'
    BY <2>1 DEF Same, FreshOK
  <2>3. pc[v] \in {"pending", "move", "close"} => snap[v] \in Msg
    BY DEF TypeInv, RunType, Busy, Pc
  <2>4. GoneOK(v)'
    BY <2>1, <2>3, ConstantsAssumption DEF Same, GoneOK
  <2>5. QED
    BY <2>2, <2>4
<1>4. QED
  BY <1>1, <1>2, <1>3

\* A run that hands over the mail in hand keeps it when no row of the mail is
\* left, or when this run is about to delete it.
LEMMA CopyStep ==
    ASSUME TypeInv, SingleRunner, QueueInv, StoredOnce, CopiesInv,
           NEW w \in Worker, Frame(w), UNCHANGED <<queue, outbox>>,
           pc[w] \in {"self", "close"}, Copy(snap[w], w[1]),
           pc[w] = "self" => pc'[w] = "selfDequeue" /\ cur'[w] = cur[w],
           pc[w] = "close" => pc'[w] = "classify"
    PROVE  CopiesInv'
<1> USE DEF CopiesInv, Frame
<1> DEFINE p == <<snap[w], w[1]>>
<1>1. pc[w] \in Busy /\ pc[w] # "idle" /\ snap[w] \in Msg /\ w[1] \in Dest
  BY WorkerDest DEF TypeInv, RunType, Busy, Pc
<1>2. delivered[p] = 0 /\ p \in queued
  BY <1>1 DEF FreshOK, Serving, QueueInv, RunOK, SnapOK
<1>3. /\ delivered'[p] = 1
      /\ \A q \in Msg \X Dest : q # p => delivered'[q] = delivered[q]
  BY <1>1, <1>2, FirstCopy
<1>4. NoDuplicateCopy' /\ KnownOK'
  BY <1>2, <1>3 DEF NoDuplicateCopy, KnownOK
<1>5. ServedOK'
  <2> SUFFICES ASSUME NEW m \in Msg, NEW d \in Dest, NEW id \in Ids,
                      delivered'[<<m, d>>] > 0, outbox[id] = m, <<d, id>> \in queue
               PROVE  \E v \in Worker : v[1] = d /\ pc'[v] = "selfDequeue" /\ cur'[v] = id
    BY DEF ServedOK
  <2>1. CASE <<m, d>> = p
    <3>1. m = snap[w] /\ d = w[1]
      BY <2>1
    <3>2. pc[w] = "self"
      BY <3>1 DEF GoneOK
    <3>3. outbox[cur[w]] = snap[w] /\ cur[w] \in Ids
      BY <3>2, HoldingBusy DEF QueueInv, RunOK, CurOK, Holding, Busy, Pc
    <3>4. id = cur[w]
      BY <1>1, <3>1, <3>3 DEF StoredOnce
    <3>5. QED
      BY <3>1, <3>2, <3>4
  <2>2. CASE <<m, d>> # p
    <3>1. delivered[<<m, d>>] > 0
      BY <1>3, <2>2
    <3>2. PICK v \in Worker : v[1] = d /\ pc[v] = "selfDequeue" /\ cur[v] = id
      BY <3>1 DEF ServedOK
    <3>3. v # w
      BY <3>2
    <3>4. QED
      BY <3>2, <3>3 DEF Same
  <2>3. QED
    BY <2>1, <2>2
<1>6. ASSUME NEW v \in Worker, v # w PROVE FreshOK(v)' /\ GoneOK(v)'
  <2>1. Same(v) /\ FreshOK(v) /\ GoneOK(v)
    BY <1>6
  <2>2. ASSUME pc[v] \in Serving PROVE delivered'[<<snap[v], v[1]>>] = 0
    <3>1. snap[v] \in Msg /\ v[1] \in Dest /\ pc[v] # "idle"
      BY <2>2, WorkerDest DEF TypeInv, RunType, Busy, Pc, Serving
    <3>2. v[1] # w[1]
      BY <1>1, <1>6, <3>1, SameDest
    <3>3. <<snap[v], v[1]>> # p
      BY <3>2
    <3>4. QED
      BY <1>3, <2>1, <2>2, <3>1, <3>3 DEF FreshOK
  <2>3. FreshOK(v)'
    BY <2>1, <2>2 DEF Same, FreshOK
  <2>4. GoneOK(v)'
    BY <2>1 DEF Same, GoneOK
  <2>5. QED
    BY <2>3, <2>4
<1>7. FreshOK(w)' /\ GoneOK(w)'
  BY DEF FreshOK, GoneOK, Serving
<1>8. QED
  BY <1>4, <1>5, <1>6, <1>7

-----------------------------------------------------------------------------
(* The steps of run().                                                     *)

\* The rows become fewer on every step of run().
LEMMA RunShrinks == ASSUME NEW w \in Worker, Run(w) PROVE Shrinks
<1>1. queue' \subseteq queue
  BY DEF Run, RunStart, RunWake, RunFetch, RunSkip, RunSelect, RunDone,
     DropDequeue, DropPending, DropFlag, DropExpunge, SelfDeliver, SelfDequeue,
     SelfPending, SelfMove, RemoteDial, RemoteData, RemoteAbort, RemoteDequeue,
     RemotePending, RemoteMove, RemoteClose, RemoteClassify, RunExpunge,
     RunStop, MailExpunge, MailMove, HalfMove, RemoveMails,
     QueueDeleteDestinationForID, db
<1>2. UNCHANGED outbox \/ \E I : RemoveMails(I)
  BY DEF Run, RunStart, RunWake, RunFetch, RunSkip, RunSelect, RunDone,
     DropDequeue, DropPending, DropFlag, DropExpunge, SelfDeliver, SelfDequeue,
     SelfPending, SelfMove, RemoteDial, RemoteData, RemoteAbort, RemoteDequeue,
     RemotePending, RemoteMove, RemoteClose, RemoteClassify, RunExpunge,
     RunStop, MailExpunge, MailMove, HalfMove, db
<1>3. QED
  BY <1>1, <1>2 DEF RemoveMails, Shrinks

\* Steps that begin nothing and do not come near the remote node.
LEMMA AwaySteps ==
    ASSUME TypeInv, CopiesInv, NEW w \in Worker, Frame(w), Shrinks,
           \/ RunStart(w) \/ RunWake(w) \/ RunFetch(w) \/ RunSkip(w)
           \/ RunDone(w) \/ RunStop(w) \/ RunExpunge(w) \/ DropDequeue(w)
           \/ DropPending(w) \/ DropFlag(w) \/ DropExpunge(w)
           \/ SelfPending(w) \/ SelfMove(w) \/ RemoteClassify(w)
    PROVE  CopiesInv'
<1>1. UNCHANGED delivered /\ pc[w] # "selfDequeue"
  BY DEF RunStart, RunWake, RunFetch, RunSkip, RunDone, RunStop, RunExpunge,
     DropDequeue, DropPending, DropFlag, DropExpunge, SelfPending, SelfMove,
     RemoteClassify, remote
<1>2. \/ UNCHANGED pc /\ pc[w] = "loop"
      \/ \E l \in Pc \ Serving : Goto(w, l)
  BY Labels DEF RunStart, RunWake, RunFetch, RunSkip, RunDone, RunStop, RunExpunge,
     DropDequeue, DropPending, DropFlag, DropExpunge, SelfPending, SelfMove,
     RemoteClassify, AfterDrop, NextRef, Serving
<1>3. pc'[w] \notin Serving
  BY <1>2 DEF Goto, TypeInv, RunType, Serving
<1>4. FreshOK(w)' /\ GoneOK(w)'
  BY <1>3 DEF FreshOK, GoneOK, Serving
<1>5. QED
  BY <1>1, <1>4, QuietStep

\* A mail that is queued for the destination was not delivered to it: the only
\* run that could be about to delete its row is this one.
LEMMA SelectSteps ==
    ASSUME TypeInv, SingleRunner, QueueInv, CopiesInv, NEW w \in Worker,
           Frame(w), Shrinks, RunSelect(w)
    PROVE  CopiesInv'
<1>1. PICK id \in Ids : RunSelect(w)!2!(id)
  BY DEF RunSelect
<1>2. UNCHANGED <<outbox, queue, delivered>> /\ pc[w] = "loop"
  BY DEF RunSelect, db, remote
<1>3. <<w[1], id>> \in queue /\ w[1] \in Dest
  BY <1>1, WorkerDest DEF IsNextRef, QueueInv, RunOK, RefsOK
<1>4. outbox[id] \in Msg
  BY <1>3 DEF QueueInv, RowsOK
<1>5. delivered[<<outbox[id], w[1]>>] = 0
  <2>1. delivered[<<outbox[id], w[1]>>] \in Nat
    BY <1>3, <1>4 DEF TypeInv, RemoteType
  <2>2. ASSUME delivered[<<outbox[id], w[1]>>] > 0 PROVE FALSE
    <3>1. PICK v \in Worker : v[1] = w[1] /\ pc[v] = "selfDequeue" /\ cur[v] = id
      BY <1>3, <1>4, <2>2 DEF CopiesInv, ServedOK
    <3>2. v = w
      BY <1>2, <3>1, SameDest
    <3>3. QED
      BY <1>2, <3>1, <3>2
  <2>3. QED
    BY <2>1, <2>2
<1>6. snap'[w] = outbox[id] /\ pc'[w] \in {"drop", "self", "dial"}
  BY <1>1 DEF Goto, TypeInv, RunType
<1>7. FreshOK(w)' /\ GoneOK(w)'
  BY <1>2, <1>5, <1>6 DEF FreshOK, GoneOK
<1>8. QED
  BY <1>2, <1>7, QuietStep

\* The mail goes to this node, or the final "." to another one.
LEMMA DeliverSteps ==
    ASSUME "storage" \notin Events, TypeInv, SingleRunner, QueueInv, StoredOnce,
           CopiesInv, NEW w \in Worker, Frame(w), Shrinks,
           SelfDeliver(w) \/ RemoteClose(w)
    PROVE  CopiesInv'
<1>1. UNCHANGED <<queue, outbox>>
  BY DEF SelfDeliver, RemoteClose, db
<1>2. CASE SelfDeliver(w)
  <2>1. /\ pc[w] = "self" /\ Copy(snap[w], w[1]) /\ Goto(w, "selfDequeue")
        /\ UNCHANGED cur
    BY <1>2 DEF SelfDeliver, StorageFault
  <2>2. pc'[w] = "selfDequeue"
    BY <2>1 DEF Goto, TypeInv, RunType
  <2>3. QED
    BY <1>1, <2>1, <2>2, CopyStep
<1>3. CASE RemoteClose(w)
  <2>1. pc[w] = "close" /\ pc'[w] = "classify"
    BY <1>3 DEF RemoteClose, Goto, TypeInv, RunType
  <2>2. CASE Copy(snap[w], w[1])
    BY <1>1, <2>1, <2>2, CopyStep
  <2>3. CASE UNCHANGED delivered
    <3>1. FreshOK(w)' /\ GoneOK(w)'
      BY <2>1 DEF FreshOK, GoneOK, Serving
    <3>2. QED
      BY <2>1, <2>3, <3>1, QuietStep
  <2>4. QED
    BY <1>3, <2>2, <2>3 DEF RemoteClose
<1>4. QED
  BY <1>2, <1>3

\* The exchange with a remote node before the final "."; the row is deleted
\* on the way, and it was the only one of the mail.
LEMMA ExchangeSteps ==
    ASSUME "storage" \notin Events, TypeInv, QueueInv, StoredOnce, CopiesInv,
           NEW w \in Worker, Frame(w), Shrinks,
           \/ RemoteDial(w) \/ RemoteData(w) \/ RemoteAbort(w) \/ RemoteDequeue(w)
           \/ RemotePending(w) \/ RemoteMove(w)
    PROVE  CopiesInv'
<1>1. /\ pc[w] \in {"dial", "data", "abort", "dequeue", "pending", "move"}
      /\ UNCHANGED <<delivered, snap>>
  BY DEF RemoteDial, RemoteData, RemoteAbort, RemoteDequeue, RemotePending,
     RemoteMove, remote, locals
<1>2. FreshOK(w)'
  BY <1>1 DEF CopiesInv, FreshOK, Serving
<1>3. pc[w] \in Busy /\ snap[w] \in Msg /\ cur[w] \in Ids
  BY <1>1 DEF TypeInv, RunType, Busy, Pc
<1>4. GoneOK(w)'
  <2>1. CASE pc[w] \in {"dial", "data", "abort"}
    <3>1. \E l \in {"data", "classify", "dequeue", "abort"} : Goto(w, l)
      BY <2>1 DEF RemoteDial, RemoteData, RemoteAbort, RemoteDequeue,
         RemotePending, RemoteMove
    <3>2. QED
      BY <3>1 DEF Goto, GoneOK, TypeInv, RunType
  <2>2. CASE pc[w] = "dequeue"
    <3>1. <<w[1], cur[w]>> \notin queue' /\ UNCHANGED outbox
      BY <2>2 DEF RemoteDial, RemoteData, RemoteAbort, RemoteDequeue,
         RemotePending, RemoteMove, StorageFault, QueueDeleteDestinationForID
    <3>2. outbox[cur[w]] = snap[w]
      BY <2>2 DEF QueueInv, RunOK, CurOK, Holding, Busy, Pc
    <3>3. \A id \in Ids : outbox[id] = snap[w] => id = cur[w]
      BY <1>3, <3>2 DEF StoredOnce
    <3>4. QED
      BY <1>1, <3>1, <3>3 DEF GoneOK
  <2>3. CASE pc[w] \in {"pending", "move"}
    BY <1>1, <1>3, <2>3, ConstantsAssumption DEF CopiesInv, GoneOK, Shrinks
  <2>4. QED
    BY <1>1, <2>1, <2>2, <2>3
<1>5. QED
  BY <1>1, <1>2, <1>4, QuietStep

\* The row of a loopback mail is deleted once the mail is delivered.
LEMMA SelfDequeueStep ==
    ASSUME "storage" \notin Events, TypeInv, CopiesInv, NEW w \in Worker,
           Frame(w), Shrinks, SelfDequeue(w)
    PROVE  CopiesInv'
<1>1. UNCHANGED delivered /\ <<w[1], cur[w]>> \notin queue'
  BY DEF SelfDequeue, remote, StorageFault, QueueDeleteDestinationForID
<1>2. pc'[w] = "selfPending"
  BY DEF SelfDequeue, Goto, TypeInv, RunType
<1>3. FreshOK(w)' /\ GoneOK(w)'
  BY <1>2 DEF FreshOK, GoneOK, Serving
<1>4. QED
  BY <1>1, <1>3, QuietStep

LEMMA CopiesRun ==
    ASSUME "storage" \notin Events, TypeInv, SingleRunner, QueueInv, StoredOnce,
           CopiesInv, NEW w \in Worker, Run(w)
    PROVE  CopiesInv'
<1>1. Frame(w) /\ Shrinks
  BY RunFrame, RunShrinks
<1>2. QED
  BY <1>1, AwaySteps, SelectSteps, DeliverSteps, ExchangeSteps, SelfDequeueStep
  DEF Run

-----------------------------------------------------------------------------
(* Submitters, the manager and the environment.                            *)

\* Steps of the others move no goroutine but a new one, and deliver nothing.
Others ==
    /\ UNCHANGED <<cur, snap, delivered>>
    /\ \A v \in Worker : pc'[v] = pc[v] \/ (pc[v] = "idle" /\ pc'[v] = "start")
    /\ queued \subseteq queued'

\* They keep the invariant when every row they leave is an old row of the same
\* mail, or a row of a mail that nobody knew.
LEMMA OthersStep ==
    ASSUME TypeInv, QueueInv, CopiesInv, Others,
           \A id \in Ids, d \in Dest : <<d, id>> \in queue' =>
             \/ <<d, id>> \in queue /\ outbox'[id] = outbox[id]
             \/ outbox'[id] \in Msg /\ <<outbox'[id], d>> \notin queued
    PROVE  CopiesInv'
<1> USE DEF CopiesInv, Others
<1>1. NoDuplicateCopy' /\ KnownOK'
  BY DEF NoDuplicateCopy, KnownOK
<1>2. ServedOK'
  <2> SUFFICES ASSUME NEW m \in Msg, NEW d \in Dest, NEW id \in Ids,
                      delivered[<<m, d>>] > 0, outbox'[id] = m, <<d, id>> \in queue'
               PROVE  \E v \in Worker : v[1] = d /\ pc'[v] = "selfDequeue" /\ cur'[v] = id
    BY DEF ServedOK
  <2>1. <<m, d>> \in queued
    BY DEF KnownOK
  <2>2. <<d, id>> \in queue /\ outbox[id] = m
    BY <2>1
  <2>3. PICK v \in Worker : v[1] = d /\ pc[v] = "selfDequeue" /\ cur[v] = id
    BY <2>2 DEF ServedOK
  <2>4. QED
    BY <2>3
<1>3. ASSUME NEW v \in Worker PROVE FreshOK(v)' /\ GoneOK(v)'
  <2>1. FreshOK(v)'
    BY DEF FreshOK, Serving
  <2>2. ASSUME pc'[v] \in {"pending", "move", "close"},
               NEW id \in Ids, outbox'[id] = snap[v], <<v[1], id>> \in queue'
        PROVE  FALSE
    <3>1. pc[v] \in {"pending", "move", "close"} /\ v[1] \in Dest
      BY <2>2, WorkerDest
    <3>2. <<snap[v], v[1]>> \in queued
      BY <3>1 DEF QueueInv, RunOK, SnapOK, Busy, Pc
    <3>3. <<v[1], id>> \in queue /\ outbox[id] = snap[v]
      BY <2>2, <3>1, <3>2
    <3>4. QED
      BY <3>1, <3>3 DEF GoneOK
  <2>3. GoneOK(v)'
    BY <2>2 DEF GoneOK
  <2>4. QED
    BY <2>1, <2>3
<1>4. QED
  BY <1>1, <1>2, <1>3

\* A stored mail gets an id that has no rows.
LEMMA CopiesCreate ==
    ASSUME TypeInv, QueueInv, CopiesInv, NEW m \in Msg, QueueForCreate(m)
    PROVE  CopiesInv'
<1>1. UNCHANGED queue /\ Others
  BY DEF QueueForCreate, Others, locals, remote, history
<1>2. \A id \in Ids, d \in Dest : <<d, id>> \in queue => outbox'[id] = outbox[id]
  <2>1. CASE UNCHANGED outbox
    BY <2>1
  <2>2. ASSUME NEW new \in Ids, MailCreate(m, new)
        PROVE  \A id \in Ids, d \in Dest : <<d, id>> \in queue => outbox'[id] = outbox[id]
    <3>1. \A i \in Ids : Present(i) => i # new
      BY <2>2 DEF MailCreate, IsNextId, Ids
    <3>2. \A i \in Ids, d \in Dest : <<d, i>> \in queue => i # new
      BY <3>1, ConstantsAssumption DEF QueueInv, RowsOK, Present
    <3>3. QED
      BY <2>2, <3>2 DEF MailCreate, TypeInv, DbType
  <2>3. QED
    BY <2>1, <2>2 DEF QueueForCreate
<1>3. QED
  BY <1>1, <1>2, OthersStep

\* The row a submitter inserts is the first one of its mail.
LEMMA CopiesInsert ==
    ASSUME TypeInv, QueueInv, SingleRecipient, CopiesInv, NEW m \in Msg, QueueForInsert(m)
    PROVE  CopiesInv'
<1>1. UNCHANGED outbox /\ Others
  BY DEF QueueForInsert, Others, locals, remote
<1>2. subPc[m] = "insert" /\ subNext[m] = 1
  BY DEF QueueForInsert, SingleRecipient, TypeInv, SubmitType
<1>3. outbox[subId[m]] = m /\ \A d \in Dest : <<m, d>> \notin queued
  BY <1>2 DEF QueueInv, SubmitOK
<1>4. queue' = queue \/ \E d \in Dest : queue' = queue \cup {<<d, subId[m]>>}
  BY DEF QueueForInsert
<1>5. \A id \in Ids, d \in Dest : <<d, id>> \in queue' =>
        \/ <<d, id>> \in queue
        \/ outbox'[id] \in Msg /\ <<outbox'[id], d>> \notin queued
  BY <1>1, <1>3, <1>4
<1>6. QED
  BY <1>1, <1>5, OthersStep

\* Everything else leaves the rows and what was delivered alone.
LEMMA CopiesOther ==
    ASSUME TypeInv, QueueInv, CopiesInv,
           \/ \E m \in Msg : QueueForBadAddress(m) \/ QueueForSpawn(m) \/ QueueForReturn(m)
           \/ Manager \/ ResetRetryCounters \/ Expire \/ UNCHANGED vars
    PROVE  CopiesInv'
<1>1. UNCHANGED <<outbox, queue, cur, snap, delivered, queued>>
  BY DEF QueueForBadAddress, QueueForSpawn, QueueForReturn, Manager, ManagerList,
     ManagerSpawn, ManagerReschedule, ResetRetryCounters, Expire, vars, db,
     locals, remote, history
<1>2. \A v \in Worker : pc'[v] = pc[v] \/ (pc[v] = "idle" /\ pc'[v] = "start")
  BY DEF QueueForBadAddress, QueueForSpawn, QueueForReturn, Manager, ManagerList,
     ManagerSpawn, ManagerReschedule, ResetRetryCounters, Expire, vars, queueFor,
     TypeInv, RunType
<1>3. QED
  BY <1>1, <1>2, OthersStep DEF Others

-----------------------------------------------------------------------------
\* At the start nothing was delivered.
LEMMA CopiesInit == Init => CopiesInv
  BY DEF Init, CopiesInv, NoDuplicateCopy, KnownOK, ServedOK, FreshOK, GoneOK, Serving

LEMMA CopiesNext ==
    ASSUME SingleRecipient, Events \cap {"storage", "crash", "user"} = {},
           TypeInv, SingleRunner, QueueInv, StoredOnce, CopiesInv, [Next]_vars
    PROVE  CopiesInv'
  BY CopiesRun, CopiesCreate, CopiesInsert, CopiesOther
  DEF Next, Submit, Environment, UserDelete, UserExpunge, Crash

\* When no storage call fails and the process lives, sender.go hands no mail
\* with one recipient over twice: whatever is cut off, expires or is reset, and
\* however runs, submitters and the manager's timer interleave.
THEOREM NobodyGetsTwo ==
    ASSUME SingleRecipient, Events \cap {"storage", "crash", "user"} = {}
    PROVE  Spec => []NoDuplicateCopy
<1>1. "user" \notin Events
  OBVIOUS
<1>2. Init => RefInv /\ CopiesInv
  BY InitRefines, CopiesInit
<1>3. TypeInv /\ SingleRunner /\ QueueInv /\ RefInv /\ CopiesInv /\ [Next]_vars
        => RefInv' /\ CopiesInv'
  BY <1>1, RefNext, CopiesNext DEF RefInv
<1>4. CopiesInv => NoDuplicateCopy
  BY DEF CopiesInv
<1>5. QED
  BY <1>1, <1>2, <1>3, <1>4, QueueInvariant, RunnerInvariant, PTL DEF Spec

=============================================================================
