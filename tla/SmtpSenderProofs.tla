-------------------------- MODULE SmtpSenderProofs --------------------------
(***************************************************************************)
(* Theorems about SmtpSender, for every set of destinations, mails and     *)
(* goroutine slots, every recipient list and every set of events: types,   *)
(* and that no destination ever has two goroutines.                        *)
(***************************************************************************)
EXTENDS SmtpSenderInv, TLAPS

\* The labels of run(), inside and outside its loop body.
LEMMA Labels ==
    /\ \A l \in {"idle", "start", "sleep", "fetch", "loop", "expunge", "stop"} :
         l \in Pc /\ l \notin Busy
    /\ \A l \in {"drop", "dropPending", "dropFlag", "dropExpunge", "self",
                 "selfDequeue", "selfPending", "selfMove", "dial", "data",
                 "abort", "dequeue", "pending", "move", "close", "classify"} :
         l \in Pc /\ l \in Busy
  BY DEF Pc, Busy

\* The reasons for which a mail leaves the loop body.
LEMMA Results == Res = {"none", "ok", "net", "temp", "perm", "old", "user"}
  BY DEF Res

\* A goroutine is a destination and a slot.
LEMMA WorkerDest == \A w \in Worker : w[1] \in Dest /\ w[2] \in Gen /\ w = <<w[1], w[2]>>
  BY DEF Worker

\* The saturation bound is positive.
LEMMA Bounds == MaxCopies \in Nat /\ MaxCopies > 0
  BY ConstantsAssumption

\* A retry is due, or it is not.
LEMMA CounterTypes ==
    ASSUME MemType, NEW d \in Dest
    PROVE  /\ Increment(d) => retrying' \in [Dest -> BOOLEAN]
           /\ ClearRetry(d) => retrying' \in [Dest -> BOOLEAN]
  BY DEF MemType, Increment, ClearRetry

\* The copies counted stay within their bound.
LEMMA CopyType ==
    ASSUME RemoteType, NEW m \in Msg, NEW d \in Dest, Copy(m, d)
    PROVE  delivered' \in [Msg \X Dest -> 0..MaxCopies]
  BY ConstantsAssumption DEF RemoteType, Copy

\* Moving a run to a label outside the loop body keeps RunType.
LEMMA GotoIdleType ==
    ASSUME RunType, NEW w \in Worker, NEW l \in Pc \ Busy, Goto(w, l),
           refs' \in [Worker -> SUBSET Ids], UNCHANGED <<cur, snap, res>>
    PROVE  RunType'
  BY DEF RunType, Goto

\* So does the end of the loop body.
LEMMA NextType ==
    ASSUME RunType, NEW w \in Worker, NEW l \in Pc \ Busy, Goto(w, l), ClearLocals(w), 
           refs' \in [Worker -> SUBSET Ids]
    PROVE  RunType'
  BY ConstantsAssumption, Results DEF RunType, Goto, ClearLocals

\* So does a step inside the loop body.
LEMMA GotoBusyType ==
    ASSUME RunType, NEW w \in Worker, pc[w] \in Busy, NEW l \in Pc, Goto(w, l),
           NEW r \in Res, res' \in {res, [res EXCEPT ![w] = r]}, UNCHANGED <<refs, cur, snap>>
    PROVE  RunType'
  BY DEF RunType, Goto
\* So does MailSelect, which fills the locals.
LEMMA SelectType ==
    ASSUME RunType, NEW w \in Worker, NEW l \in Pc, Goto(w, l), NEW id \in Ids, NEW m \in Msg,
           NEW r \in Res, res' \in {res, [res EXCEPT ![w] = r]}, 
           refs' = [refs EXCEPT ![w] = @ \ {id}],
           cur' = [cur EXCEPT ![w] = id],
           snap' = [snap EXCEPT ![w] = m]
    PROVE  RunType'
  BY DEF RunType, Goto

\* So does the end of a drop.
LEMMA AfterDropType ==
    ASSUME RunType, NEW w \in Worker, AfterDrop(w)
    PROVE  RunType'
<1>1. refs' \in [Worker -> SUBSET Ids]
  BY DEF AfterDrop, RunType
<1>2. QED
  BY <1>1, NextType, Labels DEF AfterDrop, NextRef

\* Every step keeps the types of the tables.
LEMMA DbTypeNext == ASSUME TypeInv, [Next]_vars PROVE DbType'
<1> USE ConstantsAssumption, Labels, Results, WorkerDest, Bounds
<1> USE DEF TypeInv
<1>1. ASSUME NEW m \in Msg, QueueForCreate(m) PROVE DbType'
  <2>1. CASE \E id \in Ids : MailCreate(m, id)
    <3>1. PICK id \in Ids : outbox' = [outbox EXCEPT ![id] = m]
      BY <2>1 DEF MailCreate
    <3>2. QED
      BY <1>1, <3>1 DEF QueueForCreate, DbType
  <2>2. CASE UNCHANGED outbox
    BY <1>1, <2>2 DEF QueueForCreate, DbType
  <2>3. QED
    BY <1>1, <2>1, <2>2 DEF QueueForCreate
<1>2. ASSUME NEW m \in Msg, QueueForInsert(m) PROVE DbType'
  BY <1>2 DEF QueueForInsert, DbType, SubmitType
<1>3. ASSUME NEW w \in Worker, DropDequeue(w) PROVE DbType'
  BY <1>3 DEF DropDequeue, Goto, QueueDeleteDestinationForID, DbType, RunType,
     db, mem, manager, locals, submit, remote, history, outer
<1>4. ASSUME NEW w \in Worker, DropFlag(w) PROVE DbType'
  BY <1>4 DEF DropFlag, Goto, AfterDrop, NextRef, ClearLocals, MailDelete,
     DbType, RunType, db, mem, manager, locals, submit, remote, history, outer
<1>5. ASSUME NEW w \in Worker, DropExpunge(w) PROVE DbType'
  BY <1>5 DEF DropExpunge, Goto, AfterDrop, NextRef, ClearLocals, MailExpunge,
     RemoveMails, DbType, RunType, db, mem, manager, locals, submit, remote,
     history, outer
<1>6. ASSUME NEW w \in Worker, SelfDequeue(w) PROVE DbType'
  BY <1>6 DEF SelfDequeue, Goto, QueueDeleteDestinationForID, DbType, RunType,
     db, mem, manager, locals, submit, remote, history, outer
<1>7. ASSUME NEW w \in Worker, SelfMove(w) PROVE DbType'
  BY <1>7 DEF SelfMove, Goto, NextRef, ClearLocals, ClearRetry, MailMove,
     RemoveMails, HalfMove, Present, DbType, RunType, db, mem, manager,
     locals, submit, remote, history, outer
<1>8. ASSUME NEW w \in Worker, RemoteDequeue(w) PROVE DbType'
  BY <1>8 DEF RemoteDequeue, Goto, QueueDeleteDestinationForID, DbType,
     RunType, db, mem, manager, locals, submit, remote, history, outer
<1>9. ASSUME NEW w \in Worker, RemoteMove(w) PROVE DbType'
  BY <1>9 DEF RemoteMove, Goto, MailMove, RemoveMails, HalfMove, Present,
     DbType, RunType, db, mem, manager, locals, submit, remote, history, outer
<1>10. ASSUME NEW w \in Worker, RunExpunge(w) PROVE DbType'
  BY <1>10 DEF RunExpunge, Goto, MailExpunge, RemoveMails, DbType, RunType,
     db, mem, manager, locals, submit, remote, history, outer
<1>11. ASSUME Expire PROVE DbType'
  BY <1>11 DEF Expire, DbType, RunType, db, mem, manager, locals, submit,
     remote, history, outer
<1>12. ASSUME UserDelete PROVE DbType'
  BY <1>12 DEF UserDelete, MailDelete, Present, DbType, RunType, db, mem,
     manager, locals, submit, remote, history, outer
<1>13. ASSUME UserExpunge PROVE DbType'
  BY <1>13 DEF UserExpunge, MailExpunge, RemoveMails, DbType, RunType, db,
     mem, manager, locals, submit, remote, history, outer
<1>14. ASSUME Crash PROVE DbType'
  BY <1>14 DEF Crash, Present, DbType, RunType, db, mem, manager, locals,
     submit, remote, history, outer
<1>15. ASSUME NEW m \in Msg, QueueForBadAddress(m) \/ QueueForSpawn(m) \/
   QueueForReturn(m) PROVE UNCHANGED db
  BY <1>15 DEF QueueForBadAddress, QueueForSpawn, QueueForReturn, db, mem,
     manager, locals, submit, remote, history, outer
<1>16. ASSUME NEW w \in Worker, RunStart(w) \/ RunWake(w) \/ RunFetch(w) \/
   RunSkip(w) \/ RunSelect(w) \/ RunDone(w) \/ DropPending(w) \/
   SelfDeliver(w) \/ SelfPending(w) \/ RemoteDial(w) \/ RemoteData(w) \/
   RemoteAbort(w) \/ RemotePending(w) \/ RemoteClose(w) \/ RemoteClassify(w)
   \/ RunStop(w) PROVE UNCHANGED db
  BY <1>16 DEF RunStart, RunWake, RunFetch, RunSkip, RunSelect, RunDone,
     DropPending, SelfDeliver, SelfPending, RemoteDial, RemoteData,
     RemoteAbort, RemotePending, RemoteClose, RemoteClassify, RunStop, db,
     mem, manager, locals, submit, remote, history, outer
<1>17. ASSUME ManagerList \/ ManagerSpawn \/ ManagerReschedule \/
   ResetRetryCounters PROVE UNCHANGED db
  BY <1>17 DEF ManagerList, ManagerSpawn, ManagerReschedule,
     ResetRetryCounters, db, mem, manager, locals, submit, remote, history,
     outer
<1>18. CASE UNCHANGED db
  BY <1>18 DEF DbType, db
<1>19. QED
  BY <1>1, <1>2, <1>3, <1>4, <1>5, <1>6, <1>7, <1>8, <1>9, <1>10, <1>11,
     <1>12, <1>13, <1>14, <1>15, <1>16, <1>17, <1>18 DEF Next, Submit,
     Manager, Run, Environment, vars

\* Every step keeps the types of the Queues object.
LEMMA MemTypeNext == ASSUME TypeInv, [Next]_vars PROVE MemType'
<1> USE ConstantsAssumption, Labels, Results, WorkerDest, Bounds
<1> USE DEF TypeInv
<1>1. ASSUME NEW m \in Msg, QueueForSpawn(m) PROVE MemType'
  BY <1>1 DEF QueueForSpawn, queueFor, MemType, db, mem, manager, locals,
     submit, remote, history, outer
<1>2. ASSUME NEW m \in Msg, QueueForReturn(m) PROVE MemType'
  BY <1>2 DEF QueueForReturn, MemType, db, mem, manager, locals, submit,
     remote, history, outer
<1>3. ASSUME ManagerList PROVE MemType'
  BY <1>3 DEF ManagerList, MemType, db, mem, manager, locals, submit, remote,
     history, outer
<1>4. ASSUME ManagerSpawn PROVE MemType'
  BY <1>4 DEF ManagerSpawn, queueFor, MemType, db, mem, manager, locals,
     submit, remote, history, outer
<1>5. ASSUME ManagerReschedule PROVE MemType'
  BY <1>5 DEF ManagerReschedule, MemType, db, mem, manager, locals, submit,
     remote, history, outer
<1>6. ASSUME NEW w \in Worker, RunStart(w) PROVE MemType'
  BY <1>6 DEF RunStart, Goto, MemType, db, mem, manager, locals, submit,
     remote, history, outer
<1>7. ASSUME NEW w \in Worker, RunWake(w) PROVE MemType'
  BY <1>7 DEF RunWake, Goto, MemType, db, mem, manager, locals, submit,
     remote, history, outer
<1>8. ASSUME NEW w \in Worker, RunFetch(w) PROVE MemType'
  BY <1>8 DEF RunFetch, Goto, Increment, QueueMailIDsForDestination, MemType,
     db, mem, manager, locals, submit, remote, history, outer
<1>9. ASSUME NEW w \in Worker, SelfDeliver(w) PROVE MemType'
  <2>1. retrying' \in [Dest -> BOOLEAN]
    BY <1>9, CounterTypes DEF SelfDeliver, MemType
  <2>2. QED
    BY <1>9, <2>1 DEF SelfDeliver, MemType, mem, outer, manager
<1>10. ASSUME NEW w \in Worker, SelfPending(w) PROVE MemType'
  <2>1. retrying' \in [Dest -> BOOLEAN]
    BY <1>10, CounterTypes DEF SelfPending, MemType
  <2>2. QED
    BY <1>10, <2>1 DEF SelfPending, MemType, mem, outer, manager
<1>11. ASSUME NEW w \in Worker, SelfMove(w) PROVE MemType'
  BY <1>11 DEF SelfMove, Goto, NextRef, ClearLocals, ClearRetry, MailMove,
     RemoveMails, HalfMove, Present, MemType, db, mem, manager, locals,
     submit, remote, history, outer
<1>12. ASSUME NEW w \in Worker, RemoteClassify(w) PROVE MemType'
  <2>1. retrying' \in [Dest -> BOOLEAN]
    BY <1>12, CounterTypes DEF RemoteClassify, MemType
  <2>2. QED
    BY <1>12, <2>1 DEF RemoteClassify, MemType, mem, outer, manager
<1>13. ASSUME NEW w \in Worker, RunStop(w) PROVE MemType'
  BY <1>13 DEF RunStop, Goto, MemType, db, mem, manager, locals, submit,
     remote, history, outer
<1>14. ASSUME ResetRetryCounters PROVE MemType'
  BY <1>14 DEF ResetRetryCounters, MemType, db, mem, manager, locals, submit,
     remote, history, outer
<1>15. ASSUME Crash PROVE MemType'
  <2>1. retrying' \in [Dest -> BOOLEAN]
    BY <1>15 DEF Crash
  <2>2. QED
    BY <1>15, <2>1 DEF Crash, MemType
<1>16. ASSUME NEW m \in Msg, QueueForCreate(m) \/ QueueForBadAddress(m) \/
   QueueForInsert(m) PROVE UNCHANGED <<mem, trigger, manager>>
  BY <1>16 DEF QueueForCreate, QueueForBadAddress, QueueForInsert, db, mem,
     manager, locals, submit, remote, history, outer
<1>17. ASSUME NEW w \in Worker, RunSkip(w) \/ RunSelect(w) \/ RunDone(w) \/
   DropDequeue(w) \/ DropPending(w) \/ DropFlag(w) \/ DropExpunge(w) \/
   SelfDequeue(w) \/ RemoteDial(w) \/ RemoteData(w) \/ RemoteAbort(w) \/
   RemoteDequeue(w) \/ RemotePending(w) \/ RemoteMove(w) \/ RemoteClose(w) \/
   RunExpunge(w) PROVE UNCHANGED <<mem, trigger, manager>>
  BY <1>17 DEF RunSkip, RunSelect, RunDone, DropDequeue, DropPending,
     DropFlag, DropExpunge, SelfDequeue, RemoteDial, RemoteData, RemoteAbort,
     RemoteDequeue, RemotePending, RemoteMove, RemoteClose, RunExpunge, db,
     mem, manager, locals, submit, remote, history, outer
<1>18. ASSUME Expire \/ UserDelete \/ UserExpunge PROVE UNCHANGED <<mem,
   trigger, manager>>
  BY <1>18 DEF Expire, UserDelete, UserExpunge, db, mem, manager, locals,
     submit, remote, history, outer
<1>19. CASE UNCHANGED <<mem, trigger, manager>>
  BY <1>19 DEF MemType, mem, manager
<1>20. QED
  BY <1>1, <1>2, <1>3, <1>4, <1>5, <1>6, <1>7, <1>8, <1>9, <1>10, <1>11,
     <1>12, <1>13, <1>14, <1>15, <1>16, <1>17, <1>18, <1>19 DEF Next, Submit,
     Manager, Run, Environment, vars

\* Every step keeps the types of the submitters.
LEMMA SubmitTypeNext == ASSUME TypeInv, [Next]_vars PROVE SubmitType'
<1> USE ConstantsAssumption, Labels, Results, WorkerDest, Bounds
<1> USE DEF TypeInv
<1>1. ASSUME NEW m \in Msg, QueueForCreate(m) PROVE SubmitType'
  <2>1. CASE \E id \in Ids : /\ subId' = [subId EXCEPT ![m] = id]
                               /\ subNext' = [subNext EXCEPT ![m] = 1]
                               /\ subPc' = [subPc EXCEPT ![m] = "insert"]
    <3>1. PICK id \in Ids : /\ subId' = [subId EXCEPT ![m] = id]
                            /\ subNext' = [subNext EXCEPT ![m] = 1]
                            /\ subPc' = [subPc EXCEPT ![m] = "insert"]
      BY <2>1
    <3>2. QED
      BY <3>1 DEF SubmitType
  <2>2. CASE subPc' = [subPc EXCEPT ![m] = "failed"] /\ UNCHANGED <<subId, subNext>>
    BY <2>2 DEF SubmitType
  <2>3. QED
    BY <1>1, <2>1, <2>2 DEF QueueForCreate
<1>2. ASSUME NEW m \in Msg, QueueForBadAddress(m) PROVE SubmitType'
  BY <1>2 DEF QueueForBadAddress, SubmitType, db, mem, manager, locals,
     submit, remote, history, outer
<1>3. ASSUME NEW m \in Msg, QueueForInsert(m) PROVE SubmitType'
  BY <1>3 DEF QueueForInsert, SubmitType, db, mem, manager, locals, submit,
     remote, history, outer
<1>4. ASSUME NEW m \in Msg, QueueForSpawn(m) PROVE SubmitType'
  BY <1>4 DEF QueueForSpawn, queueFor, SubmitType, db, mem, manager, locals,
     submit, remote, history, outer
<1>5. ASSUME NEW m \in Msg, QueueForReturn(m) PROVE SubmitType'
  BY <1>5 DEF QueueForReturn, SubmitType, db, mem, manager, locals, submit,
     remote, history, outer
<1>6. ASSUME Crash PROVE SubmitType'
  BY <1>6 DEF Crash, Present, SubmitType, db, mem, manager, locals, submit,
     remote, history, outer
<1>7. ASSUME NEW w \in Worker, RunStart(w) \/ RunWake(w) \/ RunFetch(w) \/
   RunSkip(w) \/ RunSelect(w) \/ RunDone(w) \/ DropDequeue(w) \/
   DropPending(w) \/ DropFlag(w) \/ DropExpunge(w) \/ SelfDeliver(w) \/
   SelfDequeue(w) \/ SelfPending(w) \/ SelfMove(w) \/ RemoteDial(w) \/
   RemoteData(w) \/ RemoteAbort(w) \/ RemoteDequeue(w) \/ RemotePending(w) \/
   RemoteMove(w) \/ RemoteClose(w) \/ RemoteClassify(w) \/ RunExpunge(w) \/
   RunStop(w) PROVE UNCHANGED submit
  BY <1>7 DEF RunStart, RunWake, RunFetch, RunSkip, RunSelect, RunDone,
     DropDequeue, DropPending, DropFlag, DropExpunge, SelfDeliver,
     SelfDequeue, SelfPending, SelfMove, RemoteDial, RemoteData, RemoteAbort,
     RemoteDequeue, RemotePending, RemoteMove, RemoteClose, RemoteClassify,
     RunExpunge, RunStop, db, mem, manager, locals, submit, remote, history,
     outer
<1>8. ASSUME ManagerList \/ ManagerSpawn \/ ManagerReschedule \/
   ResetRetryCounters \/ Expire \/ UserDelete \/ UserExpunge PROVE UNCHANGED
   submit
  BY <1>8 DEF ManagerList, ManagerSpawn, ManagerReschedule,
     ResetRetryCounters, Expire, UserDelete, UserExpunge, db, mem, manager,
     locals, submit, remote, history, outer
<1>9. CASE UNCHANGED submit
  BY <1>9 DEF SubmitType, submit
<1>10. QED
  BY <1>1, <1>2, <1>3, <1>4, <1>5, <1>6, <1>7, <1>8, <1>9 DEF Next, Submit,
     Manager, Run, Environment, vars

\* Every step keeps the types of the goroutines and their locals.
LEMMA RunTypeNext == ASSUME TypeInv, [Next]_vars PROVE RunType'
<1> USE ConstantsAssumption, Labels, Results, WorkerDest, Bounds
<1> USE DEF TypeInv
<1>1. ASSUME NEW m \in Msg, QueueForSpawn(m) PROVE RunType'
  BY <1>1 DEF QueueForSpawn, queueFor, RunType, db, mem, manager, locals,
     submit, remote, history, outer
<1>2. ASSUME ManagerSpawn PROVE RunType'
  BY <1>2 DEF ManagerSpawn, queueFor, RunType, db, mem, manager, locals,
     submit, remote, history, outer
<1>3. ASSUME NEW w \in Worker, RunStart(w) PROVE RunType'
  BY <1>3, GotoIdleType DEF RunStart, RunType, locals, outer
<1>4. ASSUME NEW w \in Worker, RunWake(w) PROVE RunType'
  BY <1>4, GotoIdleType DEF RunWake, RunType, locals, outer
<1>5. ASSUME NEW w \in Worker, RunFetch(w) PROVE RunType'
  <2>1. refs' \in [Worker -> SUBSET Ids]
    BY <1>5 DEF RunFetch, QueueMailIDsForDestination, RunType
  <2>2. QED
    BY <1>5, <2>1, GotoIdleType DEF RunFetch
<1>6. ASSUME NEW w \in Worker, RunSkip(w) PROVE RunType'
  BY <1>6 DEF RunSkip, RunType, db, mem, manager, locals, submit, remote,
     history, outer
<1>7. ASSUME NEW w \in Worker, RunSelect(w) PROVE RunType'
  <2>1. PICK id \in Ids : RunSelect(w)!2!(id)
    BY <1>7 DEF RunSelect
  <2>2. outbox[id] \in Msg
    BY <2>1 DEF Present, DbType
  <2>3. PICK l \in Pc, r \in Res : Goto(w, l) /\ res' \in {res, [res EXCEPT ![w] = r]}
    BY <2>1
  <2>4. QED
    BY <2>1, <2>2, <2>3, SelectType
<1>8. ASSUME NEW w \in Worker, RunDone(w) PROVE RunType'
  BY <1>8, GotoIdleType DEF RunDone, RunType, locals, outer
<1>9. ASSUME NEW w \in Worker, DropDequeue(w) PROVE RunType'
  BY <1>9, GotoBusyType DEF DropDequeue, locals, outer
<1>10. ASSUME NEW w \in Worker, DropPending(w) PROVE RunType'
  BY <1>10, GotoBusyType, AfterDropType DEF DropPending, locals, outer
<1>11. ASSUME NEW w \in Worker, DropFlag(w) PROVE RunType'
  BY <1>11, GotoBusyType, AfterDropType DEF DropFlag, locals, outer
<1>12. ASSUME NEW w \in Worker, DropExpunge(w) PROVE RunType'
  BY <1>12, GotoBusyType, AfterDropType DEF DropExpunge, locals, outer
<1>13. ASSUME NEW w \in Worker, SelfDeliver(w) PROVE RunType'
  BY <1>13, GotoBusyType, NextType DEF SelfDeliver, NextRef, RunType, locals, outer
<1>14. ASSUME NEW w \in Worker, SelfDequeue(w) PROVE RunType'
  BY <1>14, GotoBusyType DEF SelfDequeue, locals, outer
<1>15. ASSUME NEW w \in Worker, SelfPending(w) PROVE RunType'
  BY <1>15, GotoBusyType, NextType DEF SelfPending, NextRef, RunType, locals, outer
<1>16. ASSUME NEW w \in Worker, SelfMove(w) PROVE RunType'
  BY <1>16, GotoBusyType, NextType DEF SelfMove, NextRef, RunType, locals, outer
<1>17. ASSUME NEW w \in Worker, RemoteDial(w) PROVE RunType'
  BY <1>17, GotoBusyType DEF RemoteDial, locals, outer
<1>18. ASSUME NEW w \in Worker, RemoteData(w) PROVE RunType'
  BY <1>18, GotoBusyType DEF RemoteData, locals, outer
<1>19. ASSUME NEW w \in Worker, RemoteAbort(w) PROVE RunType'
  BY <1>19, GotoBusyType DEF RemoteAbort, locals, outer
<1>20. ASSUME NEW w \in Worker, RemoteDequeue(w) PROVE RunType'
  BY <1>20, GotoBusyType DEF RemoteDequeue, locals, outer
<1>21. ASSUME NEW w \in Worker, RemotePending(w) PROVE RunType'
  BY <1>21, GotoBusyType DEF RemotePending, locals, outer
<1>22. ASSUME NEW w \in Worker, RemoteMove(w) PROVE RunType'
  BY <1>22, GotoBusyType DEF RemoteMove, locals, outer
<1>23. ASSUME NEW w \in Worker, RemoteClose(w) PROVE RunType'
  BY <1>23, GotoBusyType DEF RemoteClose, locals, outer
<1>24. ASSUME NEW w \in Worker, RemoteClassify(w) PROVE RunType'
  BY <1>24, GotoBusyType, NextType DEF RemoteClassify, NextRef, RunType, locals, outer
<1>25. ASSUME NEW w \in Worker, RunExpunge(w) PROVE RunType'
  BY <1>25, GotoIdleType DEF RunExpunge, RunType, locals, outer
<1>26. ASSUME NEW w \in Worker, RunStop(w) PROVE RunType'
  BY <1>26, GotoIdleType DEF RunStop, RunType, locals, outer
<1>27. ASSUME Crash PROVE RunType'
  BY <1>27 DEF Crash, Present, RunType, db, mem, manager, locals, submit,
     remote, history, outer
<1>28. ASSUME NEW m \in Msg, QueueForCreate(m) \/ QueueForBadAddress(m) \/
   QueueForInsert(m) \/ QueueForReturn(m) PROVE UNCHANGED <<pc, locals>>
  BY <1>28 DEF QueueForCreate, QueueForBadAddress, QueueForInsert,
     QueueForReturn, Goto, db, mem, manager, locals, submit, remote, history,
     outer
<1>29. ASSUME ManagerList \/ ManagerReschedule \/ ResetRetryCounters \/ Expire
   \/ UserDelete \/ UserExpunge PROVE UNCHANGED <<pc, locals>>
  BY <1>29 DEF ManagerList, ManagerReschedule, ResetRetryCounters, Expire,
     UserDelete, UserExpunge, Goto, db, mem, manager, locals, submit, remote,
     history, outer
<1>30. CASE UNCHANGED <<pc, locals>>
  BY <1>30 DEF RunType, locals
<1>31. QED
  BY <1>1, <1>2, <1>3, <1>4, <1>5, <1>6, <1>7, <1>8, <1>9, <1>10, <1>11,
     <1>12, <1>13, <1>14, <1>15, <1>16, <1>17, <1>18, <1>19, <1>20, <1>21,
     <1>22, <1>23, <1>24, <1>25, <1>26, <1>27, <1>28, <1>29, <1>30 DEF Next,
     Submit, Manager, Run, Environment, vars

\* Every step keeps the types of what the nodes got and of the history.
LEMMA RemoteTypeNext == ASSUME TypeInv, [Next]_vars PROVE RemoteType'
<1> USE ConstantsAssumption, Labels, Results, WorkerDest, Bounds
<1> USE DEF TypeInv
<1>1. ASSUME NEW m \in Msg, QueueForInsert(m) PROVE RemoteType'
  BY <1>1 DEF QueueForInsert, RemoteType, db, mem, manager, locals, submit,
     remote, history, outer
<1>2. ASSUME ResetRetryCounters PROVE RemoteType'
  BY <1>2 DEF ResetRetryCounters, RemoteType, db, mem, manager, locals,
     submit, remote, history, outer
<1>3. ASSUME NEW w \in Worker, RunSelect(w) PROVE RemoteType'
  BY <1>3 DEF RunSelect, RemoteType, DbType, Present, remote
<1>4. ASSUME NEW w \in Worker, DropDequeue(w) PROVE RemoteType'
  BY <1>4 DEF DropDequeue, Goto, QueueDeleteDestinationForID, RemoteType, db,
     mem, manager, locals, submit, remote, history, outer
<1>5. ASSUME NEW w \in Worker, DropExpunge(w) PROVE RemoteType'
  BY <1>5 DEF DropExpunge, Goto, AfterDrop, NextRef, ClearLocals, MailExpunge,
     RemoveMails, RemoteType, db, mem, manager, locals, submit, remote,
     history, outer
<1>6. ASSUME NEW w \in Worker, SelfDeliver(w) PROVE RemoteType'
  <2>1. snap[w] \in Msg
    BY <1>6 DEF SelfDeliver, RunType
  <2>2. delivered' \in [Msg \X Dest -> 0..MaxCopies]
    BY <1>6, <2>1, CopyType DEF SelfDeliver, RemoteType
  <2>3. QED
    BY <1>6, <2>1, <2>2 DEF SelfDeliver, RemoteType, DbType, history
<1>7. ASSUME NEW w \in Worker, SelfDequeue(w) PROVE RemoteType'
  BY <1>7 DEF SelfDequeue, Goto, QueueDeleteDestinationForID, RemoteType, db,
     mem, manager, locals, submit, remote, history, outer
<1>8. ASSUME NEW w \in Worker, SelfMove(w) PROVE RemoteType'
  BY <1>8 DEF SelfMove, Goto, NextRef, ClearLocals, ClearRetry, MailMove,
     RemoveMails, HalfMove, Present, RemoteType, db, mem, manager, locals,
     submit, remote, history, outer
<1>9. ASSUME NEW w \in Worker, RemoteDial(w) PROVE RemoteType'
  <2>1. snap[w] \in Msg
    BY <1>9 DEF RemoteDial, RunType
  <2>2. QED
    BY <1>9, <2>1 DEF RemoteDial, RemoteType, remote, history
<1>10. ASSUME NEW w \in Worker, RemoteData(w) PROVE RemoteType'
  <2>1. snap[w] \in Msg
    BY <1>10 DEF RemoteData, RunType
  <2>2. QED
    BY <1>10, <2>1 DEF RemoteData, RemoteType, remote, history
<1>11. ASSUME NEW w \in Worker, RemoteAbort(w) PROVE RemoteType'
  <2>1. snap[w] \in Msg
    BY <1>11 DEF RemoteAbort, RunType
  <2>2. QED
    BY <1>11, <2>1 DEF RemoteAbort, RemoteType, remote, history
<1>12. ASSUME NEW w \in Worker, RemoteDequeue(w) PROVE RemoteType'
  BY <1>12 DEF RemoteDequeue, Goto, QueueDeleteDestinationForID, RemoteType,
     db, mem, manager, locals, submit, remote, history, outer
<1>13. ASSUME NEW w \in Worker, RemoteMove(w) PROVE RemoteType'
  BY <1>13 DEF RemoteMove, Goto, MailMove, RemoveMails, HalfMove, Present,
     RemoteType, db, mem, manager, locals, submit, remote, history, outer
<1>14. ASSUME NEW w \in Worker, RemoteClose(w) PROVE RemoteType'
  <2>1. snap[w] \in Msg
    BY <1>14 DEF RemoteClose, RunType
  <2>2. delivered' \in [Msg \X Dest -> 0..MaxCopies]
    BY <1>14, <2>1, CopyType DEF RemoteClose, RemoteType
  <2>3. QED
    BY <1>14, <2>1, <2>2 DEF RemoteClose, RemoteType, DbType, history
<1>15. ASSUME NEW w \in Worker, RemoteClassify(w) PROVE RemoteType'
  BY <1>15 DEF RemoteClassify, RemoteType, DbType, remote
<1>16. ASSUME NEW w \in Worker, RunExpunge(w) PROVE RemoteType'
  BY <1>16 DEF RunExpunge, Goto, MailExpunge, RemoveMails, RemoteType, db,
     mem, manager, locals, submit, remote, history, outer
<1>17. ASSUME UserDelete PROVE RemoteType'
  BY <1>17 DEF UserDelete, RemoteType, DbType, Present, remote
<1>18. ASSUME UserExpunge PROVE RemoteType'
  BY <1>18 DEF UserExpunge, MailExpunge, RemoveMails, RemoteType, db, mem,
     manager, locals, submit, remote, history, outer
<1>19. ASSUME Crash PROVE RemoteType'
  BY <1>19 DEF Crash, Present, RemoteType, db, mem, manager, locals, submit,
     remote, history, outer
<1>20. ASSUME NEW m \in Msg, QueueForCreate(m) \/ QueueForBadAddress(m) \/
   QueueForSpawn(m) \/ QueueForReturn(m) PROVE UNCHANGED <<remote, history>>
  BY <1>20 DEF QueueForCreate, QueueForBadAddress, QueueForSpawn,
     QueueForReturn, db, mem, manager, locals, submit, remote, history, outer
<1>21. ASSUME NEW w \in Worker, RunStart(w) \/ RunWake(w) \/ RunFetch(w) \/
   RunSkip(w) \/ RunDone(w) \/ DropPending(w) \/ DropFlag(w) \/ SelfPending(w)
   \/ RemotePending(w) \/ RunStop(w) PROVE UNCHANGED <<remote, history>>
  BY <1>21 DEF RunStart, RunWake, RunFetch, RunSkip, RunDone, DropPending,
     DropFlag, SelfPending, RemotePending, RunStop, db, mem, manager, locals,
     submit, remote, history, outer
<1>22. ASSUME ManagerList \/ ManagerSpawn \/ ManagerReschedule \/ Expire PROVE
   UNCHANGED <<remote, history>>
  BY <1>22 DEF ManagerList, ManagerSpawn, ManagerReschedule, Expire, db, mem,
     manager, locals, submit, remote, history, outer
<1>23. CASE UNCHANGED <<remote, history>>
  BY <1>23 DEF RemoteType, remote, history
<1>24. QED
  BY <1>1, <1>2, <1>3, <1>4, <1>5, <1>6, <1>7, <1>8, <1>9, <1>10, <1>11,
     <1>12, <1>13, <1>14, <1>15, <1>16, <1>17, <1>18, <1>19, <1>20, <1>21,
     <1>22, <1>23 DEF Next, Submit, Manager, Run, Environment, vars

-----------------------------------------------------------------------------
(* One goroutine per destination.                                          *)

\* queueFor keeps SingleRunner: only a destination without a goroutine gets one.
LEMMA QueueForRunner ==
    ASSUME TypeInv, SingleRunner, NEW d \in Dest, queueFor(d)
    PROVE  SingleRunner'
<1>1. CASE UNCHANGED <<running, pc>>
  BY <1>1 DEF SingleRunner, Active
<1>2. CASE /\ ~running[d]
           /\ running' = [running EXCEPT ![d] = TRUE]
           /\ \E g \in Gen : pc' = [pc EXCEPT ![<<d, g>>] = "start"]
  <2>1. PICK g \in Gen : pc' = [pc EXCEPT ![<<d, g>>] = "start"]
    BY <1>2
  <2>2. \A h \in Gen : pc[<<d, h>>] = "idle"
    BY <1>2 DEF SingleRunner, Active
  <2>3. /\ <<d, g>> \in Worker
        /\ \A e \in Dest, h \in Gen : <<e, h>> \in Worker
    BY DEF Worker
  <2>4. /\ pc'[<<d, g>>] = "start"
        /\ \A e \in Dest, h \in Gen : <<e, h>> # <<d, g>> => pc'[<<e, h>>] = pc[<<e, h>>]
    BY <2>1, <2>3 DEF TypeInv, RunType
  <2>5. running'[d] /\ \A e \in Dest : e # d => running'[e] = running[e]
    BY <1>2 DEF TypeInv, MemType
  <2>6. QED
    BY <2>2, <2>4, <2>5 DEF SingleRunner, Active
<1>3. QED
  BY <1>1, <1>2 DEF queueFor

\* A step that takes a goroutine from one label to another one keeps it.
LEMMA GotoRunner ==
    ASSUME TypeInv, SingleRunner, NEW w \in Worker, pc[w] # "idle",
           NEW l \in Pc \ {"idle"}, Goto(w, l), UNCHANGED running
    PROVE  SingleRunner'
<1>1. \A v \in Worker : pc'[v] # "idle" <=> pc[v] # "idle"
  BY DEF Goto, TypeInv, RunType
<1>2. \A d \in Dest, g \in Gen : <<d, g>> \in Worker
  BY DEF Worker
<1>3. QED
  BY <1>1, <1>2 DEF SingleRunner, Active

\* The goroutine that ends was the only one, and running is cleared with it.
LEMMA RunStopRunner ==
    ASSUME TypeInv, SingleRunner, NEW w \in Worker, RunStop(w)
    PROVE  SingleRunner'
<1>1. PICK d \in Dest, g \in Gen : w = <<d, g>>
  BY WorkerDest
<1>2. \A e \in Dest, h \in Gen : <<e, h>> \in Worker
  BY DEF Worker
<1>3. /\ pc'[w] = "idle"
      /\ \A v \in Worker : v # w => pc'[v] = pc[v]
      /\ ~running'[d]
      /\ \A e \in Dest : e # d => running'[e] = running[e]
  BY <1>1 DEF RunStop, Goto, TypeInv, RunType, MemType
<1>4. \A h \in Gen : h # g => pc[<<d, h>>] = "idle"
  BY <1>1 DEF SingleRunner, Active, RunStop
<1>5. \A h \in Gen : pc'[<<d, h>>] = "idle"
  BY <1>1, <1>2, <1>3, <1>4
<1>6. \A e \in Dest, h \in Gen : e # d => pc'[<<e, h>>] = pc[<<e, h>>]
  BY <1>1, <1>2, <1>3
<1>7. ASSUME NEW e \in Dest
      PROVE  /\ running'[e] <=> \E h \in Gen : pc'[<<e, h>>] # "idle"
             /\ \A h, k \in Gen :
                  pc'[<<e, h>>] # "idle" /\ pc'[<<e, k>>] # "idle" => h = k
  <2>1. CASE e = d
    BY <2>1, <1>3, <1>5
  <2>2. CASE e # d
    BY <2>2, <1>3, <1>6 DEF SingleRunner, Active
  <2>3. QED
    BY <2>1, <2>2
<1>8. QED
  BY <1>7 DEF SingleRunner, Active

\* A submitter calls queueFor only with a host it could parse.
SpawnOK == \A m \in Msg : subPc[m] = "spawn" => Rcpts[m][subNext[m]] \in Dest

\* It is kept: the row before the call was inserted for that host.
LEMMA SpawnNext == ASSUME TypeInv, SpawnOK, [Next]_vars PROVE SpawnOK'
<1> USE DEF SpawnOK, TypeInv, SubmitType
<1>1. ASSUME NEW m \in Msg, Submit(m) PROVE SpawnOK'
  <2>1. CASE QueueForInsert(m)
    BY <2>1 DEF QueueForInsert
  <2>2. CASE QueueForCreate(m) \/ QueueForBadAddress(m) \/ QueueForSpawn(m) \/ QueueForReturn(m)
    BY <2>2 DEF QueueForCreate, QueueForBadAddress, QueueForSpawn, QueueForReturn
  <2>3. QED
    BY <1>1, <2>1, <2>2 DEF Submit
<1>2. CASE Crash
  BY <1>2 DEF Crash
<1>3. ASSUME NEW w \in Worker, Run(w) PROVE UNCHANGED submit
  BY <1>3 DEF Run, RunStart, RunWake, RunFetch, RunSkip, RunSelect, RunDone,
     DropDequeue, DropPending, DropFlag, DropExpunge, SelfDeliver, SelfDequeue,
     SelfPending, SelfMove, RemoteDial, RemoteData, RemoteAbort, RemoteDequeue,
     RemotePending, RemoteMove, RemoteClose, RemoteClassify, RunExpunge,
     RunStop, outer
<1>4. CASE Manager \/ ResetRetryCounters \/ Expire \/ UserDelete \/ UserExpunge
  BY <1>4 DEF Manager, ManagerList, ManagerSpawn, ManagerReschedule,
     ResetRetryCounters, Expire, UserDelete, UserExpunge, submit, outer
<1>5. CASE UNCHANGED submit
  BY <1>5 DEF submit
<1>6. QED
  BY <1>1, <1>2, <1>3, <1>4, <1>5 DEF Next, Environment, vars

\* Every step keeps SingleRunner.
LEMMA RunnerNext == ASSUME TypeInv, SpawnOK, SingleRunner, [Next]_vars PROVE SingleRunner'
<1> USE Labels
<1>1. ASSUME NEW m \in Msg, QueueForSpawn(m) PROVE SingleRunner'
  BY <1>1, QueueForRunner DEF QueueForSpawn, SpawnOK
<1>2. CASE ManagerSpawn
  BY <1>2, QueueForRunner DEF ManagerSpawn, TypeInv, MemType
<1>3. ASSUME NEW w \in Worker,
             RunStart(w) \/ RunWake(w) \/ RunFetch(w) \/ RunSelect(w) \/ RunDone(w)
      PROVE  SingleRunner'
  BY <1>3, GotoRunner DEF RunStart, RunWake, RunFetch, RunSelect, RunDone, mem
<1>4. ASSUME NEW w \in Worker,
             DropDequeue(w) \/ DropPending(w) \/ DropFlag(w) \/ DropExpunge(w)
      PROVE  SingleRunner'
  BY <1>4, GotoRunner DEF DropDequeue, DropPending, DropFlag, DropExpunge,
     AfterDrop, NextRef, mem
<1>5. ASSUME NEW w \in Worker,
             SelfDeliver(w) \/ SelfDequeue(w) \/ SelfPending(w) \/ SelfMove(w)
      PROVE  SingleRunner'
  BY <1>5, GotoRunner DEF SelfDeliver, SelfDequeue, SelfPending, SelfMove,
     NextRef, mem
<1>6. ASSUME NEW w \in Worker,
             \/ RemoteDial(w) \/ RemoteData(w) \/ RemoteAbort(w) \/ RemoteDequeue(w)
             \/ RemotePending(w) \/ RemoteMove(w) \/ RemoteClose(w)
             \/ RemoteClassify(w) \/ RunExpunge(w)
      PROVE  SingleRunner'
  BY <1>6, GotoRunner DEF RemoteDial, RemoteData, RemoteAbort, RemoteDequeue,
     RemotePending, RemoteMove, RemoteClose, RemoteClassify, RunExpunge,
     NextRef, mem
<1>7. ASSUME NEW w \in Worker, RunStop(w) PROVE SingleRunner'
  BY <1>7, RunStopRunner
<1>8. CASE Crash
  BY <1>8 DEF Crash, SingleRunner, Active, Worker
<1>9. CASE UNCHANGED <<running, pc>>
  BY <1>9 DEF SingleRunner, Active
<1>10. ASSUME NEW m \in Msg,
              \/ QueueForCreate(m) \/ QueueForBadAddress(m)
              \/ QueueForInsert(m) \/ QueueForReturn(m)
       PROVE  UNCHANGED <<running, pc>>
  BY <1>10 DEF QueueForCreate, QueueForBadAddress, QueueForInsert,
     QueueForReturn, mem
<1>11. ASSUME NEW w \in Worker, RunSkip(w) PROVE UNCHANGED <<running, pc>>
  BY <1>11 DEF RunSkip, mem
<1>12. CASE \/ ManagerList \/ ManagerReschedule \/ ResetRetryCounters \/ Expire
            \/ UserDelete \/ UserExpunge
  <2>1. UNCHANGED <<running, pc>>
    BY <1>12 DEF ManagerList, ManagerReschedule, ResetRetryCounters, Expire,
       UserDelete, UserExpunge, mem
  <2>2. QED
    BY <1>9, <2>1
<1>13. QED
  BY <1>1, <1>2, <1>3, <1>4, <1>5, <1>6, <1>7, <1>8, <1>9, <1>10, <1>11,
     <1>12 DEF Next, Submit, Manager, Run, Environment, vars, mem

-----------------------------------------------------------------------------
\* The groups of TypeInv give the type invariant the runs check.
LEMMA TypeInvTypeOK == TypeInv => TypeOK
  BY DEF TypeInv, DbType, MemType, RunType, SubmitType, RemoteType, TypeOK

\* The initial state, group by group.
LEMMA InitInv == Init => TypeInv /\ SpawnOK /\ SingleRunner
<1> SUFFICES ASSUME Init PROVE TypeInv /\ SpawnOK /\ SingleRunner
  OBVIOUS
<1>1. DbType
  BY DEF Init, DbType
<1>2. MemType
  BY DEF Init, MemType
<1>3. RunType
  BY Labels, Results DEF Init, RunType
<1>4. SubmitType
  BY DEF Init, SubmitType
<1>5. RemoteType
  BY Bounds DEF Init, RemoteType
<1>6. SpawnOK
  BY DEF Init, SpawnOK
<1>7. SingleRunner
  BY DEF Init, SingleRunner, Active, Worker
<1>8. QED
  BY <1>1, <1>2, <1>3, <1>4, <1>5, <1>6, <1>7 DEF TypeInv

\* The invariant the other theorems start from.
LEMMA RunnerInvariant == Spec => [](TypeInv /\ SpawnOK /\ SingleRunner)
<1>1. TypeInv /\ SpawnOK /\ SingleRunner /\ [Next]_vars
        => (TypeInv /\ SpawnOK /\ SingleRunner)'
  <2> SUFFICES ASSUME TypeInv, SpawnOK, SingleRunner, [Next]_vars
               PROVE  TypeInv' /\ SpawnOK' /\ SingleRunner'
    OBVIOUS
  <2>1. TypeInv'
    BY DbTypeNext, MemTypeNext, RunTypeNext, SubmitTypeNext, RemoteTypeNext
    DEF TypeInv
  <2>2. QED
    BY <2>1, SpawnNext, RunnerNext
<1>2. QED
  BY InitInv, <1>1, PTL DEF Spec

\* Type correctness: the ids, mails and pairs that the storage calls, the
\* submitters and the runs handle are always ones that exist.
THEOREM TypeCorrect == Spec => []TypeOK
  BY RunnerInvariant, TypeInvTypeOK, PTL

\* sender.go's CompareAndSwap on Queue.running and the order of the deferred
\* calls of run() give each destination at most one goroutine, and running is
\* true exactly while it exists, whatever fails or crashes.
THEOREM OneRunnerPerDestination == Spec => []SingleRunner
  BY RunnerInvariant, PTL

=============================================================================
