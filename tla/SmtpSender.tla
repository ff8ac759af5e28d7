----------------------------- MODULE SmtpSender -----------------------------
(***************************************************************************)
(* The outgoing mail queue of Yggmail: internal/smtpsender/sender.go over  *)
(* the tables queue and mails of internal/storage/sqlite3.                 *)
(*                                                                         *)
(* Threads: one submitter per message (a caller of QueueFor or             *)
(* QueueForStream), the queue manager (a timer chain) and one goroutine    *)
(* Queue.run per destination.  The queues of NewQueues share one SQLite    *)
(* file; every storage call is one step, because the Writer goroutine      *)
(* executes one write at a time and each statement commits on its own.     *)
(*                                                                         *)
(* A destination's goroutines are numbered by Gen, so that the model, like *)
(* the code, could run two of them; only Queue.running prevents it.        *)
(***************************************************************************)
EXTENDS Integers, FiniteSets, Sequences

CONSTANTS
    Dest,      \* destinations: public keys a mail can be addressed to
    Self,      \* this node's own key (loopback delivery)
    Bad,       \* a recipient that mail.ParseAddress / utils.ParseAddress rejects
    Msg,       \* the mails submitted, each once
    NoMsg,     \* "no row" / "no snapshot"
    Rcpts,     \* [Msg -> Seq(Dest \cup {Bad})], the recipient list of each mail
    Gen,       \* goroutine slots per destination
    MaxId,     \* bound on mail ids of the Outbox; Cardinality(Msg) never binds
    MaxCopies, \* saturation bound of the copies counted per recipient
    Events     \* what the environment may do besides answering, see AllEvents

\* "storage": a storage call fails; "crash": the process is killed; "cut": the
\* body of a mail is not transferred completely; "expire": seven days pass;
\* "reset": the network changes; "user": a mail client deletes from the Outbox.
AllEvents == {"storage", "crash", "cut", "expire", "reset", "user"}

Ids == 1..MaxId
Worker == Dest \X Gen

ASSUME ConstantsAssumption ==
    /\ Bad \notin Dest
    /\ NoMsg \notin Msg
    /\ Rcpts \in [Msg -> Seq(Dest \cup {Bad})]
    /\ Events \subseteq AllEvents
    /\ Gen \subseteq Nat
    /\ MaxId \in Nat
    /\ MaxCopies \in Nat \ {0}

VARIABLES
    \* --- the database: survives a crash ---
    outbox,     \* mails of mailbox "Outbox": [Ids -> Msg \cup {NoMsg}]
    deleted,    \* ids of the Outbox whose \Deleted flag is set
    expired,    \* ids of the Outbox older than UNDELIVERABLE_TIMEOUT_SECS
    queue,      \* rows (destination, id) of table queue
    sent,       \* mails that have a row in mailbox "Sent"
    \* --- the Queues object: in memory ---
    running,    \* Queue.running per destination
    retrying,   \* Queue.retryCount > 0, all that control depends on
    attempted,  \* Queue.lastAttempt is not the zero time
    trigger,    \* Queues.triggerCh holds its one token
    mgr,        \* the manager: waiting for its timer, scanning, or gone
    mgrTodo,    \* destinations the current manager scan has still to visit
    \* --- one goroutine Queue.run ---
    pc,         \* where it is
    refs,       \* ids of the refs it still has to visit
    cur,        \* ref.ID of the mail in hand (0: none)
    snap,       \* the mail MailSelect returned for it
    res,        \* why the mail in hand leaves the loop body
    \* --- one caller of QueueFor / QueueForStream per mail ---
    subPc, subId, subNext,
    \* --- the recipients' nodes ---
    delivered,  \* complete copies accepted, per mail and destination
    partial,    \* pairs for which a truncated copy was accepted
    \* --- history ---
    queued,     \* pairs whose row was ever inserted in table queue
    concluded,  \* pairs transmitted, refused by the remote, expired or
                \* deleted by the user
    failed      \* rows whose last attempt failed with a retryable error

db == <<outbox, deleted, expired, queue, sent>>
mem == <<running, retrying, attempted>>
manager == <<mgr, mgrTodo>>
locals == <<refs, cur, snap, res>>
submit == <<subPc, subId, subNext>>
remote == <<delivered, partial>>
history == <<queued, concluded, failed>>
outer == <<trigger, manager, submit>>   \* what no step of a run touches
vars == <<db, mem, trigger, manager, pc, locals, submit, remote, history>>

Pc == {"idle", "start", "sleep", "fetch", "loop", "drop", "dropPending",
       "dropFlag", "dropExpunge", "self", "selfDequeue", "selfPending",
       "selfMove", "dial", "data", "abort", "dequeue", "pending", "move",
       "close", "classify", "expunge", "stop"}
Res == {"none", "ok", "net", "temp", "perm", "old", "user"}

TypeOK ==
    /\ outbox \in [Ids -> Msg \cup {NoMsg}]
    /\ deleted \in SUBSET Ids
    /\ expired \in SUBSET Ids
    /\ queue \in SUBSET (Dest \X Ids)
    /\ sent \in SUBSET Msg
    /\ running \in [Dest -> BOOLEAN]
    /\ retrying \in [Dest -> BOOLEAN]
    /\ attempted \in [Dest -> BOOLEAN]
    /\ trigger \in BOOLEAN
    /\ mgr \in {"timer", "scan", "dead"}
    /\ mgrTodo \in SUBSET Dest
    /\ pc \in [Worker -> Pc]
    /\ refs \in [Worker -> SUBSET Ids]
    /\ cur \in [Worker -> Ids \cup {0}]
    /\ snap \in [Worker -> Msg \cup {NoMsg}]
    /\ res \in [Worker -> Res]
    /\ subPc \in [Msg -> {"new", "insert", "spawn", "done", "failed"}]
    /\ subId \in [Msg -> Ids \cup {0}]
    /\ subNext \in [Msg -> Nat]
    /\ delivered \in [Msg \X Dest -> 0..MaxCopies]
    /\ partial \in SUBSET (Msg \X Dest)
    /\ queued \in SUBSET (Msg \X Dest)
    /\ concluded \in SUBSET (Msg \X Dest)
    /\ failed \in SUBSET (Dest \X Ids)

Init ==
    /\ outbox = [i \in Ids |-> NoMsg]
    /\ deleted = {} /\ expired = {} /\ queue = {} /\ sent = {}
    /\ running = [d \in Dest |-> FALSE]
    /\ retrying = [d \in Dest |-> FALSE]
    /\ attempted = [d \in Dest |-> FALSE]
    /\ trigger = FALSE
    /\ mgr = "timer" /\ mgrTodo = {}
    /\ pc = [w \in Worker |-> "idle"]
    /\ refs = [w \in Worker |-> {}]
    /\ cur = [w \in Worker |-> 0]
    /\ snap = [w \in Worker |-> NoMsg]
    /\ res = [w \in Worker |-> "none"]
    /\ subPc = [m \in Msg |-> "new"]
    /\ subId = [m \in Msg |-> 0]
    /\ subNext = [m \in Msg |-> 0]
    /\ delivered = [p \in Msg \X Dest |-> 0]
    /\ partial = {} /\ queued = {} /\ concluded = {} /\ failed = {}

-----------------------------------------------------------------------------
(* The tables.                                                             *)

Present(id) == outbox[id] # NoMsg

\* IFNULL(MAX(id)+1, 1): an id is free again once no larger one is in use.
IsNextId(id) ==
    /\ \A i \in Ids : Present(i) => i < id
    /\ id = 1 \/ (id - 1 \in Ids /\ Present(id - 1))

\* MailCreate / MailCreateFromStream in the Outbox.
MailCreate(m, id) ==
    /\ IsNextId(id)
    /\ outbox' = [outbox EXCEPT ![id] = m]

\* Rows of mails leave with their queue rows (ON DELETE CASCADE).
RemoveMails(I) ==
    /\ outbox' = [i \in Ids |-> IF i \in I THEN NoMsg ELSE outbox[i]]
    /\ deleted' = deleted \ I
    /\ expired' = expired \ I
    /\ queue' = {r \in queue : r[2] \notin I}
    /\ failed' = {r \in failed : r[2] \notin I}

\* DELETE FROM mails WHERE mailbox = 'Outbox' AND deleted = 1
MailExpunge == RemoveMails(deleted) /\ UNCHANGED sent

\* UPDATE mails SET deleted = 1: no error when there is no such row.
MailDelete(id) == deleted' = IF Present(id) THEN deleted \cup {id} ELSE deleted

\* INSERT into Sent, then DELETE from the Outbox: one task of the Writer.
MailMove(id) ==
    /\ Present(id)
    /\ sent' = sent \cup {outbox[id]}
    /\ RemoveMails({id})

QueueDeleteDestinationForID(d, id) ==
    /\ queue' = queue \ {<<d, id>>}
    /\ failed' = failed \ {<<d, id>>}

QueueSelectIsMessagePendingSend(id) == \E d \in Dest : <<d, id>> \in queue

\* Mutant: the query lacks its WHERE destination = $1.
QueueMailIDsOfAll(d) == {i \in Ids : \E e \in Dest : <<e, i>> \in queue}

QueueMailIDsForDestination(d) == {i \in Ids : <<d, i>> \in queue}

StorageFault == "storage" \in Events

-----------------------------------------------------------------------------
(* Queues.queueFor: CompareAndSwap(false, true) decides who starts run().  *)

\* Mutant: run() is started whatever running says.
queueForUnchecked(d) ==
    /\ running' = [running EXCEPT ![d] = TRUE]
    /\ \E g \in Gen :
         /\ pc[<<d, g>>] = "idle"
         /\ pc' = [pc EXCEPT ![<<d, g>>] = "start"]

queueFor(d) ==
    \/ running[d] /\ UNCHANGED <<running, pc>>
    \/ /\ ~running[d]
       /\ running' = [running EXCEPT ![d] = TRUE]
       /\ \E g \in Gen :
            /\ pc[<<d, g>>] = "idle"
            /\ \A h \in Gen : h < g => pc[<<d, h>>] # "idle"
            /\ pc' = [pc EXCEPT ![<<d, g>>] = "start"]

-----------------------------------------------------------------------------
(* QueueFor and QueueForStream.                                            *)

\* The mail is stored in the Outbox before any recipient is looked at.
QueueForCreate(m) ==
    /\ subPc[m] = "new"
    /\ \/ \E id \in Ids :
            /\ MailCreate(m, id)
            /\ subId' = [subId EXCEPT ![m] = id]
            /\ subNext' = [subNext EXCEPT ![m] = 1]
            /\ subPc' = [subPc EXCEPT ![m] = "insert"]
       \/ /\ StorageFault
          /\ subPc' = [subPc EXCEPT ![m] = "failed"]
          /\ UNCHANGED <<outbox, subId, subNext>>
    /\ UNCHANGED <<deleted, expired, queue, sent, mem, trigger, manager, pc,
                   locals, remote, history>>

\* The recipient at hand does not parse: the call fails, what is already
\* stored and queued stays.
QueueForBadAddress(m) ==
    /\ subPc[m] = "insert"
    /\ subNext[m] \in 1..Len(Rcpts[m])
    /\ Rcpts[m][subNext[m]] \notin Dest
    /\ subPc' = [subPc EXCEPT ![m] = "failed"]
    /\ UNCHANGED <<db, mem, trigger, manager, pc, locals, subId, subNext,
                   remote, history>>

\* QueueInsertDestinationForID: the primary key refuses a second row for the
\* same host, the foreign key a row whose mail is gone.
QueueForInsert(m) ==
    /\ subPc[m] = "insert"
    /\ subNext[m] \in 1..Len(Rcpts[m])
    /\ LET d == Rcpts[m][subNext[m]] IN
       /\ d \in Dest
       /\ \/ /\ Present(subId[m])
             /\ <<d, subId[m]>> \notin queue
             /\ queue' = queue \cup {<<d, subId[m]>>}
             /\ queued' = queued \cup {<<m, d>>}
             /\ subPc' = [subPc EXCEPT ![m] = "spawn"]
          \/ /\ ~Present(subId[m]) \/ <<d, subId[m]>> \in queue \/ StorageFault
             /\ subPc' = [subPc EXCEPT ![m] = "failed"]
             /\ UNCHANGED <<queue, queued>>
    /\ UNCHANGED <<outbox, deleted, expired, sent, mem, trigger, manager, pc,
                   locals, subId, subNext, remote, concluded, failed>>

\* queueFor(host), then on to the next recipient.
QueueForSpawn(m) ==
    /\ subPc[m] = "spawn"
    /\ queueFor(Rcpts[m][subNext[m]])
    /\ subNext' = [subNext EXCEPT ![m] = @ + 1]
    /\ subPc' = [subPc EXCEPT ![m] = "insert"]
    /\ UNCHANGED <<db, retrying, attempted, trigger, manager, locals, subId,
                   remote, history>>

\* All recipients are queued: a non-blocking send on triggerCh, return nil.
QueueForReturn(m) ==
    /\ subPc[m] = "insert"
    /\ subNext[m] > Len(Rcpts[m])
    /\ trigger' = TRUE
    /\ subPc' = [subPc EXCEPT ![m] = "done"]
    /\ UNCHANGED <<db, mem, manager, pc, locals, subId, subNext, remote,
                   history>>

-----------------------------------------------------------------------------
(* Queues.manager.                                                         *)

\* QueueListDestinations; an error returns before AfterFunc is called again.
ManagerList ==
    /\ mgr = "timer"
    /\ \/ mgr' = "scan" /\ mgrTodo' = {d \in Dest : \E i \in Ids : <<d, i>> \in queue}
       \/ StorageFault /\ mgr' = "dead" /\ UNCHANGED mgrTodo
    /\ UNCHANGED <<db, mem, trigger, pc, locals, submit, remote, history>>

ManagerSpawn ==
    /\ mgr = "scan"
    /\ \E d \in mgrTodo :
         /\ queueFor(d)
         /\ mgrTodo' = mgrTodo \ {d}
    /\ UNCHANGED <<db, retrying, attempted, trigger, mgr, locals, submit,
                   remote, history>>

\* Mutant: the timer is not set again.
ManagerStops ==
    /\ mgr = "scan" /\ mgrTodo = {}
    /\ mgr' = "dead"
    /\ UNCHANGED <<db, mem, trigger, mgrTodo, pc, locals, submit, remote,
                   history>>

ManagerReschedule ==
    /\ mgr = "scan" /\ mgrTodo = {}
    /\ mgr' = "timer"
    /\ UNCHANGED <<db, mem, trigger, mgrTodo, pc, locals, submit, remote,
                   history>>

\* ResetRetryCounters writes the counters without synchronisation: for a
\* destination whose goroutine is running the write may be lost to the race.
ResetRetryCounters ==
    /\ "reset" \in Events
    /\ \E lost \in SUBSET {d \in Dest : running[d]} :
         /\ retrying' = [d \in Dest |-> d \in lost /\ retrying[d]]
         /\ attempted' = [d \in Dest |-> d \in lost /\ attempted[d]]
         /\ failed' = {r \in failed : r[1] \in lost}
    /\ trigger' = TRUE
    /\ UNCHANGED <<db, running, manager, pc, locals, submit, remote, queued,
                   concluded>>

-----------------------------------------------------------------------------
(* Queue.run, one step per storage call or network exchange.               *)

Goto(w, l) == pc' = [pc EXCEPT ![w] = l]

ClearLocals(w) ==
    /\ cur' = [cur EXCEPT ![w] = 0]
    /\ snap' = [snap EXCEPT ![w] = NoMsg]
    /\ res' = [res EXCEPT ![w] = "none"]

\* `continue', or the end of the loop body: the locals of this ref are gone.
NextRef(w) == Goto(w, "loop") /\ ClearLocals(w)

\* retryCount++: an int that only failed attempts raise never gets back to 0.
Increment(d) == retrying' = [retrying EXCEPT ![d] = TRUE]

ClearRetry(d) == retrying' = [retrying EXCEPT ![d] = FALSE]

\* Another attempt for a destination that failed before sleeps first.
RunStart(w) ==
    /\ pc[w] = "start"
    /\ IF attempted[w[1]] /\ retrying[w[1]]
         THEN Goto(w, "sleep") /\ UNCHANGED attempted
         ELSE Goto(w, "fetch") /\ attempted' = [attempted EXCEPT ![w[1]] = TRUE]
    /\ UNCHANGED <<db, running, retrying, locals, remote, history, outer>>

\* time.Sleep(remaining) returns; lastAttempt = time.Now().
RunWake(w) ==
    /\ pc[w] = "sleep"
    /\ Goto(w, "fetch")
    /\ attempted' = [attempted EXCEPT ![w[1]] = TRUE]
    /\ UNCHANGED <<db, running, retrying, locals, remote, history, outer>>

\* QueueMailIDsForDestination: the refs of this run are fixed here.
RunFetch(w) ==
    /\ pc[w] = "fetch"
    /\ \/ /\ refs' = [refs EXCEPT ![w] = QueueMailIDsForDestination(w[1])]
          /\ Goto(w, "loop")
          /\ UNCHANGED retrying
       \/ /\ StorageFault
          /\ Increment(w[1])
          /\ Goto(w, "expunge")
          /\ UNCHANGED refs
    /\ UNCHANGED <<db, running, attempted, cur, snap, res, remote, history,
                   outer>>

\* The refs are visited in descending order of id.
IsNextRef(w, id) == id \in refs[w] /\ \A i \in refs[w] : i <= id

\* Mutant: the row of this destination is deleted, also when MailSelect fails.
RunSkipDequeues(w) ==
    /\ pc[w] = "loop"
    /\ \E id \in Ids :
         /\ IsNextRef(w, id)
         /\ ~Present(id) \/ StorageFault
         /\ refs' = [refs EXCEPT ![w] = @ \ {id}]
         /\ QueueDeleteDestinationForID(w[1], id)
    /\ UNCHANGED <<outbox, deleted, expired, sent, mem, pc, cur, snap, res,
                   remote, queued, concluded, outer>>

\* Mutant: the error of MailSelect is not looked at.  The mail it returns is
\* empty and dates from 1970, so it is given up as undeliverable.
RunSkipEmptyMail(w) ==
    /\ pc[w] = "loop"
    /\ \E id \in Ids :
         /\ IsNextRef(w, id)
         /\ ~Present(id) \/ StorageFault
         /\ refs' = [refs EXCEPT ![w] = @ \ {id}]
         /\ cur' = [cur EXCEPT ![w] = id]
         /\ snap' = [snap EXCEPT ![w] = NoMsg]
    /\ res' = [res EXCEPT ![w] = "old"]
    /\ concluded' = concluded \cup {<<NoMsg, w[1]>>}
    /\ Goto(w, "drop")
    /\ UNCHANGED <<db, mem, remote, queued, failed, outer>>

\* MailSelect finds no row (the queue row deleted then is that of destination
\* "Outbox", which never exists) or fails: the ref is skipped.
RunSkip(w) ==
    /\ pc[w] = "loop"
    /\ \E id \in Ids :
         /\ IsNextRef(w, id)
         /\ ~Present(id) \/ StorageFault
         /\ refs' = [refs EXCEPT ![w] = @ \ {id}]
    /\ UNCHANGED <<db, mem, pc, cur, snap, res, remote, history, outer>>

\* MailSelect returns a mail; its flags, its age and the destination decide
\* what happens to it.
RunSelect(w) ==
    /\ pc[w] = "loop"
    /\ \E id \in Ids :
         /\ IsNextRef(w, id)
         /\ Present(id)
         /\ refs' = [refs EXCEPT ![w] = @ \ {id}]
         /\ cur' = [cur EXCEPT ![w] = id]
         /\ snap' = [snap EXCEPT ![w] = outbox[id]]
         /\ \/ /\ id \in deleted
               /\ Goto(w, "drop")
               /\ res' = [res EXCEPT ![w] = "user"]
               /\ UNCHANGED concluded
            \/ /\ id \notin deleted /\ id \in expired
               /\ Goto(w, "drop")
               /\ res' = [res EXCEPT ![w] = "old"]
               /\ concluded' = concluded \cup {<<outbox[id], w[1]>>}
            \/ /\ id \notin deleted /\ id \notin expired
               /\ Goto(w, IF w[1] = Self THEN "self" ELSE "dial")
               /\ UNCHANGED <<res, concluded>>
    /\ UNCHANGED <<db, mem, remote, queued, failed, outer>>

\* No ref left: the deferred calls run.
RunDone(w) ==
    /\ pc[w] = "loop"
    /\ refs[w] = {}
    /\ Goto(w, "expunge")
    /\ UNCHANGED <<db, mem, locals, remote, history, outer>>

\* A mail the user deleted, that is too old or that was refused for good:
\* drop its queue row (an error is ignored), then see who still waits for it.
DropDequeue(w) ==
    /\ pc[w] = "drop"
    /\ \/ QueueDeleteDestinationForID(w[1], cur[w])
       \/ StorageFault /\ UNCHANGED <<queue, failed>>
    /\ Goto(w, "dropPending")
    /\ UNCHANGED <<outbox, deleted, expired, sent, mem, locals, remote, queued,
                   concluded, outer>>

\* After a permanent error run() returns; otherwise it goes on.
AfterDrop(w) ==
    IF res[w] = "perm"
      THEN /\ Goto(w, "expunge")
           /\ refs' = [refs EXCEPT ![w] = {}]
           /\ ClearLocals(w)
      ELSE NextRef(w) /\ UNCHANGED refs

DropPending(w) ==
    /\ pc[w] = "dropPending"
    /\ \/ /\ ~QueueSelectIsMessagePendingSend(cur[w])
          /\ Goto(w, IF res[w] = "user" THEN "dropExpunge" ELSE "dropFlag")
          /\ UNCHANGED locals
       \/ /\ QueueSelectIsMessagePendingSend(cur[w]) \/ StorageFault
          /\ AfterDrop(w)
    /\ UNCHANGED <<db, mem, remote, history, outer>>

\* MailDelete("Outbox", id): the mail goes with the next expunge.
DropFlag(w) ==
    /\ pc[w] = "dropFlag"
    /\ MailDelete(cur[w]) \/ (StorageFault /\ UNCHANGED deleted)
    /\ AfterDrop(w)
    /\ UNCHANGED <<outbox, expired, queue, sent, mem, remote, history, outer>>

DropExpunge(w) ==
    /\ pc[w] = "dropExpunge"
    /\ MailExpunge \/ (StorageFault /\ UNCHANGED <<db, failed>>)
    /\ AfterDrop(w)
    /\ UNCHANGED <<mem, remote, queued, concluded, outer>>

Copy(m, d) ==
    delivered' = [delivered EXCEPT ![<<m, d>>] = IF @ < MaxCopies THEN @ + 1 ELSE @]

\* Mutant: deliveryErr is not looked at.
SelfDeliverUnchecked(w) ==
    /\ pc[w] = "self"
    /\ \/ /\ Copy(snap[w], w[1])
          /\ concluded' = concluded \cup {<<snap[w], w[1]>>}
       \/ StorageFault /\ UNCHANGED <<delivered, concluded>>
    /\ Goto(w, "selfDequeue")
    /\ UNCHANGED <<db, mem, locals, partial, queued, failed, outer>>

\* Loopback: MailCreate("INBOX", mail) on this node.
SelfDeliver(w) ==
    /\ pc[w] = "self"
    /\ \/ /\ Copy(snap[w], w[1])
          /\ concluded' = concluded \cup {<<snap[w], w[1]>>}
          /\ Goto(w, "selfDequeue")
          /\ UNCHANGED <<cur, snap, res, retrying, failed>>
       \/ /\ StorageFault
          /\ Increment(w[1])
          /\ failed' = (failed \cup {<<w[1], cur[w]>>}) \cap queue
          /\ NextRef(w)
          /\ UNCHANGED <<delivered, concluded>>
    /\ UNCHANGED <<db, running, attempted, refs, partial, queued, outer>>

\* Mutant: the row stays after a loopback delivery.
SelfKeepsRow(w) ==
    /\ pc[w] = "selfDequeue"
    /\ Goto(w, "selfPending")
    /\ UNCHANGED <<db, mem, locals, remote, history, outer>>

SelfDequeue(w) ==
    /\ pc[w] = "selfDequeue"
    /\ \/ QueueDeleteDestinationForID(w[1], cur[w])
       \/ StorageFault /\ UNCHANGED <<queue, failed>>
    /\ Goto(w, "selfPending")
    /\ UNCHANGED <<outbox, deleted, expired, sent, mem, locals, remote, queued,
                   concluded, outer>>

SelfPending(w) ==
    /\ pc[w] = "selfPending"
    /\ \/ /\ ~QueueSelectIsMessagePendingSend(cur[w])
          /\ Goto(w, "selfMove")
          /\ UNCHANGED <<cur, snap, res, retrying>>
       \/ /\ QueueSelectIsMessagePendingSend(cur[w]) \/ StorageFault
          /\ ClearRetry(w[1])
          /\ NextRef(w)
    /\ UNCHANGED <<db, running, attempted, refs, remote, history, outer>>

\* A move that fails after its INSERT leaves the mail in both mailboxes.
HalfMove(id) ==
    /\ sent' = sent \cup ({outbox[id]} \ {NoMsg})
    /\ UNCHANGED <<outbox, deleted, expired, queue, failed>>

\* The result of MailMove is not looked at.
SelfMove(w) ==
    /\ pc[w] = "selfMove"
    /\ \/ MailMove(cur[w])
       \/ ~Present(cur[w]) /\ UNCHANGED <<db, failed>>
       \/ StorageFault /\ UNCHANGED <<db, failed>>
       \/ StorageFault /\ HalfMove(cur[w])
    /\ ClearRetry(w[1])
    /\ NextRef(w)
    /\ UNCHANGED <<running, attempted, refs, remote, queued, concluded, outer>>

-----------------------------------------------------------------------------
(* Remote delivery.                                                        *)

\* Mutant: the row is deleted once the remote node is ready for the body.
RemoteDialDequeues(w) ==
    /\ pc[w] = "dial"
    /\ Goto(w, "data")
    /\ QueueDeleteDestinationForID(w[1], cur[w])
    /\ UNCHANGED <<outbox, deleted, expired, sent, mem, locals, remote, queued,
                   concluded, outer>>

\* Dial, HELO, MAIL FROM, RCPT TO, DATA: each may fail; the text of the error
\* decides its class.  A permanent one is the remote node's refusal.
RemoteDial(w) ==
    /\ pc[w] = "dial"
    /\ \/ Goto(w, "data") /\ UNCHANGED <<res, concluded>>
       \/ \E r \in {"net", "temp"} :
            /\ res' = [res EXCEPT ![w] = r]
            /\ Goto(w, "classify")
            /\ UNCHANGED concluded
       \/ /\ res' = [res EXCEPT ![w] = "perm"]
          /\ concluded' = concluded \cup {<<snap[w], w[1]>>}
          /\ Goto(w, "classify")
    /\ UNCHANGED <<db, mem, refs, cur, snap, remote, queued, failed, outer>>

\* Mutant: a mail that is written is moved to Sent without a look at the queue.
RemoteDataMoves(w) ==
    /\ pc[w] = "data"
    /\ Goto(w, "move")
    /\ concluded' = concluded \cup {<<snap[w], w[1]>>}
    /\ UNCHANGED <<db, mem, locals, remote, queued, failed, outer>>

\* The body is written, or reading or writing it fails half way.
RemoteData(w) ==
    /\ pc[w] = "data"
    /\ \/ /\ Goto(w, "dequeue")
          /\ concluded' = concluded \cup {<<snap[w], w[1]>>}
          /\ UNCHANGED res
       \/ /\ "cut" \in Events
          /\ \E r \in {"net", "temp"} : res' = [res EXCEPT ![w] = r]
          /\ Goto(w, "abort")
          /\ UNCHANGED concluded
    /\ UNCHANGED <<db, mem, refs, cur, snap, remote, queued, failed, outer>>

\* The deferred writer.Close() ends the truncated body with "." as well.
RemoteAbort(w) ==
    /\ pc[w] = "abort"
    /\ \/ partial' = partial \cup {<<snap[w], w[1]>>}
       \/ UNCHANGED partial
    /\ Goto(w, "classify")
    /\ UNCHANGED <<db, mem, locals, delivered, history, outer>>

\* After the last byte of the body, before the final ".".
RemoteDequeue(w) ==
    /\ pc[w] = "dequeue"
    /\ \/ /\ QueueDeleteDestinationForID(w[1], cur[w])
          /\ Goto(w, "pending")
          /\ UNCHANGED res
       \/ /\ StorageFault
          /\ res' = [res EXCEPT ![w] = "temp"]
          /\ Goto(w, "close")
          /\ UNCHANGED <<queue, failed>>
    /\ UNCHANGED <<outbox, deleted, expired, sent, mem, refs, cur, snap,
                   remote, queued, concluded, outer>>

\* Mutant: only the error of the pending check is looked at, not its result.
RemotePendingUnchecked(w) ==
    /\ pc[w] = "pending"
    /\ Goto(w, "move")
    /\ UNCHANGED <<db, mem, refs, cur, snap, res, remote, history, outer>>

RemotePending(w) ==
    /\ pc[w] = "pending"
    /\ \/ /\ ~QueueSelectIsMessagePendingSend(cur[w])
          /\ Goto(w, "move")
          /\ UNCHANGED res
       \/ /\ QueueSelectIsMessagePendingSend(cur[w])
          /\ Goto(w, "close")
          /\ res' = [res EXCEPT ![w] = "ok"]
       \/ /\ StorageFault
          /\ Goto(w, "close")
          /\ res' = [res EXCEPT ![w] = "temp"]
    /\ UNCHANGED <<db, mem, refs, cur, snap, remote, history, outer>>

RemoteMove(w) ==
    /\ pc[w] = "move"
    /\ \/ MailMove(cur[w]) /\ res' = [res EXCEPT ![w] = "ok"]
       \/ /\ ~Present(cur[w]) \/ StorageFault
          /\ UNCHANGED <<db, failed>>
          /\ res' = [res EXCEPT ![w] = "temp"]
       \/ StorageFault /\ HalfMove(cur[w]) /\ res' = [res EXCEPT ![w] = "temp"]
    /\ Goto(w, "close")
    /\ UNCHANGED <<mem, refs, cur, snap, remote, queued, concluded, outer>>

\* The deferred writer.Close(): the final "." and the remote node's answer,
\* which nobody looks at.
RemoteClose(w) ==
    /\ pc[w] = "close"
    /\ Copy(snap[w], w[1]) \/ UNCHANGED delivered
    /\ Goto(w, "classify")
    /\ UNCHANGED <<db, mem, locals, partial, history, outer>>

\* The error of the exchange is classified.
RemoteClassify(w) ==
    /\ pc[w] = "classify"
    /\ \/ /\ res[w] = "ok"
          /\ ClearRetry(w[1])
          /\ NextRef(w)
          /\ UNCHANGED failed
       \/ /\ res[w] \in {"net", "temp"}
          /\ Increment(w[1])
          /\ failed' = (failed \cup {<<w[1], cur[w]>>}) \cap queue
          /\ NextRef(w)
       \/ /\ res[w] = "perm"
          /\ Goto(w, "drop")
          /\ UNCHANGED <<cur, snap, res, retrying, failed>>
    /\ UNCHANGED <<db, running, attempted, refs, remote, queued, concluded,
                   outer>>

-----------------------------------------------------------------------------
(* The deferred calls of run(): the Outbox is expunged, then running is    *)
(* cleared.                                                                *)

\* Mutant: no expunge at the end of a run.
RunExpungeForgotten(w) ==
    /\ pc[w] = "expunge"
    /\ Goto(w, "stop")
    /\ UNCHANGED <<db, mem, locals, remote, history, outer>>

RunExpunge(w) ==
    /\ pc[w] = "expunge"
    /\ MailExpunge \/ (StorageFault /\ UNCHANGED <<db, failed>>)
    /\ Goto(w, "stop")
    /\ UNCHANGED <<mem, locals, remote, queued, concluded, outer>>

\* Mutant: running stays set when the goroutine ends.
RunStopForgotten(w) ==
    /\ pc[w] = "stop"
    /\ Goto(w, "idle")
    /\ UNCHANGED <<db, mem, locals, remote, history, outer>>

RunStop(w) ==
    /\ pc[w] = "stop"
    /\ running' = [running EXCEPT ![w[1]] = FALSE]
    /\ Goto(w, "idle")
    /\ UNCHANGED <<db, retrying, attempted, locals, remote, history, outer>>

-----------------------------------------------------------------------------
(* The environment.                                                        *)

\* A mail of the Outbox becomes older than seven days.
Expire ==
    /\ "expire" \in Events
    /\ \E id \in Ids :
         /\ Present(id) /\ id \notin expired
         /\ expired' = expired \cup {id}
    /\ UNCHANGED <<outbox, deleted, queue, sent, mem, pc, locals, remote,
                   history, outer>>

\* A mail client flags a mail of the Outbox as deleted.
UserDelete ==
    /\ "user" \in Events
    /\ \E id \in Ids :
         /\ Present(id) /\ id \notin deleted
         /\ MailDelete(id)
         /\ concluded' = concluded \cup ({outbox[id]} \X Dest)
    /\ UNCHANGED <<outbox, expired, queue, sent, mem, pc, locals, remote,
                   queued, failed, outer>>

\* A mail client expunges the Outbox.
UserExpunge ==
    /\ "user" \in Events
    /\ deleted # {}
    /\ MailExpunge
    /\ UNCHANGED <<mem, pc, locals, remote, queued, concluded, outer>>

\* The process dies and is started again with a new Queues object: what is in
\* memory is gone.  A move under way may have done its INSERT.
Crash ==
    /\ "crash" \in Events
    /\ \/ UNCHANGED sent
       \/ \E w \in Worker :
            /\ pc[w] \in {"move", "selfMove"} /\ Present(cur[w])
            /\ sent' = sent \cup {outbox[cur[w]]}
    /\ running' = [d \in Dest |-> FALSE]
    /\ retrying' = [d \in Dest |-> FALSE]
    /\ attempted' = [d \in Dest |-> FALSE]
    /\ trigger' = FALSE
    /\ mgr' = "timer" /\ mgrTodo' = {}
    /\ pc' = [w \in Worker |-> "idle"]
    /\ refs' = [w \in Worker |-> {}]
    /\ cur' = [w \in Worker |-> 0]
    /\ snap' = [w \in Worker |-> NoMsg]
    /\ res' = [w \in Worker |-> "none"]
    /\ subPc' = [m \in Msg |-> IF subPc[m] \in {"insert", "spawn"} THEN "failed"
                                                                  ELSE subPc[m]]
    /\ failed' = {}
    /\ UNCHANGED <<outbox, deleted, expired, queue, subId, subNext, remote,
                   queued, concluded>>

-----------------------------------------------------------------------------
Submit(m) ==
    \/ QueueForCreate(m) \/ QueueForBadAddress(m) \/ QueueForInsert(m)
    \/ QueueForSpawn(m) \/ QueueForReturn(m)

Manager == ManagerList \/ ManagerSpawn \/ ManagerReschedule

Run(w) ==
    \/ RunStart(w) \/ RunWake(w) \/ RunFetch(w) \/ RunSkip(w) \/ RunSelect(w)
    \/ RunDone(w) \/ DropDequeue(w) \/ DropPending(w) \/ DropFlag(w)
    \/ DropExpunge(w) \/ SelfDeliver(w) \/ SelfDequeue(w) \/ SelfPending(w)
    \/ SelfMove(w) \/ RemoteDial(w) \/ RemoteData(w) \/ RemoteAbort(w)
    \/ RemoteDequeue(w) \/ RemotePending(w) \/ RemoteMove(w) \/ RemoteClose(w)
    \/ RemoteClassify(w) \/ RunExpunge(w) \/ RunStop(w)

Environment == ResetRetryCounters \/ Expire \/ UserDelete \/ UserExpunge \/ Crash

Next ==
    \/ \E m \in Msg : Submit(m)
    \/ Manager
    \/ \E w \in Worker : Run(w)
    \/ Environment

Spec == Init /\ [][Next]_vars

\* Goroutines and timers are scheduled, a call of QueueFor that stored its
\* mail goes on, and time passes.  Nothing is assumed of mail clients, of the
\* network or of the remote node.
Fairness ==
    /\ \A w \in Worker : WF_vars(Run(w))
    /\ WF_vars(Manager)
    /\ \A m \in Msg : WF_vars(subPc[m] # "new" /\ Submit(m))
    /\ WF_vars(Expire)

FairSpec == Spec /\ Fairness

-----------------------------------------------------------------------------
(* Properties.                                                             *)

Active(w) == pc[w] # "idle"

\* Queue.running is set exactly while a goroutine run() exists for the
\* destination, and there is never a second one: the counters of Queue and
\* the refs a run holds have one owner.
SingleRunner ==
    \A d \in Dest :
      /\ running[d] <=> \E g \in Gen : Active(<<d, g>>)
      /\ \A g, h \in Gen : Active(<<d, g>>) /\ Active(<<d, h>>) => g = h

\* A recipient that was queued keeps its row, on the very mail it was queued
\* for, until the mail has been written to the recipient's node, refused by
\* it, has expired or was deleted by the user: neither an error of a storage
\* call, nor a crash, nor the reuse of ids loses it.
NoMailLost ==
    \A p \in queued \ concluded :
      \E id \in Ids : outbox[id] = p[1] /\ <<p[2], id>> \in queue

\* A run decides to move a mail to Sent only when every recipient that was
\* queued for it so far is settled.  (Between this decision and the move a
\* submitter may queue a further one, so the state property "a mail in Sent
\* has no recipient left to serve" is false of the code.)
MovesOnlySettled ==
    [][\A w \in Worker, m \in Msg, d \in Dest :
         /\ pc[w] \notin {"move", "selfMove"} /\ pc'[w] \in {"move", "selfMove"}
         /\ cur[w] \in Ids /\ outbox[cur[w]] = m
         /\ <<m, d>> \in queued
         => <<m, d>> \in concluded]_vars

\* A node receives only mails that were addressed to it: the id a run or a
\* submitter holds still denotes the mail it was read for.
RightRecipient ==
    \A m \in Msg, d \in Dest :
      (delivered[<<m, d>>] > 0 \/ <<m, d>> \in partial)
        => \E k \in 1..Len(Rcpts[m]) : Rcpts[m][k] = d

\* Without storage errors and crashes nobody gets a mail twice, however runs,
\* submitters and the manager interleave.  (It fails when a submitter inserts
\* the row of a second recipient on an id that was reused for a mail to the
\* same node, see RightRecipient.)
NoDuplicateCopy == \A p \in Msg \X Dest : delivered[p] <= 1

\* A mail in Sent was accepted by the nodes of all its recipients, once the
\* exchange that sent it is over.
SentWasAccepted ==
    \A m \in sent :
      (\A w \in Worker : snap[w] # m)
        => \A k \in 1..Len(Rcpts[m]) : delivered[<<m, Rcpts[m][k]>>] > 0

\* Every mail accepted from a submitter leaves the Outbox in the end.
OutboxDrains ==
    \A m \in Msg :
      subPc[m] = "done" ~> \A id \in Ids : outbox[id] # m

\* A row whose attempt failed is tried again, unless it is gone by then.
RetriedEventually ==
    \A d \in Dest, id \in Ids :
      <<d, id>> \in failed
        ~> (<<d, id>> \notin failed \/ \E g \in Gen : pc[<<d, g>>] = "start")

\* A mail flagged as deleted, by a mail client or because nobody can receive
\* it, does not stay in the Outbox.
DeletedMailGoes == \A id \in Ids : id \in deleted ~> id \notin deleted

=============================================================================
