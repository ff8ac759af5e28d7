------------------------ MODULE LargeMailStoreProofs ------------------------
(***************************************************************************)
(* What holds of rows and files for any mailboxes, mails, ids and faults:  *)
(* their types; and, unless operations on one mailbox overlap, that a file *)
(* is named after its row and holds its mail, and that no content is lost. *)
(***************************************************************************)
EXTENDS LargeMailStore, TLAPS

\* What types need: a move has a row to move.
TypeInv == TypeOK /\ (task.op \in {"insert", "delete"} => Present(task.from))

-----------------------------------------------------------------------------
(* The operators of the model.                                             *)

\* The fields of a task that moves a mail.
LEMMA TaskFields ==
    ASSUME CallType
    PROVE  /\ task.op \in {"none", "expunge", "insert", "delete"}
           /\ task.op = "none" <=> task = NoTask
           /\ task.op \in {"insert", "delete"} =>
                /\ task.from \in Slot /\ task.to \in Box
                /\ task.path \in Slot \cup {NoPath}
                /\ task = Move(task.op, task.from, task.to, task.path)
                /\ task.boxes = {task.from[1], task.to}
                /\ [task EXCEPT !.op = "delete"]
                     = Move("delete", task.from, task.to, task.path)
<1>1. CASE task \in {NoTask, Expunge}
  BY <1>1 DEF NoTask, Expunge
<1>2. ASSUME NEW op \in {"insert", "delete"}, NEW s \in Slot, NEW b \in Box,
             NEW path \in Slot \cup {NoPath}, task = Move(op, s, b, path)
      PROVE  /\ task.op = op /\ task.from = s /\ task.to = b /\ task.path = path
             /\ task.boxes = {s[1], b} /\ task # NoTask
             /\ [task EXCEPT !.op = "delete"] = Move("delete", s, b, path)
  BY <1>2 DEF Move, NoTask
<1>3. QED
  BY <1>1, <1>2 DEF CallType, Tasks

LEMMA TaskTypes ==
    /\ NoTask \in Tasks /\ Expunge \in Tasks
    /\ \A op \in {"insert", "delete"}, s \in Slot, b \in Box,
          path \in Slot \cup {NoPath} : Move(op, s, b, path) \in Tasks
  BY DEF Tasks

\* The four ways the tables and the directory change keep their types.
LEMMA InsertRowType ==
    ASSUME RowType, NEW s \in Slot, NEW m \in Msg, NEW path \in Slot \cup {NoPath},
           InsertRow(s, m, path), deleted' \subseteq deleted \cup {s}
    PROVE  RowType'
  BY StoreAssumption DEF RowType, InsertRow, Present

LEMMA RemoveRowsType ==
    ASSUME RowType, NEW S, RemoveRows(S)
    PROVE  RowType'
<1> USE DEF RowType, RemoveRows, Present
<1>1. mail' \in [Slot -> Msg \cup {NoMsg}]
  OBVIOUS
<1>2. mailFile' \in [Slot -> Slot \cup {NoPath}]
  OBVIOUS
<1>3. \A s \in Slot : mailFile'[s] # NoPath => mail'[s] # NoMsg
  OBVIOUS
<1>4. deleted' \subseteq {s \in Slot : mail'[s] # NoMsg}
  OBVIOUS
<1>5. QED
  BY <1>1, <1>2, <1>3, <1>4

LEMMA DeleteFilesType ==
    ASSUME FileType, NEW P, DeleteFiles(P)
    PROVE  FileType'
  BY DEF FileType, DeleteFiles

LEMMA MoveMailType ==
    ASSUME FileType, NEW p \in Slot, NEW q \in Slot, MoveMail(p, q)
    PROVE  FileType'
  BY DEF FileType, MoveMail

LEMMA FaultType ==
    ASSUME HistoryType, NEW event, Fault(event)
    PROVE  faults' \in 0..MaxFaults
  BY StoreAssumption DEF HistoryType, Fault

-----------------------------------------------------------------------------
(* Types.                                                                  *)

LEMMA TypeInit == Init => TypeInv
<1> SUFFICES ASSUME Init PROVE TypeInv
  OBVIOUS
<1> USE StoreAssumption DEF Init
<1>1. RowType
  BY DEF RowType
<1>2. FileType
  BY DEF FileType
<1>3. CallType
  BY TaskTypes DEF CallType, Ids
<1>4. MigrateType /\ HistoryType
  BY DEF MigrateType, HistoryType
<1>5. QED
  BY <1>1, <1>2, <1>3, <1>4 DEF TypeInv, TypeOK, NoTask

LEMMA TypeCreate ==
    ASSUME TypeInv, NEW m \in Msg,
           MailCreate(m) \/ StreamNextID(m) \/ StreamStore(m) \/ StreamInsert(m)
    PROVE  TypeInv'
<1> USE StoreAssumption DEF TypeInv, TypeOK
<1>1. CASE MailCreate(m)
  <2> task = NoTask /\ UNCHANGED <<deleted, files, box, nextID, task, migration, history>>
    BY <1>1 DEF MailCreate, WriterFree
  <2>1. RowType' /\ pc' \in [Msg -> {"new", "named", "stored", "done", "failed"}]
    <3>1. ASSUME NEW b \in Box, NEW id \in Ids, InsertRow(<<b, id>>, m, NoPath)
          PROVE  RowType'
      BY <3>1, InsertRowType DEF Slot
    <3>2. ASSUME UNCHANGED <<mail, mailFile>> PROVE RowType'
      <4>1. UNCHANGED <<mail, mailFile, deleted>>
        BY <3>2
      <4>2. QED
        BY <4>1 DEF RowType, Present
    <3>3. QED
      BY <1>1, <3>1, <3>2 DEF MailCreate, CallType
  <2>2. faults' \in 0..MaxFaults
    BY <1>1, FaultType DEF MailCreate, StorageFault, Works, HistoryType
  <2>3. QED
    BY <2>1, <2>2 DEF FileType, CallType, MigrateType, HistoryType, migration,
       history, NoTask
<1>2. CASE StreamNextID(m)
  BY <1>2 DEF StreamNextID, RowType, Present, FileType, CallType, MigrateType,
     HistoryType, rows, migration, history
<1>3. CASE StreamStore(m)
  <2> UNCHANGED <<rows, task, migration, history>>
    BY <1>3 DEF StreamStore
  <2>1. FileType'
    BY <1>3 DEF StreamStore, FileType
  <2>2. CallType'
    BY <1>3 DEF StreamStore, CallType, Return, Ids
  <2>3. faults' \in 0..MaxFaults
    BY <1>3, FaultType DEF StreamStore, StorageFault, Works, HistoryType
  <2>4. QED
    BY <2>1, <2>2, <2>3 DEF RowType, Present, MigrateType, HistoryType, rows,
       migration, history
<1>4. CASE StreamInsert(m)
  <2> DEFINE path == <<box[m], nextID[m]>>
  <2> task = NoTask /\ UNCHANGED <<deleted, task, migration, history>>
    BY <1>4 DEF StreamInsert, WriterFree
  <2> path \in Slot /\ box[m] \in Box
    BY DEF CallType, Slot
  <2>1. RowType'
    <3>1. ASSUME NEW id \in Ids, InsertRow(<<box[m], id>>, m, path)
          PROVE  RowType'
      BY <3>1, InsertRowType DEF Slot
    <3>2. ASSUME UNCHANGED <<mail, mailFile>> PROVE RowType'
      <4>1. UNCHANGED <<mail, mailFile, deleted>>
        BY <3>2
      <4>2. QED
        BY <4>1 DEF RowType, Present
    <3>3. QED
      BY <1>4, <3>1, <3>2 DEF StreamInsert
  <2>2. FileType'
    BY <1>4, DeleteFilesType DEF StreamInsert, FileType
  <2>3. CallType'
    <3>1. task' = task /\ \E result \in {"done", "failed"} : Return(m, result)
      BY <1>4 DEF StreamInsert
    <3>2. QED
      BY <3>1 DEF CallType, Return, Ids
  <2>4. faults' \in 0..MaxFaults
    BY <1>4, FaultType DEF StreamInsert, StorageFault, Works, HistoryType
  <2>5. QED
    BY <2>1, <2>2, <2>3, <2>4 DEF MigrateType, HistoryType, migration, history, NoTask
<1>5. QED
  BY <1>1, <1>2, <1>3, <1>4

\* The steps that flag, remove or move rows.
LEMMA TypeRows ==
    ASSUME TypeInv,
           \/ MailUpdateFlags \/ MailExpunge \/ ExpungeFiles \/ ExpungeRows
           \/ MoveFile \/ MoveInsert \/ MoveDelete
    PROVE  TypeInv'
<1> USE StoreAssumption DEF TypeInv, TypeOK
<1>1. CASE MailUpdateFlags
  BY <1>1 DEF MailUpdateFlags, WriterFree, RowType, Present, FileType, CallType,
     MigrateType, HistoryType, stream, migration, NoTask
<1>2. CASE MailExpunge
  <2>1. RowType'
    BY <1>2, RemoveRowsType DEF MailExpunge
  <2>2. QED
    BY <1>2, <2>1 DEF MailExpunge, WriterFree, FileType, CallType, MigrateType,
       HistoryType, stream, migration, history, NoTask
<1>3. CASE ExpungeFiles
  <2>1. FileType'
    BY <1>3, DeleteFilesType DEF ExpungeFiles
  <2>2. faults' \in 0..MaxFaults
    BY <1>3, FaultType DEF ExpungeFiles, StorageFault, Works, HistoryType
  <2>3. task' = Expunge /\ UNCHANGED <<rows, stream, migration, history>>
    BY <1>3 DEF ExpungeFiles
  <2>4. QED
    BY <2>1, <2>2, <2>3, TaskTypes DEF RowType, Present, CallType, MigrateType,
       HistoryType, rows, stream, migration, history, Expunge
<1>4. CASE ExpungeRows \/ MoveDelete
  <2>1. RowType'
    BY <1>4, RemoveRowsType DEF ExpungeRows, MoveDelete, RowType, Present, rows
  <2>2. faults' \in 0..MaxFaults
    BY <1>4, FaultType DEF ExpungeRows, MoveDelete, StorageFault, Works, HistoryType
  <2>3. task' = NoTask /\ UNCHANGED <<files, stream, migration, history>>
    BY <1>4 DEF ExpungeRows, MoveDelete
  <2>4. QED
    BY <2>1, <2>2, <2>3, TaskTypes DEF FileType, CallType, MigrateType,
       HistoryType, stream, migration, history, NoTask
<1>5. CASE MoveFile
  <2> UNCHANGED <<rows, stream, migration, history, faults>>
    BY <1>5 DEF MoveFile
  <2>1. PICK s \in Slot :
           \/ /\ s[1] = Outbox /\ mailFile[s] # NoPath
              /\ \E id \in Ids : /\ MoveMail(mailFile[s], <<Sent, id>>)
                                 /\ task' = Move("insert", s, Sent, <<Sent, id>>)
           \/ /\ Present(s) /\ UNCHANGED files
              /\ \E b \in Box : task' = Move("insert", s, b, NoPath)
    BY <1>5 DEF MoveFile
  <2>2. Present(s)
    BY <2>1 DEF RowType
  <2>3. FileType'
    BY <2>1, MoveMailType DEF FileType, RowType, Slot
  <2>4. \E b \in Box, path \in Slot \cup {NoPath} : task' = Move("insert", s, b, path)
    BY <2>1 DEF Slot
  <2>. task' \in Tasks /\ task'.from = s
    BY <2>4, TaskTypes DEF Move
  <2>5. QED
    BY <2>2, <2>3, <2>4 DEF RowType, Present, CallType, MigrateType, HistoryType,
       rows, stream, migration, history
<1>6. CASE MoveInsert
  <2> task.op = "insert" /\ Present(task.from)
    BY <1>6 DEF MoveInsert
  <2> USE TaskFields
  <2> UNCHANGED <<stream, migration, everFlagged>>
    BY <1>6 DEF MoveInsert
  <2>1. CASE MoveInserts(task.path) /\ Works /\ UNCHANGED <<files, stranded>>
    <3>1. PICK id \in Ids :
             /\ InsertRow(<<task.to, id>>, mail[task.from], task.path)
             /\ deleted' \subseteq deleted \cup {<<task.to, id>>}
      BY <2>1 DEF MoveInserts
    <3>2. mail[task.from] \in Msg
      BY DEF RowType, Present
    <3>3. RowType'
      BY <3>1, <3>2, InsertRowType DEF Slot
    <3>4. task' = Move("delete", task.from, task.to, task.path)
      BY <2>1 DEF MoveInserts
    <3>5. mail'[task.from] # NoMsg
      BY <3>1, <3>2 DEF InsertRow, RowType, Present
    <3>6. task' \in Tasks /\ task'.from = task.from
      BY <3>4, TaskTypes DEF Move
    <3>7. QED
      BY <2>1, <3>3, <3>5, <3>6 DEF Present, Works, FileType, CallType, MigrateType,
         HistoryType, stream, migration
  <2>2. CASE ~(MoveInserts(task.path) /\ Works /\ UNCHANGED <<files, stranded>>)
    <3>1. StorageFault /\ task' = NoTask /\ UNCHANGED rows
      BY <1>6, <2>2 DEF MoveInsert
    <3>2. FileType'
      BY <1>6, <2>2, MoveMailType DEF MoveInsert, FileType
    <3>3. stranded' \in SUBSET Msg
      BY <1>6, <2>2 DEF MoveInsert, RowType, Present, HistoryType
    <3>4. faults' \in 0..MaxFaults
      BY <3>1, FaultType DEF StorageFault
    <3>5. QED
      BY <3>1, <3>2, <3>3, <3>4, TaskTypes DEF RowType, Present, CallType,
         MigrateType, HistoryType, rows, stream, migration, NoTask
  <2>3. QED
    BY <2>1, <2>2
<1>7. QED
  BY <1>1, <1>2, <1>3, <1>4, <1>5, <1>6

LEMMA TypeMigrate ==
    ASSUME TypeInv, MigrateQuery \/ MigrateStore \/ MigrateUpdate \/ MigrateDone
    PROVE  TypeInv'
<1> USE StoreAssumption DEF TypeInv, TypeOK
<1>1. CASE MigrateQuery
  BY <1>1 DEF MigrateQuery, RowType, Present, FileType, CallType, MigrateType,
     HistoryType, rows, stream, history
<1>2. CASE MigrateStore
  <2>1. FileType' /\ MigrateType'
    BY <1>2 DEF MigrateStore, FileType, MigrateType
  <2>2. faults' \in 0..MaxFaults
    BY <1>2, FaultType DEF MigrateStore, StorageFault, Works, HistoryType
  <2>3. QED
    BY <1>2, <2>1, <2>2 DEF MigrateStore, RowType, Present, CallType, HistoryType,
       rows, stream, history
<1>3. CASE MigrateUpdate
  <2> UNCHANGED <<mail, deleted, stream, task, mgTodo, history>>
    BY <1>3 DEF MigrateUpdate
  <2>1. RowType'
    <3>1. CASE UNCHANGED mailFile
      BY <3>1 DEF RowType, Present
    <3>2. CASE mailFile' = [mailFile EXCEPT ![mgRow[1]] =
                              IF Present(mgRow[1]) THEN mgRow[1] ELSE NoPath]
      <4>1. \A s \in Slot : mailFile'[s] = IF s = mgRow[1]
                                           THEN IF Present(s) THEN s ELSE NoPath
                                           ELSE mailFile[s]
        BY <3>2 DEF RowType
      <4>2. DOMAIN mailFile' = Slot /\ mailFile' = [s \in Slot |-> mailFile'[s]]
        BY <3>2 DEF RowType
      <4>3. \A s \in Slot : /\ mailFile'[s] \in Slot \cup {NoPath}
                            /\ mailFile'[s] # NoPath => Present(s)
        BY <4>1 DEF RowType
      <4>4. QED
        BY <4>2, <4>3 DEF RowType, Present
    <3>3. QED
      BY <1>3, <3>1, <3>2 DEF MigrateUpdate
  <2>2. FileType'
    BY <1>3, DeleteFilesType DEF MigrateUpdate, FileType
  <2>3. MigrateType' /\ faults' \in 0..MaxFaults
    BY <1>3, FaultType DEF MigrateUpdate, MigrateType, StorageFault, Works, HistoryType
  <2>4. QED
    BY <2>1, <2>2, <2>3 DEF Present, CallType, HistoryType, stream, history
<1>4. CASE MigrateDone
  BY <1>4 DEF MigrateDone, RowType, Present, FileType, CallType, MigrateType,
     HistoryType, rows, stream, history
<1>5. QED
  BY <1>1, <1>2, <1>3, <1>4

LEMMA TypeCrash == ASSUME TypeInv, Crash PROVE TypeInv'
<1> USE StoreAssumption DEF TypeInv, TypeOK
<1>1. CallType'
  BY TaskTypes DEF Crash, CallType, Ids
<1>2. stranded' \in SUBSET Msg
  BY TaskFields DEF Crash, RowType, Present, HistoryType
<1>3. faults' \in 0..MaxFaults
  BY FaultType DEF Crash
<1>4. QED
  BY <1>1, <1>2, <1>3 DEF Crash, RowType, Present, FileType, MigrateType,
     HistoryType, rows, NoTask

LEMMA TypeStutter == ASSUME TypeInv, UNCHANGED vars PROVE TypeInv'
  BY DEF TypeInv, TypeOK, RowType, FileType, CallType, MigrateType, HistoryType,
     Present, vars, rows, stream, migration, history

LEMMA TypeInvariant == Spec => []TypeInv
<1>1. TypeInv /\ [Next]_vars => TypeInv'
  <2> SUFFICES ASSUME TypeInv, [Next]_vars PROVE TypeInv'
    OBVIOUS
  <2>1. QED
    BY TypeCreate, TypeRows, TypeMigrate, TypeCrash, TypeStutter DEF Next
<1>2. QED
  BY TypeInit, <1>1, PTL DEF Spec

\* Whatever the interleaving, the rows, the files, the calls in flight, the
\* task of the Writer and the migration keep their shape; a row that is gone
\* has no flag and names no file (RemoveRows clears all its columns).
THEOREM TypeCorrect == Spec => []TypeOK
  BY TypeInvariant, PTL DEF TypeInv
-----------------------------------------------------------------------------
(* Who works on which mailbox, and what each of them relies on.            *)

Streaming == {m \in Msg : pc[m] \in {"named", "stored"}}
Migrating == mgTodo \cup ({mgRow} \ {NoRow})

\* No two operations of several steps work on the same mailbox.
LockOK ==
    /\ \A m, n \in Streaming : box[m] = box[n] => m = n
    /\ \A m \in Streaming : box[m] \notin task.boxes
    /\ \A r \in Migrating :
         r[1][1] \notin task.boxes /\ \A m \in Streaming : r[1][1] # box[m]

\* The number a stream has read is still the next one; its file is there.
StreamOK(m) ==
    /\ IsNextID(box[m], nextID[m])
    /\ pc[m] = "stored" => files[<<box[m], nextID[m]>>] = m

\* So is the one a move has read; the file is that of the row to be moved.
MoveOK ==
    task.op = "insert" /\ task.path # NoPath =>
      /\ task.path[1] = task.to /\ IsNextID(task.to, task.path[2])
      /\ mailFile[task.from] # NoPath
      /\ files[task.path] = mail[task.from]

\* The rows the migration knows are as it has read them.
AsRead(r) == mail[r[1]] = r[2] /\ mailFile[r[1]] = NoPath

MigrateOK ==
    /\ mgPc \in {"start", "done"} => mgTodo = {}
    /\ mgPc = "update" <=> mgRow # NoRow
    /\ mgRow \notin mgTodo
    /\ \A r \in Migrating : AsRead(r)
    /\ mgPc = "update" => files[mgRow[1]] = mgRow[2]

\* The file of a row has its number, and its content if it is there.
RowOK(s) ==
    mailFile[s] # NoPath => mailFile[s] = s /\ files[s] \in {mail[s], NoMsg}

FileInv ==
    /\ LockOK /\ MoveOK /\ MigrateOK
    /\ \A m \in Streaming : StreamOK(m)
    /\ \A s \in Slot : RowOK(s)

-----------------------------------------------------------------------------
(* Rows and files change in the mailboxes of the operation that runs.      *)

\* Operations on one mailbox exclude each other.
Exclusive == "overlap" \notin Events

\* A mailbox an operation may start on is nobody else's.
LEMMA Free ==
    ASSUME Exclusive, NEW B, MayStart(B)
    PROVE  /\ B \cap task.boxes = {}
           /\ \A m \in Streaming : box[m] \notin B
           /\ \A r \in Migrating : r[1][1] \notin B
  BY DEF Exclusive, MayStart, Busy, Streaming, Migrating

\* MAX(id)+1 is one number, and no row has it.
LEMMA NextIdUnique ==
    ASSUME TypeInv, NEW b \in Box, NEW i \in Ids, NEW j \in Ids,
           IsNextID(b, i), IsNextID(b, j)
    PROVE  i = j
  BY StoreAssumption DEF IsNextID, Ids

LEMMA NextIdAbsent ==
    ASSUME NEW b \in Box, NEW i \in Ids, IsNextID(b, i)
    PROVE  ~Present(<<b, i>>)
  BY StoreAssumption DEF IsNextID, Ids

ChangesOnly(B) ==
    \A s \in Slot : s[1] \notin B => /\ mail'[s] = mail[s]
                                     /\ mailFile'[s] = mailFile[s]
                                     /\ files'[s] = files[s]

LEMMA NextIdFrame ==
    ASSUME NEW B, ChangesOnly(B), NEW b \in Box \ B, NEW i \in Ids, IsNextID(b, i)
    PROVE  IsNextID(b, i)'
  BY StoreAssumption DEF ChangesOnly, IsNextID, Present, Slot

\* What happens in other mailboxes takes nothing away that an operation
\* relies on.
LEMMA Frame ==
    ASSUME TypeInv, FileInv, NEW B, ChangesOnly(B)
    PROVE  /\ \A m \in Streaming :
                 /\ box[m] \notin B
                 /\ pc'[m] = pc[m] /\ box'[m] = box[m] /\ nextID'[m] = nextID[m]
                 => StreamOK(m)'
           /\ task.boxes \cap B = {} /\ UNCHANGED task => MoveOK'
           /\ \A r \in Migrating : r[1][1] \notin B =>
                 AsRead(r)' /\ files'[r[1]] = files[r[1]]
           /\ \A s \in Slot : s[1] \notin B => RowOK(s)'
<1> USE StoreAssumption DEF TypeInv, TypeOK, FileInv
<1>1. ASSUME NEW m \in Streaming, box[m] \notin B,
             pc'[m] = pc[m], box'[m] = box[m], nextID'[m] = nextID[m]
      PROVE  StreamOK(m)'
  <2>1. box[m] \in Box \ B /\ nextID[m] \in Ids /\ <<box[m], nextID[m]>> \in Slot
    BY <1>1 DEF CallType, Streaming, Slot
  <2>2. IsNextID(box[m], nextID[m])'
    BY <1>1, <2>1, NextIdFrame DEF StreamOK
  <2>3. files'[<<box[m], nextID[m]>>] = files[<<box[m], nextID[m]>>]
    BY <1>1, <2>1 DEF ChangesOnly
  <2>4. QED
    BY <1>1, <2>2, <2>3 DEF StreamOK
<1>2. ASSUME task.boxes \cap B = {}, UNCHANGED task PROVE MoveOK'
  <2> SUFFICES ASSUME task.op = "insert", task.path # NoPath
               PROVE  /\ task.path[1] = task.to /\ IsNextID(task.to, task.path[2])'
                      /\ mailFile'[task.from] # NoPath
                      /\ files'[task.path] = mail'[task.from]
    BY <1>2 DEF MoveOK
  <2>1. /\ task.from \in Slot /\ task.path \in Slot /\ task.to \in Box \ B
        /\ task.from[1] \notin B /\ task.path[1] = task.to /\ task.path[2] \in Ids
    BY <1>2, TaskFields DEF MoveOK, Slot
  <2>2. IsNextID(task.to, task.path[2])'
    BY <1>2, <2>1, NextIdFrame DEF MoveOK
  <2>3. QED
    BY <2>1, <2>2 DEF ChangesOnly, MoveOK
<1>3. ASSUME NEW r \in Migrating, r[1][1] \notin B
      PROVE  AsRead(r)' /\ files'[r[1]] = files[r[1]]
  <2>1. r[1] \in Slot
    BY DEF Migrating, MigrateType
  <2>2. QED
    BY <1>3, <2>1 DEF AsRead, ChangesOnly, MigrateOK
<1>4. ASSUME NEW s \in Slot, s[1] \notin B PROVE RowOK(s)'
  BY <1>4 DEF RowOK, ChangesOnly
<1>5. QED
  BY <1>1, <1>2, <1>3, <1>4

-----------------------------------------------------------------------------
(* Rows and files.  One lemma per step, or per pair of steps.              *)

LEMMA FilesInit == Init => FileInv
  BY StoreAssumption DEF Init, FileInv, LockOK, MoveOK, MigrateOK, RowOK, Streaming,
     Migrating, NoTask

\* A step that changes neither rows nor files nor the way anybody waits.
LEMMA FilesIdle ==
    ASSUME TypeInv, FileInv, UNCHANGED <<mail, mailFile, files, stream, task, migration>>
    PROVE  FileInv'
  BY DEF FileInv, LockOK, MoveOK, MigrateOK, StreamOK, AsRead, RowOK, Streaming,
     Migrating, IsNextID, Present, stream, migration

\* What holds of the others when a step changes the mailboxes B, which are
\* theirs neither.
LEMMA FilesOthers ==
    ASSUME TypeInv, FileInv, NEW B, ChangesOnly(B), UNCHANGED <<stream, migration>>,
           \A m \in Streaming : box[m] \notin B,
           \A r \in Migrating : r[1][1] \notin B
    PROVE  (\A m \in Streaming : StreamOK(m))' /\ MigrateOK'
<1>1. (\A m \in Streaming : StreamOK(m))'
  BY Frame DEF Streaming, stream
<1>2. MigrateOK'
  <2>1. \A r \in Migrating' : AsRead(r)'
    BY Frame DEF Migrating, migration
  <2>2. mgPc = "update" => mgRow \in Migrating
    BY DEF FileInv, MigrateOK, Migrating
  <2>3. QED
    BY <2>1, <2>2, Frame DEF FileInv, MigrateOK, migration
<1>3. QED
  BY <1>1, <1>2

LEMMA FilesCreate ==
    ASSUME Exclusive, TypeInv, FileInv, NEW m \in Msg, MailCreate(m)
    PROVE  FileInv'
<1> USE StoreAssumption DEF TypeInv, TypeOK
<1> /\ task = NoTask /\ pc[m] = "new"
    /\ UNCHANGED <<files, box, nextID, task, migration>>
  BY DEF MailCreate, WriterFree
<1>1. Streaming' = Streaming
  BY DEF MailCreate, Streaming, CallType
<1>2. PICK B : /\ \A n \in Streaming : box[n] \notin B
               /\ \A r \in Migrating : r[1][1] \notin B
               /\ ChangesOnly(B)
               /\ \A s \in Slot : RowOK(s)'
  <2>1. ASSUME NEW b \in Box, NEW id \in Ids, MayStart({b}),
               InsertRow(<<b, id>>, m, NoPath)
        PROVE  /\ \A n \in Streaming : box[n] \notin {b}
               /\ \A r \in Migrating : r[1][1] \notin {b}
               /\ ChangesOnly({b})
               /\ \A s \in Slot : RowOK(s)'
    <3>1. ChangesOnly({b})
      BY <2>1 DEF InsertRow, ChangesOnly, RowType
    <3>2. \A s \in Slot : RowOK(s)'
      BY <2>1 DEF InsertRow, RowOK, RowType, FileInv
    <3>3. QED
      BY <2>1, <3>1, <3>2, Free
  <2>2. CASE UNCHANGED <<mail, mailFile>>
    <3>1. ChangesOnly({}) /\ \A s \in Slot : RowOK(s)'
      BY <2>2 DEF ChangesOnly, RowOK, FileInv
    <3>2. QED
      BY <3>1
  <2>3. QED
    BY <2>1, <2>2 DEF MailCreate
<1>3. \A n \in Streaming' : StreamOK(n)'
  BY <1>1, <1>2, Frame DEF MailCreate, Streaming, CallType
<1>4. MigrateOK'
  <2>1. \A r \in Migrating' : AsRead(r)'
    BY <1>2, Frame DEF Migrating, migration
  <2>2. QED
    BY <2>1 DEF FileInv, MigrateOK, migration, Migrating
<1>5. LockOK' /\ MoveOK'
  BY <1>1 DEF FileInv, LockOK, MoveOK, NoTask, Migrating, migration
<1>6. QED
  BY <1>2, <1>3, <1>4, <1>5 DEF FileInv

LEMMA FilesNextID ==
    ASSUME Exclusive, TypeInv, FileInv, NEW m \in Msg, StreamNextID(m)
    PROVE  FileInv'
<1> USE StoreAssumption DEF TypeInv, TypeOK
<1>1. PICK b \in Box, id \in Ids :
         /\ MayStart({b}) /\ IsNextID(b, id)
         /\ box' = [box EXCEPT ![m] = b] /\ nextID' = [nextID EXCEPT ![m] = id]
  BY DEF StreamNextID
<1>2. /\ pc[m] = "new" /\ pc' = [pc EXCEPT ![m] = "named"]
      /\ UNCHANGED <<mail, mailFile, files, task, mgPc, mgTodo, mgRow>>
  BY DEF StreamNextID, rows, migration
<1>3. Streaming' = Streaming \cup {m} /\ m \notin Streaming
  BY <1>2 DEF Streaming, CallType
<1>4. LockOK'
  BY <1>1, <1>2, <1>3, Free DEF FileInv, LockOK, CallType, Migrating, Streaming
<1>5. ASSUME NEW n \in Streaming' PROVE StreamOK(n)'
  <2>1. CASE n = m
    BY <1>1, <1>2, <2>1 DEF StreamOK, IsNextID, Present, CallType
  <2>2. CASE n # m
    BY <1>1, <1>2, <1>3, <2>2 DEF FileInv, StreamOK, IsNextID, Present, CallType, Streaming
  <2>3. QED
    BY <2>1, <2>2
<1>6. MoveOK' /\ MigrateOK'
  BY <1>2 DEF FileInv, MoveOK, MigrateOK, AsRead, Migrating, IsNextID, Present
<1>7. \A s \in Slot : RowOK(s)'
  BY <1>2 DEF FileInv, RowOK
<1>8. QED
  BY <1>4, <1>5, <1>6, <1>7 DEF FileInv

LEMMA FilesStore ==
    ASSUME TypeInv, FileInv, NEW m \in Msg, StreamStore(m)
    PROVE  FileInv'
<1> USE StoreAssumption DEF TypeInv, TypeOK
<1> DEFINE path == <<box[m], nextID[m]>>
<1>1. /\ pc[m] = "named" /\ m \in Streaming
      /\ UNCHANGED <<mail, mailFile, task, mgPc, mgTodo, mgRow>>
  BY DEF StreamStore, rows, migration, Streaming
<1>2. path \in Slot /\ IsNextID(box[m], nextID[m]) /\ ~Present(path)
  BY <1>1, NextIdAbsent DEF FileInv, StreamOK, Slot, CallType
<1>3. \A n \in Msg \ {m} : pc'[n] = pc[n] /\ box'[n] = box[n] /\ nextID'[n] = nextID[n]
  BY DEF StreamStore, Return, CallType
<1>4. ChangesOnly({box[m]}) /\ UNCHANGED mail /\ files' \in [Slot -> Msg \cup {NoMsg}]
  BY <1>1, <1>2 DEF StreamStore, ChangesOnly, FileType
<1>5. m \in Streaming' => /\ box'[m] = box[m] /\ nextID'[m] = nextID[m]
                          /\ files'[path] = m
  BY <1>2 DEF StreamStore, Return, Streaming, CallType, FileType
<1>6. \A n \in Streaming' : n \in Streaming /\ box'[n] = box[n]
  BY <1>1, <1>3, <1>5 DEF Streaming
<1>7. LockOK'
  BY <1>1, <1>6 DEF FileInv, LockOK, Migrating
<1>8. ASSUME NEW n \in Streaming' PROVE StreamOK(n)'
  <2>1. CASE n = m
    BY <1>1, <1>2, <1>5, <2>1 DEF StreamOK, IsNextID, Present
  <2>2. CASE n # m
    <3>1. n \in Streaming /\ box[n] # box[m]
      BY <1>1, <1>6, <2>2 DEF FileInv, LockOK
    <3>2. QED
      BY <1>3, <1>4, <2>2, <3>1, Frame DEF Streaming
  <2>3. QED
    BY <2>1, <2>2
<1>9. MoveOK' /\ MigrateOK'
  <2>1. box[m] \notin task.boxes /\ \A r \in Migrating : r[1][1] # box[m]
    BY <1>1 DEF FileInv, LockOK
  <2>2. MoveOK'
    BY <1>1, <1>4, <2>1, Frame
  <2>3. \A r \in Migrating : AsRead(r)' /\ files'[r[1]] = files[r[1]]
    BY <1>4, <2>1, Frame
  <2>4. QED
    BY <1>1, <2>2, <2>3 DEF FileInv, MigrateOK, Migrating
<1>10. ASSUME NEW s \in Slot PROVE RowOK(s)'
  <2>1. s = path \/ files'[s] = files[s]
    BY DEF StreamStore, FileType
  <2>2. QED
    BY <1>1, <1>2, <2>1 DEF FileInv, RowOK, RowType, Present
<1>11. QED
  BY <1>7, <1>8, <1>9, <1>10 DEF FileInv

LEMMA FilesInsert ==
    ASSUME TypeInv, FileInv, NEW m \in Msg, StreamInsert(m)
    PROVE  FileInv'
<1> USE StoreAssumption DEF TypeInv, TypeOK
<1> DEFINE path == <<box[m], nextID[m]>>
<1>1. /\ pc[m] = "stored" /\ m \in Streaming /\ task = NoTask
      /\ UNCHANGED <<task, mgPc, mgTodo, mgRow>>
  BY DEF StreamInsert, WriterFree, migration, Streaming
<1>2. path \in Slot /\ IsNextID(box[m], nextID[m]) /\ ~Present(path) /\ files[path] = m
  BY <1>1, NextIdAbsent DEF FileInv, StreamOK, Slot, CallType
<1>3. /\ Streaming' = Streaming \ {m}
      /\ \A n \in Msg \ {m} : pc'[n] = pc[n] /\ box'[n] = box[n] /\ nextID'[n] = nextID[n]
  BY <1>1 DEF StreamInsert, Return, CallType, Streaming
<1>4. ChangesOnly({box[m]}) /\ \A s \in Slot : RowOK(s)'
  <2>1. ASSUME NEW id \in Ids, IsNextID(box[m], id), InsertRow(<<box[m], id>>, m, path),
               UNCHANGED files
        PROVE  ChangesOnly({box[m]}) /\ \A s \in Slot : RowOK(s)'
    <3>1. id = nextID[m]
      BY <1>2, <2>1, NextIdUnique DEF CallType
    <3>2. \A s \in Slot : /\ mail'[s] = IF s = path THEN m ELSE mail[s]
                          /\ mailFile'[s] = IF s = path THEN path ELSE mailFile[s]
      BY <2>1, <3>1 DEF InsertRow, RowType
    <3>3. ChangesOnly({box[m]})
      BY <2>1, <3>2 DEF ChangesOnly
    <3>4. \A s \in Slot : RowOK(s)'
      BY <1>2, <2>1, <3>2 DEF RowOK, FileInv
    <3>5. QED
      BY <3>3, <3>4
  <2>2. CASE UNCHANGED <<mail, mailFile>> /\ (DeleteFiles({path}) \/ UNCHANGED files)
    BY <1>2, <2>2 DEF DeleteFiles, ChangesOnly, RowOK, FileInv, FileType
  <2>3. QED
    BY <2>1, <2>2 DEF StreamInsert
<1>5. LockOK'
  BY <1>1, <1>3 DEF FileInv, LockOK, Migrating, Streaming
<1>6. ASSUME NEW n \in Streaming' PROVE StreamOK(n)'
  BY <1>1, <1>3, <1>4, Frame DEF Streaming, FileInv, LockOK
<1>7. MoveOK'
  BY <1>1 DEF MoveOK, NoTask
<1>8. MigrateOK'
  <2>1. \A r \in Migrating : AsRead(r)' /\ files'[r[1]] = files[r[1]]
    BY <1>1, <1>4, Frame DEF FileInv, LockOK
  <2>2. QED
    BY <1>1, <2>1 DEF FileInv, MigrateOK, Migrating
<1>9. QED
  BY <1>4, <1>5, <1>6, <1>7, <1>8 DEF FileInv

LEMMA FilesExpunge ==
    ASSUME Exclusive, TypeInv, FileInv, MailExpunge
    PROVE  FileInv'
<1> USE DEF TypeInv, TypeOK
<1>1. task = NoTask /\ UNCHANGED <<files, stream, task, migration>>
  BY DEF MailExpunge, WriterFree
<1>2. PICK b \in Box : MayStart({b}) /\ RemoveRows(Flagged(b))
  BY DEF MailExpunge
<1>3. ChangesOnly({b}) /\ \A s \in Slot : RowOK(s)'
  BY <1>1, <1>2 DEF RemoveRows, Flagged, ChangesOnly, RowOK, FileInv
<1>4. (\A m \in Streaming : StreamOK(m))' /\ MigrateOK'
  <2>1. /\ \A m \in Streaming : box[m] \notin {b}
        /\ \A r \in Migrating : r[1][1] \notin {b}
    BY <1>2, Free
  <2>2. QED
    BY <1>1, <1>3, <2>1, FilesOthers
<1>5. LockOK' /\ MoveOK'
  BY <1>1 DEF FileInv, LockOK, MoveOK, NoTask, Streaming, Migrating, stream, migration
<1>6. QED
  BY <1>3, <1>4, <1>5 DEF FileInv

LEMMA FilesExpungeFiles ==
    ASSUME Exclusive, TypeInv, FileInv, ExpungeFiles
    PROVE  FileInv'
<1> USE DEF TypeInv, TypeOK
<1>1. task' = Expunge /\ MayStart({Inbox}) /\ UNCHANGED <<mail, mailFile, stream, migration>>
  BY DEF ExpungeFiles, rows
<1>2. PICK P \in SUBSET ({mailFile[s] : s \in Flagged(Inbox)} \ {NoPath}) : DeleteFiles(P)
  BY DEF ExpungeFiles
<1>3. \A p \in P : p[1] = Inbox
  BY <1>2 DEF Flagged, FileInv, RowOK, RowType
<1>4. ChangesOnly({Inbox}) /\ \A s \in Slot : RowOK(s)'
  BY <1>1, <1>2, <1>3 DEF DeleteFiles, ChangesOnly, RowOK, FileInv
<1>5. /\ \A m \in Streaming : box[m] \notin {Inbox}
      /\ \A r \in Migrating : r[1][1] \notin {Inbox}
  BY <1>1, Free
<1>6. (\A m \in Streaming : StreamOK(m))' /\ MigrateOK'
  BY <1>1, <1>4, <1>5, FilesOthers
<1>7. LockOK' /\ MoveOK'
  BY <1>1, <1>5 DEF FileInv, LockOK, MoveOK, Expunge, Streaming, Migrating, stream, migration
<1>8. QED
  BY <1>4, <1>6, <1>7 DEF FileInv

\* The Writer ends its task: it touches no mailbox but the task's.
LEMMA FilesTaskEnds ==
    ASSUME TypeInv, FileInv, NEW B, ChangesOnly(B), B \subseteq task.boxes,
           UNCHANGED <<stream, migration>>, task' = NoTask, \A s \in Slot : RowOK(s)'
    PROVE  FileInv'
<1>1. /\ \A m \in Streaming : box[m] \notin B
      /\ \A r \in Migrating : r[1][1] \notin B
  BY DEF FileInv, LockOK
<1>2. (\A m \in Streaming : StreamOK(m))' /\ MigrateOK'
  BY <1>1, FilesOthers
<1>3. LockOK' /\ MoveOK'
  BY DEF FileInv, LockOK, MoveOK, NoTask, Streaming, Migrating, stream, migration
<1>4. QED
  BY <1>2, <1>3 DEF FileInv

LEMMA FilesRemove ==
    ASSUME TypeInv, FileInv, ExpungeRows \/ MoveDelete
    PROVE  FileInv'
<1> USE DEF TypeInv, TypeOK
<1>1. task' = NoTask /\ UNCHANGED <<files, stream, migration>>
  BY DEF ExpungeRows, MoveDelete
<1>2. PICK S \in SUBSET Slot : /\ \A s \in S : s[1] \in task.boxes
                               /\ RemoveRows(S) \/ UNCHANGED rows
  <2>1. CASE ExpungeRows
    <3>1. task = Expunge
      BY <2>1, TaskFields DEF ExpungeRows, CallType, Tasks, Move, NoTask, Expunge
    <3>2. Flagged(Inbox) \in SUBSET Slot /\ \A s \in Flagged(Inbox) : s[1] \in task.boxes
      BY <3>1 DEF Flagged, Expunge, RowType
    <3>3. QED
      BY <2>1, <3>2 DEF ExpungeRows
  <2>2. CASE MoveDelete
    <3>1. task.from \in Slot /\ task.from[1] \in task.boxes
      BY <2>2, TaskFields DEF MoveDelete
    <3>2. QED
      BY <2>2, <3>1 DEF MoveDelete
  <2>3. QED
    BY <2>1, <2>2
<1>3. ChangesOnly(task.boxes) /\ \A s \in Slot : RowOK(s)'
  BY <1>1, <1>2 DEF RemoveRows, rows, ChangesOnly, RowOK, FileInv
<1>4. QED
  BY <1>1, <1>3, FilesTaskEnds

LEMMA FilesMoveFile ==
    ASSUME Exclusive, TypeInv, FileInv, MoveFile
    PROVE  FileInv'
<1> USE StoreAssumption DEF TypeInv, TypeOK
<1>1. UNCHANGED <<mail, mailFile, stream, migration>>
  BY DEF MoveFile, rows
<1>2. ASSUME NEW s \in Slot, s[1] = Outbox, mailFile[s] # NoPath, files[mailFile[s]] # NoMsg,
             MayStart({Outbox, Sent}), NEW id \in Ids, IsNextID(Sent, id),
             MoveMail(mailFile[s], <<Sent, id>>),
             task' = Move("insert", s, Sent, <<Sent, id>>)
      PROVE  FileInv'
  <2> DEFINE path == <<Sent, id>>
  <2>1. mailFile[s] = s /\ files[s] = mail[s]
    BY <1>2 DEF FileInv, RowOK
  <2>2. path \in Slot /\ ~Present(path)
    BY <1>2, NextIdAbsent DEF Slot
  <2>3. \A x \in Slot : files'[x] = IF x = path THEN mail[s]
                                    ELSE IF x = s THEN NoMsg ELSE files[x]
    BY <1>2, <2>1 DEF MoveMail
  <2>4. ChangesOnly({Outbox, Sent})
    BY <1>1, <1>2, <2>3 DEF ChangesOnly
  <2>5. \A x \in Slot : RowOK(x)'
    BY <1>1, <2>2, <2>3 DEF FileInv, RowOK, RowType, Present
  <2>6. /\ \A m \in Streaming : box[m] \notin {Outbox, Sent}
        /\ \A r \in Migrating : r[1][1] \notin {Outbox, Sent}
    BY <1>2, Free
  <2>7. (\A m \in Streaming : StreamOK(m))' /\ MigrateOK'
    BY <1>1, <2>4, <2>6, FilesOthers
  <2>8. LockOK'
    BY <1>1, <1>2, <2>6 DEF FileInv, LockOK, Move, Streaming, Migrating, stream, migration
  <2>9. MoveOK'
    BY <1>1, <1>2, <2>2, <2>3 DEF MoveOK, Move, IsNextID, Present
  <2>10. QED
    BY <2>5, <2>7, <2>8, <2>9 DEF FileInv
<1>3. ASSUME NEW s \in Slot, NEW b \in Box, MayStart({s[1], b}),
             task' = Move("insert", s, b, NoPath), UNCHANGED files
      PROVE  FileInv'
  <2>1. LockOK'
    BY <1>1, <1>3, Free DEF FileInv, LockOK, Move, Streaming, Migrating, stream, migration
  <2>2. MoveOK'
    BY <1>3 DEF MoveOK, Move
  <2>3. ChangesOnly({}) /\ \A x \in Slot : RowOK(x)'
    BY <1>1, <1>3 DEF ChangesOnly, FileInv, RowOK
  <2>4. QED
    BY <1>1, <2>1, <2>2, <2>3, FilesOthers DEF FileInv
<1>4. QED
  BY <1>2, <1>3 DEF MoveFile

\* The number a move has read is that of the row it inserts.
LEMMA MovePath ==
    ASSUME TypeInv, FileInv, task.op = "insert", NEW id \in Ids, IsNextID(task.to, id)
    PROVE  task.path # NoPath =>
             task.path = <<task.to, id>> /\ files[<<task.to, id>>] = mail[task.from]
<1> USE DEF TypeInv, TypeOK
<1> SUFFICES ASSUME task.path # NoPath
             PROVE  task.path = <<task.to, id>> /\ files[task.path] = mail[task.from]
  OBVIOUS
<1>1. /\ task.path \in Slot /\ task.path[1] = task.to /\ task.to \in Box
      /\ IsNextID(task.to, task.path[2]) /\ files[task.path] = mail[task.from]
  BY TaskFields DEF FileInv, MoveOK
<1>2. task.path[2] = id
  BY <1>1, NextIdUnique DEF Slot
<1>3. task.path = <<task.path[1], task.path[2]>>
  BY <1>1 DEF Slot
<1>4. QED
  BY <1>1, <1>2, <1>3

\* The file goes back to the name of the row it came from.
LEMMA MoveUndo ==
    ASSUME TypeInv, FileInv, task.op = "insert", task.path # NoPath
    PROVE  /\ task.path \in Slot /\ task.path[1] = task.to /\ ~Present(task.path)
           /\ mailFile[task.from] = task.from /\ files[task.path] = mail[task.from]
<1> USE DEF TypeInv, TypeOK
<1>1. /\ task.path[1] = task.to /\ IsNextID(task.to, task.path[2])
      /\ task.from \in Slot /\ task.path \in Slot /\ task.to \in Box
  BY TaskFields DEF FileInv, MoveOK
<1>2. task.path = <<task.to, task.path[2]>> /\ task.path[2] \in Ids
  BY <1>1 DEF Slot
<1>3. QED
  BY <1>1, <1>2, NextIdAbsent DEF FileInv, MoveOK, RowOK

LEMMA FilesMoveInsert ==
    ASSUME TypeInv, FileInv, MoveInsert
    PROVE  FileInv'
<1> USE StoreAssumption DEF TypeInv, TypeOK
<1> /\ task.op = "insert" /\ Present(task.from)
    /\ UNCHANGED <<stream, migration>>
  BY DEF MoveInsert
<1> /\ task.from \in Slot /\ task.to \in Box /\ task.path \in Slot \cup {NoPath}
    /\ task.boxes = {task.from[1], task.to}
  BY TaskFields
<1>1. ASSUME MoveInserts(task.path), UNCHANGED files
      PROVE  FileInv'
  <2>1. PICK id \in Ids :
           /\ IsNextID(task.to, id)
           /\ InsertRow(<<task.to, id>>, mail[task.from], task.path)
    BY <1>1 DEF MoveInserts
  <2> DEFINE t == <<task.to, id>>
  <2>2. t \in Slot /\ ~Present(t)
    BY <2>1, NextIdAbsent DEF Slot
  <2>3. task.path # NoPath => task.path = t /\ files[t] = mail[task.from]
    BY <2>1, MovePath
  <2>4. \A s \in Slot :
           /\ mail'[s] = IF s = t THEN mail[task.from] ELSE mail[s]
           /\ mailFile'[s] = IF s = t THEN task.path ELSE mailFile[s]
    BY <2>1 DEF InsertRow, RowType
  <2>5. ChangesOnly(task.boxes)
    BY <1>1, <2>4 DEF ChangesOnly
  <2>6. \A s \in Slot : RowOK(s)'
    BY <1>1, <2>3, <2>4 DEF FileInv, RowOK
  <2>7. (\A m \in Streaming : StreamOK(m))' /\ MigrateOK'
    BY <2>5, FilesOthers DEF FileInv, LockOK
  <2>8. task' = Move("delete", task.from, task.to, task.path)
    BY <1>1, TaskFields DEF MoveInserts
  <2>9. task'.boxes = task.boxes /\ task'.op = "delete"
    BY <2>8 DEF Move
  <2>10. LockOK' /\ MoveOK'
    BY <2>9 DEF FileInv, LockOK, MoveOK, Streaming, Migrating, stream, migration
  <2>11. QED
    BY <2>6, <2>7, <2>10 DEF FileInv
<1>2. ASSUME task' = NoTask, UNCHANGED rows,
             UNCHANGED files \/ (task.path # NoPath /\ MoveMail(task.path, task.from))
      PROVE  FileInv'
  <2>1. CASE UNCHANGED files
    <3>1. ChangesOnly(task.boxes) /\ \A s \in Slot : RowOK(s)'
      BY <1>2, <2>1 DEF ChangesOnly, FileInv, RowOK, rows
    <3>2. QED
      BY <1>2, <3>1, FilesTaskEnds
  <2>2. CASE task.path # NoPath /\ MoveMail(task.path, task.from)
    <3>1. /\ task.path \in Slot /\ task.path[1] = task.to /\ ~Present(task.path)
          /\ mailFile[task.from] = task.from /\ files[task.path] = mail[task.from]
      BY <2>2, MoveUndo
    <3>2. \A s \in Slot : files'[s] = IF s = task.from THEN mail[s]
                                      ELSE IF s = task.path THEN NoMsg ELSE files[s]
      BY <2>2, <3>1 DEF MoveMail
    <3>3. ChangesOnly(task.boxes)
      BY <1>2, <3>1, <3>2 DEF ChangesOnly, rows
    <3>4. \A s \in Slot : RowOK(s)'
      BY <1>2, <3>1, <3>2 DEF FileInv, RowOK, rows
    <3>5. QED
      BY <1>2, <3>3, <3>4, FilesTaskEnds
  <2>3. QED
    BY <1>2, <2>1, <2>2
<1>3. QED
  BY <1>1, <1>2 DEF MoveInsert

LEMMA FilesMigrateQuery ==
    ASSUME Exclusive, TypeInv, FileInv, MigrateQuery
    PROVE  FileInv'
<1> USE DEF TypeInv, TypeOK
<1> DEFINE found == {s \in Slot : mail[s] \in Large /\ mailFile[s] = NoPath}
<1>1. /\ MayStart({s[1] : s \in found}) /\ mgTodo' = {<<s, mail[s]>> : s \in found}
      /\ mgPc = "start" /\ mgPc' = "store"
      /\ UNCHANGED <<mail, mailFile, files, stream, task, mgRow>>
  BY DEF MigrateQuery, rows
<1>2. mgRow = NoRow /\ Migrating' = mgTodo'
  BY <1>1 DEF FileInv, MigrateOK, Migrating
<1>3. \A r \in Migrating' : /\ r[1][1] \notin task.boxes
                            /\ \A m \in Streaming : r[1][1] # box[m]
  BY <1>1, <1>2, Free
<1>4. LockOK'
  BY <1>1, <1>3 DEF FileInv, LockOK, Streaming, stream
<1>5. MigrateOK'
  <2>1. \A r \in Migrating' : AsRead(r)'
    BY <1>1, <1>2 DEF AsRead
  <2>2. mgRow' \notin mgTodo'
    BY <1>1, <1>2 DEF NoRow
  <2>3. QED
    BY <1>1, <1>2, <2>1, <2>2 DEF MigrateOK
<1>6. QED
  BY <1>1, <1>4, <1>5 DEF FileInv, MoveOK, StreamOK, RowOK, Streaming, IsNextID,
     Present, stream

LEMMA FilesMigrateStore ==
    ASSUME TypeInv, FileInv, MigrateStore
    PROVE  FileInv'
<1> USE StoreAssumption DEF TypeInv, TypeOK
<1>1. mgPc = "store" /\ mgRow = NoRow /\ UNCHANGED <<mail, mailFile, stream, task>>
  BY DEF MigrateStore, rows, FileInv, MigrateOK
<1>2. PICK r \in mgTodo :
         /\ mgTodo' = mgTodo \ {r}
         /\ \/ /\ files' = [files EXCEPT ![r[1]] = r[2]]
               /\ mgRow' = r /\ mgPc' = "update"
            \/ UNCHANGED <<files, mgRow, mgPc>>
  BY DEF MigrateStore
<1>3. /\ r \in Migrating /\ r[1] \in Slot /\ r # NoRow
      /\ mail[r[1]] = r[2] /\ mailFile[r[1]] = NoPath
  <2>1. r \in Slot \X Msg /\ r # NoRow
    BY DEF MigrateType, NoRow
  <2>2. QED
    BY <2>1 DEF FileInv, MigrateOK, AsRead, Migrating
<1>4. Migrating' \subseteq Migrating
  BY <1>1, <1>2 DEF Migrating
<1>5. LockOK'
  BY <1>1, <1>4 DEF FileInv, LockOK, Streaming, stream
<1>6. ChangesOnly({r[1][1]}) /\ \A s \in Slot : RowOK(s)'
  BY <1>1, <1>2, <1>3 DEF ChangesOnly, FileInv, RowOK, FileType
<1>7. (\A m \in Streaming : StreamOK(m))' /\ MoveOK'
  <2>1. r[1][1] \notin task.boxes /\ \A m \in Streaming : box[m] \notin {r[1][1]}
    BY <1>3 DEF FileInv, LockOK
  <2>2. QED
    BY <1>1, <1>6, <2>1, Frame DEF Streaming, stream
<1>8. MigrateOK'
  <2>1. \A x \in Migrating' : AsRead(x)'
    BY <1>1, <1>4 DEF FileInv, MigrateOK, AsRead
  <2>2. mgPc' = "update" => files'[mgRow'[1]] = mgRow'[2]
    BY <1>1, <1>2, <1>3 DEF FileType
  <2>3. QED
    BY <1>1, <1>2, <1>3, <2>1, <2>2 DEF FileInv, MigrateOK
<1>9. QED
  BY <1>5, <1>6, <1>7, <1>8 DEF FileInv

LEMMA FilesMigrateUpdate ==
    ASSUME TypeInv, FileInv, MigrateUpdate
    PROVE  FileInv'
<1> USE StoreAssumption DEF TypeInv, TypeOK
<1> DEFINE s == mgRow[1]
<1>1. /\ mgPc = "update" /\ mgPc' = "store" /\ mgRow' = NoRow
      /\ UNCHANGED <<mail, stream, task, mgTodo>>
  BY DEF MigrateUpdate
<1>2. /\ mgRow \in Migrating /\ mgRow \in Slot \X Msg /\ mgRow \notin mgTodo
      /\ mail[s] = mgRow[2] /\ mailFile[s] = NoPath /\ files[s] = mgRow[2]
  BY <1>1 DEF FileInv, MigrateOK, MigrateType, Migrating, AsRead
<1>3. s \in Slot /\ Present(s)
  BY <1>2 DEF Present
<1>4. /\ \A x \in Slot \ {s} : mailFile'[x] = mailFile[x] /\ files'[x] = files[x]
      /\ mailFile'[s] \in {s, NoPath}
      /\ files'[s] \in {mail[s], NoMsg}
  <2>1. CASE mailFile' = [mailFile EXCEPT ![s] = IF Present(s) THEN s ELSE NoPath]
             /\ UNCHANGED files
    BY <1>2, <1>3, <2>1 DEF RowType
  <2>2. CASE (DeleteFiles({s}) \/ UNCHANGED files) /\ UNCHANGED mailFile
    BY <1>2, <1>3, <2>2 DEF DeleteFiles
  <2>3. QED
    BY <2>1, <2>2 DEF MigrateUpdate
<1>5. ChangesOnly({s[1]}) /\ \A x \in Slot : RowOK(x)'
  BY <1>1, <1>2, <1>4 DEF ChangesOnly, FileInv, RowOK
<1>6. Migrating' = mgTodo /\ mgTodo \subseteq Migrating
  BY <1>1 DEF Migrating
<1>7. LockOK'
  BY <1>1, <1>6 DEF FileInv, LockOK, Streaming, stream
<1>8. (\A m \in Streaming : StreamOK(m))' /\ MoveOK'
  <2>1. s[1] \notin task.boxes /\ \A m \in Streaming : box[m] \notin {s[1]}
    BY <1>2 DEF FileInv, LockOK
  <2>2. QED
    BY <1>1, <1>5, <2>1, Frame DEF Streaming, stream
<1>9. MigrateOK'
  <2>1. ASSUME NEW r \in mgTodo PROVE r[1] # s /\ AsRead(r)'
    <3>1. r \in Slot \X Msg /\ AsRead(r)
      BY <1>6 DEF MigrateType, FileInv, MigrateOK
    <3>2. r[1] # s
      BY <1>2, <3>1 DEF AsRead
    <3>3. QED
      BY <1>1, <1>4, <3>1, <3>2 DEF AsRead
  <2>2. NoRow \notin mgTodo
    BY DEF MigrateType, NoRow
  <2>3. QED
    BY <1>1, <1>6, <2>1, <2>2 DEF MigrateOK
<1>10. QED
  BY <1>5, <1>7, <1>8, <1>9 DEF FileInv

LEMMA FilesMigrateDone ==
    ASSUME TypeInv, FileInv, MigrateDone
    PROVE  FileInv'
  BY DEF MigrateDone, FileInv, LockOK, MoveOK, MigrateOK, StreamOK, AsRead, RowOK,
     Streaming, Migrating, IsNextID, Present, rows, stream

\* Nothing is in flight after a crash.
LEMMA FilesCrash ==
    ASSUME TypeInv, FileInv, Crash
    PROVE  FileInv'
<1>1. /\ task' = NoTask /\ mgPc' = "start" /\ mgTodo' = {} /\ mgRow' = NoRow
      /\ UNCHANGED <<mail, mailFile, files>>
  BY DEF Crash, rows
<1>2. Streaming' = {} /\ Migrating' = {}
  BY <1>1 DEF Crash, Streaming, Migrating
<1>3. QED
  BY <1>1, <1>2 DEF FileInv, LockOK, MoveOK, MigrateOK, RowOK, NoTask

LEMMA FilesInvariant ==
    ASSUME Exclusive
    PROVE  Spec => []FileInv
<1>1. TypeInv /\ FileInv /\ [Next]_vars => FileInv'
  <2> SUFFICES ASSUME TypeInv, FileInv, [Next]_vars PROVE FileInv'
    OBVIOUS
  <2>1. CASE MailUpdateFlags \/ UNCHANGED vars
    BY <2>1, FilesIdle DEF MailUpdateFlags, vars, rows
  <2>2. QED
    BY <2>1, FilesCreate, FilesNextID, FilesStore, FilesInsert, FilesExpunge,
       FilesExpungeFiles, FilesRemove, FilesMoveFile, FilesMoveInsert,
       FilesMigrateQuery, FilesMigrateStore, FilesMigrateUpdate, FilesMigrateDone,
       FilesCrash DEF Next
<1>2. QED
  BY FilesInit, <1>1, TypeInvariant, PTL DEF Spec

\* Unless two operations on one mailbox overlap, a row refers to no file but
\* the one numbered like it: the number read before the content is stored is
\* the number of the row, and delete, undo and migration rely on it.
THEOREM FileNamedAfterRowCorrect ==
    ASSUME Exclusive
    PROVE  Spec => []FileNamedAfterRow
<1>1. FileInv => FileNamedAfterRow
  BY DEF FileInv, RowOK, FileNamedAfterRow
<1>2. QED
  BY <1>1, FilesInvariant, PTL

-----------------------------------------------------------------------------
(* No content is lost.                                                     *)

\* Rows are flagged on request; a row that a move is about to delete has a
\* readable copy.
FlaggedOK == \A s \in deleted : mail[s] \in everFlagged

CopyOK ==
    task.op = "delete" =>
      \E s \in Slot \ {task.from} : mail[s] = mail[task.from] /\ Readable(s)

\* Where a mail can be: in a row, or in the file of a row to be inserted.
Kept(m) == \E s \in Slot : mail[s] = m /\ Readable(s)

Moving(m) ==
    /\ task.op = "insert" /\ mail[task.from] = m
    /\ task.path # NoPath /\ files[task.path] = m

ContentInv == FlaggedOK /\ CopyOK /\ NoContentLost

LEMMA ContentInit == Init => ContentInv
  BY DEF Init, ContentInv, FlaggedOK, CopyOK, NoContentLost, NoTask

\* A row can be read as before when neither it nor its file has changed.
LEMMA ReadableFrame ==
    ASSUME FileInv, NEW s \in Slot, Readable(s),
           mail'[s] = mail[s], mailFile'[s] = mailFile[s], files'[s] = files[s]
    PROVE  Readable(s)'
  BY DEF FileInv, RowOK, Readable

\* Steps after which every row can be read that could be before.
LEMMA ContentStays ==
    ASSUME TypeInv, ContentInv, FlaggedOK', UNCHANGED task,
           everFlagged \subseteq everFlagged', stranded \subseteq stranded',
           \A s \in Slot : Present(s) => /\ mail'[s] = mail[s]
                                         /\ Readable(s) => Readable(s)',
           \A m \in Msg : pc'[m] = "done" => pc[m] = "done" \/ Kept(m)',
           task.op = "insert" /\ task.path # NoPath => files'[task.path] = files[task.path]
    PROVE  ContentInv'
<1> USE DEF TypeInv, TypeOK
<1>1. CopyOK'
  <2> SUFFICES ASSUME task.op = "delete"
               PROVE  \E s \in Slot \ {task.from} :
                        mail'[s] = mail'[task.from] /\ Readable(s)'
    BY DEF CopyOK
  <2>1. PICK s \in Slot \ {task.from} : mail[s] = mail[task.from] /\ Readable(s)
    BY DEF ContentInv, CopyOK
  <2>2. task.from \in Slot /\ Present(task.from) /\ Present(s)
    BY <2>1, TaskFields DEF Present
  <2>3. QED
    BY <2>1, <2>2
<1>2. NoContentLost'
  <2> SUFFICES ASSUME NEW m \in Msg \ (everFlagged' \cup stranded'), pc'[m] = "done"
               PROVE  Kept(m)' \/ Moving(m)'
    BY DEF NoContentLost, Kept, Moving
  <2>1. CASE pc[m] = "done" /\ Kept(m)
    <3>1. PICK s \in Slot : mail[s] = m /\ Readable(s)
      BY <2>1 DEF Kept
    <3>2. Present(s)
      BY <3>1, StoreAssumption DEF Present
    <3>3. QED
      BY <3>1, <3>2 DEF Kept
  <2>2. CASE pc[m] = "done" /\ Moving(m)
    BY <2>2, TaskFields DEF Moving
  <2>3. pc[m] = "done" => Kept(m) \/ Moving(m)
    BY DEF ContentInv, NoContentLost, Kept, Moving
  <2>4. QED
    BY <2>1, <2>2, <2>3
<1>3. QED
  BY <1>1, <1>2 DEF ContentInv

\* Steps that change a row without flag, or its file, in no way.
LEMMA ContentExpunge ==
    ASSUME TypeInv, ContentInv, UNCHANGED <<pc, history>>, deleted' \subseteq deleted,
           task.op \notin {"insert", "delete"}, task'.op \notin {"insert", "delete"},
           \A s \in Slot : s \in deleted' => mail'[s] = mail[s],
           \A s \in Slot \ deleted : Readable(s) => mail'[s] = mail[s] /\ Readable(s)'
    PROVE  ContentInv'
<1> USE DEF TypeInv, TypeOK
<1>1. FlaggedOK' /\ CopyOK'
  BY DEF FlaggedOK, CopyOK, ContentInv, RowType, history
<1>2. NoContentLost'
  <2> SUFFICES ASSUME NEW m \in Msg \ (everFlagged \cup stranded), pc[m] = "done"
               PROVE  \E s \in Slot : mail'[s] = m /\ Readable(s)'
    BY DEF NoContentLost, history
  <2>1. PICK s \in Slot : mail[s] = m /\ Readable(s)
    BY DEF ContentInv, NoContentLost
  <2>2. s \notin deleted
    BY <2>1 DEF ContentInv, FlaggedOK
  <2>3. QED
    BY <2>1, <2>2
<1>3. QED
  BY <1>1, <1>2 DEF ContentInv

\* One row more, at a free number, and no other change: nobody's flag.
LEMMA ContentCreate ==
    ASSUME TypeInv, FileInv, ContentInv, NEW m \in Msg, MailCreate(m)
    PROVE  ContentInv'
<1> USE StoreAssumption DEF TypeInv, TypeOK
<1> UNCHANGED <<deleted, files, task, everFlagged, stranded>> /\ task = NoTask
  BY DEF MailCreate, history, WriterFree
<1>1. /\ \A s \in Slot : Present(s) => mail'[s] = mail[s] /\ mailFile'[s] = mailFile[s]
      /\ pc'[m] = "done" => Kept(m)'
  <2>1. ASSUME NEW b \in Box, NEW id \in Ids, IsNextID(b, id),
               InsertRow(<<b, id>>, m, NoPath)
        PROVE  /\ \A s \in Slot : Present(s) => mail'[s] = mail[s] /\ mailFile'[s] = mailFile[s]
               /\ Kept(m)'
    <3>1. <<b, id>> \in Slot /\ ~Present(<<b, id>>)
      BY <2>1, NextIdAbsent DEF Slot
    <3>2. \A s \in Slot : /\ mail'[s] = IF s = <<b, id>> THEN m ELSE mail[s]
                          /\ mailFile'[s] = IF s = <<b, id>> THEN NoPath ELSE mailFile[s]
      BY <2>1 DEF InsertRow, RowType
    <3>3. QED
      BY <3>1, <3>2 DEF Kept, Readable
  <2>2. CASE UNCHANGED <<mail, mailFile>> /\ pc' = [pc EXCEPT ![m] = "failed"]
    BY <2>2 DEF CallType
  <2>3. QED
    BY <2>1, <2>2 DEF MailCreate
<1>2. \A n \in Msg : pc'[n] = "done" => pc[n] = "done" \/ Kept(n)'
  BY <1>1 DEF MailCreate, CallType
<1>3. FlaggedOK'
  BY <1>1 DEF ContentInv, FlaggedOK, RowType
<1>4. QED
  BY <1>1, <1>2, <1>3, ReadableFrame, ContentStays DEF NoTask

LEMMA ContentStore ==
    ASSUME TypeInv, FileInv, ContentInv, NEW m \in Msg, StreamStore(m)
    PROVE  ContentInv'
<1> USE StoreAssumption DEF TypeInv, TypeOK
<1> DEFINE path == <<box[m], nextID[m]>>
<1>1. /\ UNCHANGED <<mail, mailFile, deleted, task, everFlagged, stranded>>
      /\ m \in Streaming
  BY DEF StreamStore, rows, history, Streaming
<1>2. path \in Slot /\ ~Present(path) /\ box[m] \notin task.boxes
  BY <1>1, NextIdAbsent DEF FileInv, StreamOK, LockOK, Slot, CallType
<1>3. \A s \in Slot : s # path => files'[s] = files[s]
  BY DEF StreamStore, FileType
<1>4. \A n \in Msg : pc'[n] = "done" => pc[n] = "done"
  BY DEF StreamStore, Return, CallType
<1>5. task.op = "insert" /\ task.path # NoPath => files'[task.path] = files[task.path]
  BY <1>2, <1>3, TaskFields DEF FileInv, MoveOK
<1>6. \A s \in Slot : Present(s) => /\ mail'[s] = mail[s]
                                    /\ Readable(s) => Readable(s)'
  BY <1>1, <1>2, <1>3, ReadableFrame
<1>7. FlaggedOK'
  BY <1>1 DEF ContentInv, FlaggedOK
<1>8. QED
  BY <1>1, <1>4, <1>5, <1>6, <1>7, ContentStays

LEMMA ContentInsert ==
    ASSUME TypeInv, FileInv, ContentInv, NEW m \in Msg, StreamInsert(m)
    PROVE  ContentInv'
<1> USE StoreAssumption DEF TypeInv, TypeOK
<1> DEFINE path == <<box[m], nextID[m]>>
<1>1. /\ UNCHANGED <<deleted, task, everFlagged, stranded>>
      /\ pc[m] = "stored" /\ m \in Streaming /\ task = NoTask
  BY DEF StreamInsert, history, WriterFree, Streaming
<1>2. path \in Slot /\ IsNextID(box[m], nextID[m]) /\ ~Present(path) /\ files[path] = m
  BY <1>1, NextIdAbsent DEF FileInv, StreamOK, Slot, CallType
<1>3. /\ \A s \in Slot \ {path} : /\ mail'[s] = mail[s] /\ mailFile'[s] = mailFile[s]
                                  /\ files'[s] = files[s]
      /\ pc'[m] = "done" => Kept(m)'
  <2>1. ASSUME NEW id \in Ids, IsNextID(box[m], id), InsertRow(<<box[m], id>>, m, path),
               UNCHANGED files
        PROVE  /\ \A s \in Slot \ {path} : mail'[s] = mail[s] /\ mailFile'[s] = mailFile[s]
               /\ Kept(m)'
    <3>1. id = nextID[m]
      BY <1>2, <2>1, NextIdUnique DEF CallType
    <3>2. \A s \in Slot : /\ mail'[s] = IF s = path THEN m ELSE mail[s]
                          /\ mailFile'[s] = IF s = path THEN path ELSE mailFile[s]
      BY <2>1, <3>1 DEF InsertRow, RowType
    <3>3. \A s \in Slot : s = path => mail'[s] = m /\ Readable(s)'
      BY <1>2, <2>1, <3>2 DEF Readable
    <3>4. QED
      BY <1>2, <3>2, <3>3 DEF Kept
  <2>2. CASE /\ UNCHANGED <<mail, mailFile>> /\ (DeleteFiles({path}) \/ UNCHANGED files)
             /\ Return(m, "failed")
    BY <2>2 DEF DeleteFiles, Return, CallType
  <2>3. QED
    BY <2>1, <2>2 DEF StreamInsert
<1>4. \A n \in Msg : pc'[n] = "done" => pc[n] = "done" \/ Kept(n)'
  BY <1>3 DEF StreamInsert, Return, CallType
<1>5. FlaggedOK'
  BY <1>1, <1>2, <1>3 DEF ContentInv, FlaggedOK, RowType
<1>6. QED
  BY <1>1, <1>2, <1>3, <1>4, <1>5, ReadableFrame, ContentStays DEF NoTask

LEMMA ContentUpdateFlags ==
    ASSUME TypeInv, FileInv, ContentInv, MailUpdateFlags
    PROVE  ContentInv'
<1>1. /\ UNCHANGED <<mail, mailFile, files, pc, task, stranded>>
      /\ everFlagged \subseteq everFlagged'
  BY DEF MailUpdateFlags, stream
<1>2. FlaggedOK'
  BY DEF MailUpdateFlags, ContentInv, FlaggedOK
<1>3. QED
  BY <1>1, <1>2, ReadableFrame, ContentStays

LEMMA ContentExpunges ==
    ASSUME TypeInv, FileInv, ContentInv, MailExpunge \/ ExpungeFiles \/ ExpungeRows
    PROVE  ContentInv'
<1> USE DEF TypeInv, TypeOK
<1>1. UNCHANGED <<pc, history>>
  BY DEF MailExpunge, ExpungeFiles, ExpungeRows, stream
<1>2. task.op \in {"none", "expunge"} /\ task'.op \in {"none", "expunge"}
  BY DEF MailExpunge, ExpungeFiles, ExpungeRows, WriterFree, NoTask, Expunge
<1>3. CASE MailExpunge \/ ExpungeRows
  <2>1. PICK S \in SUBSET deleted : (RemoveRows(S) \/ UNCHANGED rows) /\ UNCHANGED files
    BY <1>3 DEF MailExpunge, ExpungeRows, Flagged
  <2>2. \A s \in Slot \ S : mail'[s] = mail[s] /\ mailFile'[s] = mailFile[s]
    BY <2>1 DEF RemoveRows, rows
  <2>3. deleted' \subseteq deleted /\ \A s \in deleted' : s \notin S \/ mail'[s] = mail[s]
    BY <2>1 DEF RemoveRows, rows
  <2>4. QED
    BY <1>1, <1>2, <2>1, <2>2, <2>3, ReadableFrame, ContentExpunge
<1>4. CASE ExpungeFiles
  <2>1. PICK P \in SUBSET ({mailFile[s] : s \in Flagged(Inbox)} \ {NoPath}) : DeleteFiles(P)
    BY <1>4 DEF ExpungeFiles
  <2>2. P \subseteq deleted
    BY <2>1 DEF Flagged, FileInv, RowOK, RowType
  <2>3. UNCHANGED <<mail, mailFile, deleted>>
    BY <1>4 DEF ExpungeFiles, rows
  <2>4. \A s \in Slot \ deleted : files'[s] = files[s]
    BY <2>1, <2>2 DEF DeleteFiles
  <2>5. QED
    BY <1>1, <1>2, <2>3, <2>4, ReadableFrame, ContentExpunge
<1>5. QED
  BY <1>3, <1>4

LEMMA ContentMoveFile ==
    ASSUME TypeInv, FileInv, ContentInv, MoveFile
    PROVE  ContentInv'
<1> USE StoreAssumption DEF TypeInv, TypeOK
<1>1. task = NoTask /\ UNCHANGED <<mail, mailFile, deleted, pc, everFlagged, stranded>>
  BY DEF MoveFile, WriterFree, rows, stream, history
<1>2. FlaggedOK'
  BY <1>1 DEF ContentInv, FlaggedOK
<1>3. task'.op = "insert"
  <2>1. \E s, b, path : task' = Move("insert", s, b, path)
    BY DEF MoveFile
  <2>2. QED
    BY <2>1 DEF Move
<1>4. ASSUME NEW m \in Msg, Kept(m) PROVE Kept(m)' \/ Moving(m)'
  <2>1. PICK x \in Slot : mail[x] = m /\ Readable(x)
    BY <1>4 DEF Kept
  <2>2. ASSUME NEW s \in Slot, mailFile[s] # NoPath, files[mailFile[s]] # NoMsg,
               NEW id \in Ids, IsNextID(Sent, id), MoveMail(mailFile[s], <<Sent, id>>),
               task' = Move("insert", s, Sent, <<Sent, id>>)
        PROVE  Kept(m)' \/ Moving(m)'
    <3> DEFINE path == <<Sent, id>>
    <3>1. path \in Slot /\ ~Present(path) /\ x # path
      BY <2>1, <2>2, NextIdAbsent DEF Slot, Present
    <3>2. mailFile[s] = s /\ files[s] = mail[s]
      BY <2>2 DEF FileInv, RowOK
    <3>3. \A y \in Slot : files'[y] = IF y = path THEN mail[s]
                                      ELSE IF y = s THEN NoMsg ELSE files[y]
      BY <2>2, <3>2 DEF MoveMail
    <3>4. CASE x = s
      BY <1>1, <1>3, <2>1, <2>2, <3>1, <3>3, <3>4 DEF Moving, Move, NoPath
    <3>5. CASE x # s
      BY <1>1, <2>1, <3>1, <3>3, <3>5, ReadableFrame DEF Kept
    <3>6. QED
      BY <3>4, <3>5
  <2>3. CASE UNCHANGED files
    BY <1>1, <2>1, <2>3, ReadableFrame DEF Kept
  <2>4. QED
    BY <2>2, <2>3 DEF MoveFile
<1>5. QED
  BY <1>1, <1>2, <1>3, <1>4 DEF ContentInv, CopyOK, NoContentLost, Kept, Moving, NoTask

LEMMA ContentMoveInsert ==
    ASSUME TypeInv, FileInv, ContentInv, MoveInsert
    PROVE  ContentInv'
<1> USE StoreAssumption DEF TypeInv, TypeOK
<1> /\ task.op = "insert" /\ Present(task.from)
    /\ UNCHANGED <<pc, everFlagged>>
  BY DEF MoveInsert, stream
<1> task.from \in Slot /\ task.to \in Box /\ task.path \in Slot \cup {NoPath}
  BY TaskFields
<1> DEFINE from == task.from
<1>1. ASSUME MoveInserts(task.path), UNCHANGED <<files, stranded>>
      PROVE  ContentInv'
  <2>1. PICK id \in Ids :
           /\ IsNextID(task.to, id)
           /\ InsertRow(<<task.to, id>>, mail[task.from], task.path)
           /\ deleted' = IF task.from \in deleted THEN deleted \cup {<<task.to, id>>}
                                                 ELSE deleted
    BY <1>1 DEF MoveInserts
  <2> DEFINE t == <<task.to, id>>
  <2>2. t \in Slot /\ ~Present(t)
    BY <2>1, NextIdAbsent DEF Slot
  <2>3. task.path # NoPath => task.path = t /\ files[t] = mail[task.from]
    BY <2>1, MovePath
  <2>4. \A s \in Slot :
           /\ mail'[s] = IF s = t THEN mail[task.from] ELSE mail[s]
           /\ mailFile'[s] = IF s = t THEN task.path ELSE mailFile[s]
    BY <2>1 DEF InsertRow, RowType
  <2>5. task' = Move("delete", task.from, task.to, task.path)
    BY <1>1, TaskFields DEF MoveInserts
  <2>6. task'.op = "delete" /\ task'.from = task.from
    BY <2>5 DEF Move
  <2>7. \E s \in Slot : s = t /\ s # task.from /\ mail'[s] = mail[task.from] /\ Readable(s)'
    <3>1. \A s \in Slot : s = t => mail'[s] = mail[task.from] /\ Readable(s)'
      BY <1>1, <2>2, <2>3, <2>4 DEF Readable
    <3>2. QED
      BY <2>2, <3>1
  <2>8. \A m \in Msg : Kept(m) \/ Moving(m) => Kept(m)'
    <3>1. ASSUME NEW m \in Msg, Kept(m) PROVE Kept(m)'
      <4>1. PICK s \in Slot : mail[s] = m /\ Readable(s)
        BY <3>1 DEF Kept
      <4>2. s # t
        BY <2>2, <4>1 DEF Present
      <4>3. QED
        BY <1>1, <2>4, <4>1, <4>2, ReadableFrame DEF Kept
    <3>2. ASSUME NEW m \in Msg, Moving(m) PROVE Kept(m)'
      BY <2>7, <3>2 DEF Moving, Kept
    <3>3. QED
      BY <3>1, <3>2
  <2>9. FlaggedOK'
    <3>1. deleted \subseteq Slot /\ t \notin deleted
      BY <2>2 DEF RowType
    <3>2. ASSUME NEW s \in deleted' PROVE mail'[s] \in everFlagged
      BY <2>1, <2>2, <2>4, <3>1 DEF ContentInv, FlaggedOK
    <3>3. QED
      BY <3>2 DEF FlaggedOK
  <2>10. CopyOK'
    BY <2>2, <2>4, <2>6, <2>7 DEF CopyOK
  <2>11. NoContentLost'
    BY <1>1, <2>8 DEF ContentInv, NoContentLost, Kept, Moving
  <2>12. QED
    BY <2>9, <2>10, <2>11 DEF ContentInv
<1>2. ASSUME task' = NoTask, UNCHANGED rows,
             \/ UNCHANGED <<files, stranded>> /\ task.path = NoPath
             \/ MoveMail(task.path, task.from) /\ UNCHANGED stranded /\ task.path # NoPath
             \/ stranded' = stranded \cup {mail[task.from]} /\ UNCHANGED files
      PROVE  ContentInv'
  <2>1. FlaggedOK' /\ CopyOK'
    BY <1>2 DEF ContentInv, FlaggedOK, CopyOK, NoTask, rows
  <2>2. ASSUME NEW m \in Msg, Kept(m) \/ Moving(m), m \notin stranded' PROVE Kept(m)'
    <3>1. CASE /\ UNCHANGED files
               /\ task.path = NoPath \/ stranded' = stranded \cup {mail[task.from]}
      <4>1. Kept(m)
        BY <2>2, <3>1 DEF Moving
      <4>2. QED
        BY <1>2, <3>1, <4>1, ReadableFrame DEF Kept, rows
    <3>2. CASE MoveMail(task.path, task.from) /\ task.path # NoPath
      <4>1. /\ task.path \in Slot /\ ~Present(task.path)
            /\ mailFile[from] = from /\ files[task.path] = mail[from]
        BY <3>2, MoveUndo
      <4>2. \A s \in Slot : files'[s] = IF s = from THEN mail[s]
                                        ELSE IF s = task.path THEN NoMsg ELSE files[s]
        BY <3>2, <4>1 DEF MoveMail
      <4>3. mail'[from] = mail[from] /\ files'[mailFile'[from]] = mail'[from]
        BY <1>2, <4>1, <4>2 DEF rows
      <4>4. mail[from] = m => Kept(m)'
        BY <4>3 DEF Kept, Readable
      <4>5. ASSUME Kept(m), mail[from] # m PROVE Kept(m)'
        <5>1. PICK s \in Slot : mail[s] = m /\ Readable(s)
          BY <4>5 DEF Kept
        <5>2. s # from /\ s # task.path
          BY <4>1, <4>5, <5>1 DEF Present
        <5>3. QED
          BY <1>2, <4>2, <5>1, <5>2, ReadableFrame DEF Kept, rows
      <4>6. QED
        BY <2>2, <4>4, <4>5 DEF Moving
    <3>3. QED
      BY <1>2, <3>1, <3>2
  <2>3. stranded \subseteq stranded'
    BY <1>2
  <2>4. NoContentLost'
    BY <2>2, <2>3 DEF ContentInv, NoContentLost, Kept, Moving
  <2>5. QED
    BY <2>1, <2>4 DEF ContentInv
<1>3. QED
  BY <1>1, <1>2 DEF MoveInsert

LEMMA ContentMoveDelete ==
    ASSUME TypeInv, FileInv, ContentInv, MoveDelete
    PROVE  ContentInv'
<1> USE StoreAssumption DEF TypeInv, TypeOK
<1>1. /\ task.op = "delete" /\ task' = NoTask
      /\ UNCHANGED <<files, pc, everFlagged, stranded>>
      /\ RemoveRows({task.from}) \/ UNCHANGED rows
  BY DEF MoveDelete, stream, history
<1>2. \A s \in Slot \ {task.from} :
        /\ mail'[s] = mail[s]
        /\ Readable(s) => Readable(s)'
  <2>1. \A s \in Slot \ {task.from} : mail'[s] = mail[s] /\ mailFile'[s] = mailFile[s]
    BY <1>1 DEF RemoveRows, rows
  <2>2. QED
    BY <1>1, <2>1, ReadableFrame
<1>3. FlaggedOK'
  BY <1>1 DEF ContentInv, FlaggedOK, RemoveRows, RowType, rows
<1>4. ASSUME NEW m \in Msg, Kept(m) PROVE Kept(m)'
  <2>1. PICK s \in Slot : mail[s] = m /\ Readable(s)
    BY <1>4 DEF Kept
  <2>2. PICK c \in Slot \ {task.from} : mail[c] = mail[task.from] /\ Readable(c)
    BY <1>1 DEF ContentInv, CopyOK
  <2>3. QED
    BY <1>2, <2>1, <2>2 DEF Kept
<1>5. QED
  BY <1>1, <1>3, <1>4 DEF ContentInv, CopyOK, NoContentLost, Kept, Moving, NoTask

LEMMA ContentMigrate ==
    ASSUME TypeInv, FileInv, ContentInv,
           MigrateQuery \/ MigrateStore \/ MigrateUpdate \/ MigrateDone
    PROVE  ContentInv'
<1> USE StoreAssumption DEF TypeInv, TypeOK
<1>1. UNCHANGED <<mail, deleted, pc, task, everFlagged, stranded>>
  BY DEF MigrateQuery, MigrateStore, MigrateUpdate, MigrateDone, rows, stream, history
<1>2. FlaggedOK'
  BY <1>1 DEF ContentInv, FlaggedOK
<1>3. /\ \A s \in Slot : Present(s) /\ Readable(s) => Readable(s)'
      /\ \A s \in Slot : s[1] \in task.boxes => files'[s] = files[s]
  <2>1. CASE MigrateQuery \/ MigrateDone
    <3>1. UNCHANGED <<mailFile, files>>
      BY <2>1 DEF MigrateQuery, MigrateDone, rows
    <3>2. QED
      BY <1>1, <3>1, ReadableFrame
  <2>2. CASE MigrateStore
    <3>1. PICK r \in mgTodo :
             UNCHANGED files \/ files' = [files EXCEPT ![r[1]] = r[2]]
      BY <2>2 DEF MigrateStore
    <3>2. mailFile[r[1]] = NoPath /\ r[1][1] \notin task.boxes
      BY DEF FileInv, LockOK, MigrateOK, AsRead, Migrating, MigrateType, NoRow
    <3>3. \A s \in Slot : s # r[1] => files'[s] = files[s]
      BY <3>1 DEF FileType
    <3>4. UNCHANGED mailFile
      BY <2>2 DEF MigrateStore, rows
    <3>5. \A s \in Slot : Readable(s) => Readable(s)'
      BY <1>1, <3>2, <3>3, <3>4 DEF Readable, FileInv, RowOK
    <3>6. QED
      BY <3>2, <3>3, <3>5
  <2>3. CASE MigrateUpdate
    <3> DEFINE r == mgRow[1]
    <3>1. /\ mgRow \in Slot \X Msg /\ r[1] \notin task.boxes
          /\ mailFile[r] = NoPath /\ mail[r] = mgRow[2] /\ files[r] = mail[r]
      BY <2>3 DEF MigrateUpdate, FileInv, LockOK, MigrateOK, AsRead, Migrating, MigrateType
    <3>2. \A s \in Slot : s # r => mailFile'[s] = mailFile[s] /\ files'[s] = files[s]
      BY <2>3 DEF MigrateUpdate, DeleteFiles, RowType, FileType
    <3>3. \/ mailFile'[r] = NoPath
          \/ mailFile'[r] = r /\ files'[r] = mail[r]
      BY <2>3, <3>1 DEF MigrateUpdate, RowType
    <3>4. \A s \in Slot : Readable(s) => Readable(s)'
      <4>1. ASSUME NEW s \in Slot, Readable(s), s # r PROVE Readable(s)'
        BY <1>1, <3>2, <4>1, ReadableFrame
      <4>2. ASSUME NEW s \in Slot, s = r PROVE Readable(s)'
        BY <1>1, <3>3, <4>2 DEF Readable
      <4>3. QED
        BY <4>1, <4>2
    <3>5. QED
      BY <3>1, <3>2, <3>4
  <2>4. QED
    BY <2>1, <2>2, <2>3
<1>4. task.op = "insert" /\ task.path # NoPath => files'[task.path] = files[task.path]
  BY <1>3, TaskFields DEF FileInv, MoveOK
<1>5. QED
  BY <1>1, <1>2, <1>3, <1>4, ContentStays

\* A crash between the rename and the INSERT of a move strands the mail.
LEMMA ContentCrash ==
    ASSUME TypeInv, FileInv, ContentInv, Crash
    PROVE  ContentInv'
<1> USE DEF TypeInv, TypeOK
<1>1. UNCHANGED <<mail, mailFile, deleted, files, everFlagged>> /\ task' = NoTask
  BY DEF Crash, rows
<1>2. FlaggedOK' /\ CopyOK'
  BY <1>1 DEF ContentInv, FlaggedOK, CopyOK, NoTask
<1>3. ASSUME NEW m \in Msg, pc'[m] = "done" PROVE pc[m] = "done"
  BY <1>3 DEF Crash
<1>4. stranded \subseteq stranded' /\ \A m \in Msg : Moving(m) => m \in stranded'
  BY DEF Crash, Moving
<1>5. \A m \in Msg : Kept(m) => Kept(m)'
  BY <1>1, ReadableFrame DEF Kept
<1>6. QED
  BY <1>1, <1>2, <1>3, <1>4, <1>5 DEF ContentInv, NoContentLost, Kept, Moving

\* The steps that change neither rows nor files.
LEMMA ContentIdle ==
    ASSUME TypeInv, FileInv, ContentInv,
           (\E m \in Msg : StreamNextID(m)) \/ UNCHANGED vars
    PROVE  ContentInv'
<1>1. UNCHANGED <<mail, mailFile, deleted, files, task, everFlagged, stranded>>
  BY DEF StreamNextID, vars, rows, history
<1>2. FlaggedOK'
  BY <1>1 DEF ContentInv, FlaggedOK
<1>3. \A n \in Msg : pc'[n] = "done" => pc[n] = "done"
  BY DEF StreamNextID, vars, stream, TypeInv, TypeOK, CallType
<1>4. QED
  BY <1>1, <1>2, <1>3, ReadableFrame, ContentStays

LEMMA ContentInvariant ==
    ASSUME Exclusive
    PROVE  Spec => []ContentInv
<1>1. TypeInv /\ FileInv /\ ContentInv /\ [Next]_vars => ContentInv'
  <2> SUFFICES ASSUME TypeInv, FileInv, ContentInv, [Next]_vars PROVE ContentInv'
    OBVIOUS
  <2>1. QED
    BY ContentCreate, ContentStore, ContentInsert, ContentUpdateFlags, ContentExpunges,
       ContentMoveFile, ContentMoveInsert, ContentMoveDelete, ContentMigrate,
       ContentCrash, ContentIdle DEF Next
<1>2. QED
  BY ContentInit, <1>1, TypeInvariant, FilesInvariant, PTL DEF Spec

\* Unless two operations on one mailbox overlap, a stored mail nobody asked to
\* delete can be read, whatever calls of the storage fail and whenever the
\* process is killed; the exception is the mail of a move that ended between
\* the rename of its file and the INSERT without moving the file back.
THEOREM NoContentLostCorrect ==
    ASSUME Exclusive
    PROVE  Spec => []NoContentLost
<1>1. ContentInv => NoContentLost
  BY DEF ContentInv
<1>2. QED
  BY <1>1, ContentInvariant, PTL

=============================================================================
