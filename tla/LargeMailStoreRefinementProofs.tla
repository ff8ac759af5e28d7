------------------- MODULE LargeMailStoreRefinementProofs -------------------
(***************************************************************************)
(* LargeMailStore implements MailShelf, unless operations on one mailbox   *)
(* overlap.                                                                *)
(***************************************************************************)
EXTENDS LargeMailStoreProofs, LargeMailStoreRefinement

\* What the refinement needs beyond FileInv and ContentInv: rows are of mails
\* whose store has returned, and a row moved without file has none.
RowsStored == \A s \in Slot : Present(s) => pc[mail[s]] = "done"

BlobOK == task.op = "insert" /\ task.path = NoPath => mailFile[task.from] = NoPath

ShelfInv == RowsStored /\ BlobOK

\* A step of MailShelf, or none.
Step == [Shelf!Next]_(Shelf!vars)

-----------------------------------------------------------------------------
(* The invariant.                                                          *)

\* A step that creates no row, and ends no call but in failure.
LEMMA RowsStoredKept ==
    ASSUME TypeInv, RowsStored,
           \A s \in Slot : Present(s)' => Present(s) /\ mail'[s] = mail[s],
           \A m \in Msg : pc[m] = "done" => pc'[m] = "done"
    PROVE  RowsStored'
  BY DEF RowsStored, TypeInv, TypeOK, RowType, Present

\* A step that creates one, of a mail that is stored by then.
LEMMA RowsStoredAdd ==
    ASSUME TypeInv, RowsStored, NEW t \in Slot, NEW m \in Msg, NEW path,
           InsertRow(t, m, path), pc'[m] = "done",
           \A n \in Msg : pc[n] = "done" => pc'[n] = "done"
    PROVE  RowsStored'
<1>1. \A s \in Slot : mail'[s] = IF s = t THEN m ELSE mail[s]
  BY DEF InsertRow, TypeInv, TypeOK, RowType
<1>2. QED
  BY <1>1 DEF RowsStored, TypeInv, TypeOK, RowType, Present

LEMMA CallsEndOnce ==
    ASSUME TypeInv, [Next]_vars, NEW m \in Msg, pc[m] = "done"
    PROVE  pc'[m] = "done"
<1> USE DEF TypeInv, TypeOK, CallType
<1>1. ASSUME NEW n \in Msg,
             MailCreate(n) \/ StreamNextID(n) \/ StreamStore(n) \/ StreamInsert(n)
      PROVE  pc'[m] = "done"
  BY <1>1 DEF MailCreate, StreamNextID, StreamStore, StreamInsert, Return
<1>2. CASE Crash
  BY <1>2 DEF Crash
<1>3. CASE UNCHANGED stream
  BY <1>3 DEF stream
<1>4. QED
  BY <1>1, <1>2, <1>3 DEF Next, vars, MailUpdateFlags, MailExpunge, ExpungeFiles,
     ExpungeRows, MoveFile, MoveInsert, MoveDelete, MigrateQuery, MigrateStore,
     MigrateUpdate, MigrateDone

LEMMA RowsStoredNext ==
    ASSUME TypeInv, RowsStored, [Next]_vars
    PROVE  RowsStored'
<1> USE DEF TypeInv, TypeOK
<1>1. \A m \in Msg : pc[m] = "done" => pc'[m] = "done"
  BY CallsEndOnce
<1>2. CASE \A s \in Slot : Present(s)' => Present(s) /\ mail'[s] = mail[s]
  BY <1>1, <1>2, RowsStoredKept
<1>3. ASSUME NEW m \in Msg, MailCreate(m) PROVE RowsStored'
  <2>1. CASE UNCHANGED mail
    BY <1>2, <2>1 DEF Present
  <2>2. ASSUME NEW b \in Box, NEW id \in Ids, InsertRow(<<b, id>>, m, NoPath),
               pc' = [pc EXCEPT ![m] = "done"]
        PROVE  RowsStored'
    <3>1. <<b, id>> \in Slot /\ pc'[m] = "done"
      BY <2>2 DEF Slot, CallType
    <3>2. QED
      BY <1>1, <2>2, <3>1, RowsStoredAdd
  <2>3. QED
    BY <1>3, <2>1, <2>2 DEF MailCreate
<1>4. ASSUME NEW m \in Msg, StreamInsert(m) PROVE RowsStored'
  <2>1. CASE UNCHANGED mail
    BY <1>2, <2>1 DEF Present
  <2>2. ASSUME NEW id \in Ids, NEW path, InsertRow(<<box[m], id>>, m, path),
               Return(m, "done")
        PROVE  RowsStored'
    <3>1. <<box[m], id>> \in Slot /\ pc'[m] = "done"
      BY <2>2 DEF Slot, CallType, Return
    <3>2. QED
      BY <1>1, <2>2, <3>1, RowsStoredAdd
  <2>3. QED
    BY <1>4, <2>1, <2>2 DEF StreamInsert
<1>5. CASE MailExpunge \/ ExpungeRows \/ MoveDelete
  <2>1. UNCHANGED mail \/ \E S : RemoveRows(S)
    BY <1>5 DEF MailExpunge, ExpungeRows, MoveDelete, rows
  <2>2. QED
    BY <1>2, <2>1 DEF RemoveRows, Present
<1>6. CASE MoveInsert
  <2>1. CASE UNCHANGED mail
    BY <1>2, <2>1 DEF Present
  <2>2. CASE MoveInserts(task.path)
    <3>1. task.from \in Slot /\ task.to \in Box /\ Present(task.from)
      BY <1>6, TaskFields DEF MoveInsert
    <3>2. mail[task.from] \in Msg /\ pc[mail[task.from]] = "done"
      BY <3>1 DEF RowsStored, RowType, Present
    <3>3. PICK id \in Ids : InsertRow(<<task.to, id>>, mail[task.from], task.path)
      BY <2>2 DEF MoveInserts
    <3>4. <<task.to, id>> \in Slot
      BY <3>1 DEF Slot
    <3>5. QED
      BY <1>1, <3>2, <3>3, <3>4, RowsStoredAdd
  <2>3. QED
    BY <1>6, <2>1, <2>2 DEF MoveInsert, rows
<1>7. CASE UNCHANGED mail
  BY <1>2, <1>7 DEF Present
<1>8. QED
  BY <1>3, <1>4, <1>5, <1>6, <1>7 DEF Next, vars, rows, StreamNextID, StreamStore,
     MailUpdateFlags, ExpungeFiles, MoveFile, MigrateQuery, MigrateStore, MigrateUpdate,
     MigrateDone, Crash

\* While a row waits to be moved, the migration stays away from its mailbox,
\* and the Writer does nothing else.
LEMMA BlobNext ==
    ASSUME TypeInv, FileInv, BlobOK, [Next]_vars
    PROVE  BlobOK'
<1> USE DEF TypeInv, TypeOK
<1>1. CASE UNCHANGED <<task, mailFile>>
  BY <1>1 DEF BlobOK
<1>2. CASE task'.op # "insert"
  BY <1>2 DEF BlobOK
<1>3. CASE MoveFile
  <2>1. ASSUME NEW s \in Slot, NEW b, task' = Move("insert", s, b, NoPath),
               mailFile[s] = NoPath
        PROVE  BlobOK'
    BY <1>3, <2>1 DEF BlobOK, MoveFile, Move, rows
  <2>2. ASSUME NEW s \in Slot, NEW id, task' = Move("insert", s, Sent, <<Sent, id>>)
        PROVE  BlobOK'
    BY <2>2 DEF BlobOK, Move, NoPath
  <2>3. QED
    BY <1>3, <2>1, <2>2 DEF MoveFile
<1>4. CASE MigrateUpdate
  <2>1. UNCHANGED task /\ mgRow \in Slot \X Msg /\ mgRow[1][1] \notin task.boxes
    BY <1>4 DEF MigrateUpdate, FileInv, LockOK, MigrateOK, Migrating, MigrateType
  <2>2. \A s \in Slot : s # mgRow[1] => mailFile'[s] = mailFile[s]
    BY <1>4 DEF MigrateUpdate, RowType
  <2>3. QED
    BY <2>1, <2>2, TaskFields DEF BlobOK
<1>5. CASE MoveInsert
  <2>1. CASE MoveInserts(task.path)
    BY <1>5, <2>1, <1>2, TaskFields DEF MoveInsert, MoveInserts, Move
  <2>2. CASE task' = NoTask
    BY <1>2, <2>2 DEF NoTask
  <2>3. QED
    BY <1>5, <2>1, <2>2 DEF MoveInsert
<1>6. CASE task' = task /\ task = NoTask
  BY <1>2, <1>6 DEF NoTask
<1>7. CASE task' \in {NoTask, Expunge}
  BY <1>2, <1>7 DEF NoTask, Expunge
<1>8. QED
  BY <1>1, <1>3, <1>4, <1>5, <1>6, <1>7 DEF Next, vars, rows, WriterFree, MailCreate,
     StreamNextID, StreamStore, StreamInsert, MailUpdateFlags, MailExpunge, ExpungeFiles,
     ExpungeRows, MoveDelete, MigrateQuery, MigrateStore, MigrateDone, Crash

LEMMA ShelfInvInit == Init => ShelfInv
  BY DEF Init, ShelfInv, RowsStored, BlobOK, Present, NoTask

LEMMA ShelfInvariant ==
    ASSUME Exclusive
    PROVE  Spec => []ShelfInv
<1>1. TypeInv /\ FileInv /\ ShelfInv /\ [Next]_vars => ShelfInv'
  BY RowsStoredNext, BlobNext DEF ShelfInv
<1>2. QED
  BY ShelfInvInit, <1>1, TypeInvariant, FilesInvariant, PTL DEF Spec

-----------------------------------------------------------------------------
(* What a reader sees.                                                     *)

\* A row shows what it showed when neither it nor its file has changed.
LEMMA ShownFrame ==
    ASSUME FileInv, NEW s \in Slot,
           mail'[s] = mail[s], mailFile'[s] = mailFile[s], files'[s] = files[s]
    PROVE  Shown(s)' <=> Shown(s)
  BY DEF FileInv, RowOK, Shown, Present, Readable

\* The row s shows what it showed.
SameAt(s) == (Shown(s)' <=> Shown(s)) /\ (Shown(s) => mail'[s] = mail[s])

LEMMA HeldSame ==
    ASSUME \A s \in Slot : SameAt(s)
    PROVE  Held' = Held
  BY DEF Held, SameAt

\* A row more, a row less.
LEMMA HeldAdd ==
    ASSUME NEW t \in Slot, \A s \in Slot \ {t} : SameAt(s),
           Shown(t)', Shown(t) => mail'[t] = mail[t]
    PROVE  Held' = Held \cup {<<t[1], mail'[t]>>}
  BY DEF Held, SameAt

LEMMA HeldRemove ==
    ASSUME NEW t \in Slot, \A s \in Slot \ {t} : SameAt(s), ~Shown(t)'
    PROVE  Held' \in {Held, Held \ {<<t[1], mail[t]>>}}
<1> DEFINE p == <<t[1], mail[t]>>
<1>1. \A q : q # p => (q \in Held' <=> q \in Held)
  BY DEF Held, SameAt
<1>2. p \in Held' => p \in Held
  BY DEF Held, SameAt
<1>3. CASE p \in Held'
  BY <1>1, <1>2, <1>3
<1>4. CASE p \notin Held'
  BY <1>1, <1>4
<1>5. QED
  BY <1>3, <1>4

\* The renamed file is that of the row to be moved, before and after a step.
LEMMA CarriedIs ==
    ASSUME MoveOK
    PROVE  Carried = IF task.op = "insert" /\ task.path # NoPath
                       THEN {<<task.from[1], mail[task.from]>>} ELSE {}
  BY DEF MoveOK, Carried

LEMMA CarriedNext ==
    ASSUME MoveOK'
    PROVE  Carried' = IF task'.op = "insert" /\ task'.path # NoPath
                        THEN {<<task'.from[1], mail'[task'.from]>>} ELSE {}
  BY DEF MoveOK, Carried

LEMMA CarriedSame ==
    ASSUME MoveOK, MoveOK', UNCHANGED task,
           task.op = "insert" => mail'[task.from] = mail[task.from]
    PROVE  Carried' = Carried
  BY CarriedIs, CarriedNext

-----------------------------------------------------------------------------
(* Every step is a step of MailShelf or none.                              *)

LEMMA Stutter ==
    ASSUME \A s \in Slot : SameAt(s), Carried' = Carried, Stored' = Stored,
           UNCHANGED <<everFlagged, stranded>>
    PROVE  Step
<1>1. Held' = Held
  BY HeldSame
<1>2. QED
  BY <1>1 DEF Step, Shelf!vars

\* Rows disappear that are flagged or of which there is a readable copy.
LEMMA DiscardStep ==
    ASSUME \A s \in Slot : Shown(s)' => Shown(s) /\ mail'[s] = mail[s],
           \A s \in Slot : Shown(s) /\ ~Shown(s)' =>
             \/ mail[s] \in everFlagged
             \/ \E c \in Slot : Shown(c)' /\ mail[c] = mail[s],
           Carried' = Carried, Stored' = Stored, UNCHANGED <<everFlagged, stranded>>
    PROVE  Step
<1> DEFINE D == Held \ Held'
<1>1. Held' \subseteq Held
  BY DEF Held
<1>2. Held' = Held \ D
  BY <1>1
<1>3. ASSUME NEW p \in D
      PROVE  p[2] \in everFlagged \/ \E q \in Held \ D : q[2] = p[2]
  <2>1. PICK s \in Slot : Shown(s) /\ p = <<s[1], mail[s]>>
    BY DEF Held
  <2>2. ~Shown(s)'
    BY <2>1 DEF Held
  <2>3. ASSUME NEW c \in Slot, Shown(c)', mail[c] = mail[s]
        PROVE  \E q \in Held \ D : q[2] = p[2]
    <3>1. <<c[1], mail[c]>> \in Held'
      BY <2>3 DEF Held
    <3>2. QED
      BY <1>2, <2>1, <2>3, <3>1
  <2>4. QED
    BY <2>1, <2>2, <2>3
<1>4. Shelf!Discard(D)
  BY <1>2, <1>3 DEF Shelf!Discard
<1>5. QED
  BY <1>4 DEF Step, Shelf!Next

LEMMA CreateStep ==
    ASSUME TypeInv, FileInv, FileInv', NEW m \in Msg, MailCreate(m)
    PROVE  Step
<1> USE StoreAssumption DEF TypeInv, TypeOK
<1>1. /\ UNCHANGED <<deleted, files, task, everFlagged, stranded>>
      /\ task = NoTask /\ pc[m] = "new"
  BY DEF MailCreate, history, WriterFree
<1>2. Carried' = Carried
  BY <1>1, CarriedSame DEF FileInv, NoTask
<1>3. ASSUME NEW b \in Box, NEW id \in Ids, IsNextID(b, id),
             InsertRow(<<b, id>>, m, NoPath), pc' = [pc EXCEPT ![m] = "done"]
      PROVE  Step
  <2> DEFINE t == <<b, id>>
  <2>1. t \in Slot /\ ~Present(t)
    BY <1>3, NextIdAbsent DEF Slot
  <2>2. \A s \in Slot : /\ mail'[s] = IF s = t THEN m ELSE mail[s]
                        /\ mailFile'[s] = IF s = t THEN NoPath ELSE mailFile[s]
    BY <1>3 DEF InsertRow, RowType
  <2>3. \A s \in Slot \ {t} : SameAt(s)
    BY <1>1, <2>2, ShownFrame DEF SameAt
  <2>4. Shown(t)' /\ ~Shown(t) /\ mail'[t] = m
    BY <2>1, <2>2 DEF Shown, Present, Readable
  <2>5. Held' = Held \cup {<<b, m>>}
    BY <2>1, <2>3, <2>4, HeldAdd
  <2>6. m \notin Stored /\ Stored' = Stored \cup {m}
    BY <1>1, <1>3 DEF Stored, CallType
  <2>7. Shelf!Store(m, b)
    BY <1>1, <1>2, <2>5, <2>6 DEF Shelf!Store
  <2>8. QED
    BY <2>7 DEF Step, Shelf!Next
<1>4. CASE UNCHANGED <<mail, mailFile>> /\ pc' = [pc EXCEPT ![m] = "failed"]
  <2>1. \A s \in Slot : SameAt(s)
    BY <1>1, <1>4, ShownFrame DEF SameAt
  <2>2. Stored' = Stored
    BY <1>1, <1>4 DEF Stored, CallType
  <2>3. QED
    BY <1>1, <1>2, <2>1, <2>2, Stutter
<1>5. QED
  BY <1>3, <1>4 DEF MailCreate

\* The content of a mail without row changes nothing.
LEMMA StoreStep ==
    ASSUME TypeInv, FileInv, FileInv', NEW m \in Msg, StreamStore(m)
    PROVE  Step
<1> USE StoreAssumption DEF TypeInv, TypeOK
<1> DEFINE path == <<box[m], nextID[m]>>
<1>1. /\ UNCHANGED <<mail, mailFile, task, everFlagged, stranded>>
      /\ pc[m] = "named" /\ m \in Streaming
  BY DEF StreamStore, rows, history, Streaming
<1>2. path \in Slot /\ ~Present(path)
  BY <1>1, NextIdAbsent DEF FileInv, StreamOK, Slot, CallType
<1>3. \A s \in Slot : s # path => files'[s] = files[s]
  BY DEF StreamStore, FileType
<1>4. \A s \in Slot : SameAt(s)
  <2>1. \A s \in Slot : s = path => ~Shown(s) /\ ~Shown(s)'
    BY <1>1, <1>2 DEF Shown, Present
  <2>2. QED
    BY <1>1, <1>3, <2>1, ShownFrame DEF SameAt
<1>5. Stored' = Stored
  BY <1>1 DEF Stored, StreamStore, Return, CallType
<1>6. Carried' = Carried
  BY <1>1, CarriedSame DEF FileInv
<1>7. QED
  BY <1>1, <1>4, <1>5, <1>6, Stutter

\* The row of a stream is numbered like its file: the mail is stored.
LEMMA InsertStep ==
    ASSUME TypeInv, FileInv, FileInv', NEW m \in Msg, StreamInsert(m)
    PROVE  Step
<1> USE StoreAssumption DEF TypeInv, TypeOK
<1> DEFINE path == <<box[m], nextID[m]>>
<1>1. /\ UNCHANGED <<deleted, task, everFlagged, stranded>>
      /\ pc[m] = "stored" /\ m \in Streaming /\ task = NoTask
  BY DEF StreamInsert, history, WriterFree, Streaming
<1>2. path \in Slot /\ IsNextID(box[m], nextID[m]) /\ ~Present(path) /\ files[path] = m
  BY <1>1, NextIdAbsent DEF FileInv, StreamOK, Slot, CallType
<1>3. Carried' = Carried
  BY <1>1, CarriedSame DEF FileInv, NoTask
<1>4. ASSUME NEW id \in Ids, IsNextID(box[m], id), InsertRow(<<box[m], id>>, m, path),
             UNCHANGED files, Return(m, "done")
      PROVE  Step
  <2>1. id = nextID[m] /\ box[m] \in Box
    BY <1>2, <1>4, NextIdUnique DEF CallType
  <2>2. \A s \in Slot : /\ mail'[s] = IF s = path THEN m ELSE mail[s]
                        /\ mailFile'[s] = IF s = path THEN path ELSE mailFile[s]
    BY <1>4, <2>1 DEF InsertRow, RowType
  <2>3. \A s \in Slot \ {path} : SameAt(s)
    BY <1>4, <2>2, ShownFrame DEF SameAt
  <2>4. \A s \in Slot : s = path => Shown(s)' /\ mail'[s] = m
    BY <1>2, <1>4, <2>2 DEF Shown, Present, Readable
  <2>5. ~Shown(path)
    BY <1>2 DEF Shown
  <2>6. Held' = Held \cup {<<box[m], m>>}
    BY <1>2, <2>3, <2>4, <2>5, HeldAdd
  <2>7. m \notin Stored /\ Stored' = Stored \cup {m}
    BY <1>1, <1>4 DEF Stored, CallType, Return
  <2>8. Shelf!Store(m, box[m])
    BY <1>1, <1>3, <2>6, <2>7 DEF Shelf!Store
  <2>9. QED
    BY <2>1, <2>8 DEF Step, Shelf!Next
<1>5. CASE /\ UNCHANGED <<mail, mailFile>> /\ (DeleteFiles({path}) \/ UNCHANGED files)
           /\ Return(m, "failed")
  <2>1. \A s \in Slot : s # path => files'[s] = files[s]
    BY <1>5 DEF DeleteFiles
  <2>2. \A s \in Slot : s = path => ~Shown(s) /\ ~Shown(s)'
    BY <1>2, <1>5 DEF Shown, Present
  <2>3. \A s \in Slot : SameAt(s)
    BY <1>5, <2>1, <2>2, ShownFrame DEF SameAt
  <2>4. Stored' = Stored
    BY <1>1, <1>5 DEF Stored, CallType, Return
  <2>5. QED
    BY <1>1, <1>3, <2>3, <2>4, Stutter
<1>6. QED
  BY <1>4, <1>5 DEF StreamInsert

\* A request to delete a mail changes nothing but that.
LEMMA FlagStep ==
    ASSUME TypeInv, FileInv, FileInv', ShelfInv, MailUpdateFlags
    PROVE  Step
<1> USE DEF TypeInv, TypeOK
<1>1. UNCHANGED <<mail, mailFile, files, pc, task, stranded>>
  BY DEF MailUpdateFlags, stream
<1>2. Held' = Held /\ Stored' = Stored /\ Carried' = Carried
  <2>1. \A s \in Slot : SameAt(s)
    BY <1>1, ShownFrame DEF SameAt
  <2>2. Carried' = Carried
    BY <1>1, CarriedSame DEF FileInv
  <2>3. QED
    BY <1>1, <2>1, <2>2, HeldSame DEF Stored
<1>3. ASSUME NEW s \in Slot, Present(s), everFlagged' = everFlagged \cup {mail[s]}
      PROVE  Step
  <2>1. mail[s] \in Msg /\ mail[s] \in Stored
    BY <1>3 DEF ShelfInv, RowsStored, RowType, Present, Stored
  <2>2. Shelf!Ask(mail[s])
    BY <1>1, <1>2, <1>3, <2>1 DEF Shelf!Ask
  <2>3. QED
    BY <2>1, <2>2 DEF Step, Shelf!Next
<1>4. CASE UNCHANGED everFlagged
  BY <1>1, <1>2, <1>4 DEF Step, Shelf!vars
<1>5. QED
  BY <1>3, <1>4 DEF MailUpdateFlags

\* An expunge takes flagged rows, or the files of flagged rows.
LEMMA ExpungeStep ==
    ASSUME TypeInv, FileInv, FileInv', ContentInv, MailExpunge \/ ExpungeFiles \/ ExpungeRows
    PROVE  Step
<1> USE DEF TypeInv, TypeOK
<1>1. UNCHANGED <<pc, everFlagged, stranded>>
  BY DEF MailExpunge, ExpungeFiles, ExpungeRows, stream, history
<1>2. task.op # "insert" /\ task'.op # "insert"
  BY DEF MailExpunge, ExpungeFiles, ExpungeRows, WriterFree, NoTask, Expunge
<1>3. Carried' = Carried /\ Stored' = Stored
  BY <1>1, <1>2 DEF Carried, Stored
<1>4. ASSUME \A s \in Slot \ deleted : SameAt(s),
             \A s \in Slot : Shown(s)' => Shown(s) /\ mail'[s] = mail[s]
      PROVE  Step
  <2>1. \A s \in Slot : Shown(s) /\ ~Shown(s)' => mail[s] \in everFlagged
    BY <1>4 DEF SameAt, ContentInv, FlaggedOK
  <2>2. QED
    BY <1>1, <1>3, <1>4, <2>1, DiscardStep
<1>5. CASE MailExpunge \/ ExpungeRows
  <2>1. PICK S \in SUBSET deleted : (RemoveRows(S) \/ UNCHANGED rows) /\ UNCHANGED files
    BY <1>5 DEF MailExpunge, ExpungeRows, Flagged
  <2>2. \A s \in Slot \ S : mail'[s] = mail[s] /\ mailFile'[s] = mailFile[s]
    BY <2>1 DEF RemoveRows, rows
  <2>3. \A s \in Slot \ S : SameAt(s)
    BY <2>1, <2>2, ShownFrame DEF SameAt
  <2>4. \A s \in Slot : s \notin S => (Shown(s)' => Shown(s) /\ mail'[s] = mail[s])
    BY <2>2, <2>3 DEF SameAt
  <2>5. CASE UNCHANGED rows
    <3>1. \A s \in Slot : SameAt(s)
      BY <2>1, <2>5, ShownFrame DEF SameAt, rows
    <3>2. QED
      BY <1>1, <1>3, <3>1, Stutter
  <2>6. CASE RemoveRows(S)
    <3>1. \A s \in Slot : s \in S => ~Shown(s)'
      BY <2>6 DEF RemoveRows, Shown, Present
    <3>2. QED
      BY <1>4, <2>3, <2>4, <3>1
  <2>7. QED
    BY <2>1, <2>5, <2>6
<1>6. CASE ExpungeFiles
  <2>1. PICK P \in SUBSET ({mailFile[s] : s \in Flagged(Inbox)} \ {NoPath}) : DeleteFiles(P)
    BY <1>6 DEF ExpungeFiles
  <2>2. P \subseteq deleted
    BY <2>1 DEF Flagged, FileInv, RowOK, RowType
  <2>3. UNCHANGED <<mail, mailFile>>
    BY <1>6 DEF ExpungeFiles, rows
  <2>4. \A s \in Slot \ deleted : SameAt(s)
    BY <2>1, <2>2, <2>3, ShownFrame DEF DeleteFiles, SameAt
  <2>5. ASSUME NEW s \in Slot, Shown(s)' PROVE Shown(s)
    <3>1. CASE mailFile[s] = NoPath
      BY <2>3, <2>5, <3>1 DEF Shown, Present, Readable
    <3>2. CASE mailFile[s] = s
      BY <2>1, <2>3, <2>5, <3>2 DEF Shown, Present, Readable, DeleteFiles
    <3>3. QED
      BY <3>1, <3>2 DEF FileInv, RowOK
  <2>6. QED
    BY <1>4, <2>3, <2>4, <2>5
<1>7. QED
  BY <1>5, <1>6

\* The file of a row of the Outbox goes: the row shows it no more.
LEMMA MoveFileStep ==
    ASSUME TypeInv, FileInv, FileInv', MoveFile
    PROVE  Step
<1> USE StoreAssumption DEF TypeInv, TypeOK
<1>1. task = NoTask /\ UNCHANGED <<mail, mailFile, pc, everFlagged, stranded>>
  BY DEF MoveFile, WriterFree, rows, stream, history
<1>2. Carried = {} /\ Stored' = Stored
  BY <1>1 DEF Carried, NoTask, Stored
<1>3. ASSUME NEW s \in Slot, mailFile[s] # NoPath, files[mailFile[s]] # NoMsg,
             NEW id \in Ids, IsNextID(Sent, id), MoveMail(mailFile[s], <<Sent, id>>),
             task' = Move("insert", s, Sent, <<Sent, id>>)
      PROVE  Step
  <2> DEFINE path == <<Sent, id>>
             p == <<s[1], mail[s]>>
  <2>1. path \in Slot /\ ~Present(path)
    BY <1>3, NextIdAbsent DEF Slot
  <2>2. mailFile[s] = s /\ files[s] = mail[s] /\ Present(s)
    BY <1>3 DEF FileInv, RowOK, RowType
  <2>3. \A y \in Slot : files'[y] = IF y = path THEN mail[s]
                                    ELSE IF y = s THEN NoMsg ELSE files[y]
    BY <1>3, <2>2 DEF MoveMail
  <2>4. ~Shown(path) /\ ~Shown(path)' /\ path # s
    BY <1>1, <2>1, <2>2 DEF Shown, Present
  <2>5. \A y \in Slot \ {s} : SameAt(y)
    BY <1>1, <2>3, <2>4, ShownFrame DEF SameAt
  <2>6. Shown(s) /\ ~Shown(s)'
    BY <1>1, <1>3, <2>2, <2>3, <2>4 DEF Shown, Present, Readable
  <2>7. p \in Held /\ p \in Box \X Msg
    BY <2>2, <2>6 DEF Held, Slot, RowType, Present
  <2>8. Held' \in {Held, Held \ {p}}
    BY <2>5, <2>6, HeldRemove
  <2>9. Carried' = {p}
    BY <1>1, <1>3, CarriedNext DEF FileInv, Move, NoPath
  <2>10. Shelf!TakeUp(p)
    BY <1>1, <1>2, <2>7, <2>8, <2>9 DEF Shelf!TakeUp
  <2>11. QED
    BY <2>7, <2>10 DEF Step, Shelf!Next
<1>4. ASSUME NEW s \in Slot, NEW b, task' = Move("insert", s, b, NoPath), UNCHANGED files
      PROVE  Step
  <2>1. \A y \in Slot : SameAt(y)
    BY <1>1, <1>4, ShownFrame DEF SameAt
  <2>2. Carried' = Carried
    BY <1>2, <1>4 DEF Carried, Move
  <2>3. QED
    BY <1>1, <1>2, <2>1, <2>2, Stutter
<1>5. QED
  BY <1>3, <1>4 DEF MoveFile

LEMMA MoveInsertStep ==
    ASSUME TypeInv, FileInv, FileInv', ShelfInv, MoveInsert
    PROVE  Step
<1> USE StoreAssumption DEF TypeInv, TypeOK
<1> /\ task.op = "insert" /\ Present(task.from)
    /\ UNCHANGED <<pc, everFlagged>>
  BY DEF MoveInsert, stream
<1> task.from \in Slot /\ task.to \in Box /\ task.path \in Slot \cup {NoPath}
  BY TaskFields
<1> DEFINE from == task.from
           p == <<from[1], mail[from]>>
<1>1. p \in Box \X Msg /\ from[1] \in Box /\ mail[from] \in Msg
  BY DEF Slot, RowType, Present
<1>2. Stored' = Stored
  BY DEF Stored
<1>3. Carried = IF task.path # NoPath THEN {p} ELSE {}
  BY CarriedIs DEF FileInv
<1>4. ASSUME MoveInserts(task.path), UNCHANGED <<files, stranded>>
      PROVE  Step
  <2>1. PICK id \in Ids :
           /\ IsNextID(task.to, id)
           /\ InsertRow(<<task.to, id>>, mail[task.from], task.path)
    BY <1>4 DEF MoveInserts
  <2> HIDE DEF p
  <2>2. PICK t \in Slot : t = <<task.to, id>>
    BY <2>1 DEF Slot
  <2>3. ~Present(t) /\ (task.path # NoPath => task.path = t /\ files[t] = mail[from])
    BY <2>1, <2>2, NextIdAbsent, MovePath
  <2>4. \A s \in Slot :
           /\ mail'[s] = IF s = t THEN mail[from] ELSE mail[s]
           /\ mailFile'[s] = IF s = t THEN task.path ELSE mailFile[s]
    BY <2>1, <2>2 DEF InsertRow, RowType
  <2>5. \A s \in Slot \ {t} : SameAt(s)
    BY <1>4, <2>4, ShownFrame DEF SameAt
  <2>6. Shown(t)' /\ ~Shown(t) /\ mail'[t] = mail[from]
    BY <1>1, <1>4, <2>3, <2>4 DEF Shown, Present, Readable
  <2>7. Held' = Held \cup {<<task.to, p[2]>>}
    BY <2>2, <2>5, <2>6, HeldAdd DEF p
  <2>8. Carried' = {}
    <3>1. task'.op = "delete"
      BY <1>4, TaskFields DEF MoveInserts, Move
    <3>2. QED
      BY <3>1 DEF Carried
  <2>9. CASE task.path # NoPath
    <3>1. Shelf!PutDown(p, task.to)
      BY <1>2, <1>3, <1>4, <2>7, <2>8, <2>9 DEF Shelf!PutDown
    <3>2. QED
      BY <1>1, <3>1 DEF Step, Shelf!Next, p
  <2>10. CASE task.path = NoPath
    <3>1. p \in Held
      BY <2>10 DEF ShelfInv, BlobOK, Held, Shown, Readable, p
    <3>2. Shelf!Copy(p, task.to)
      BY <1>2, <1>3, <1>4, <2>7, <2>8, <2>10, <3>1 DEF Shelf!Copy
    <3>3. QED
      BY <1>1, <3>2 DEF Step, Shelf!Next, p
  <2>11. QED
    BY <2>9, <2>10
<1>5. ASSUME task' = NoTask, UNCHANGED rows
      PROVE  Carried' = {}
  BY <1>5 DEF Carried, NoTask
<1>6. CASE /\ task' = NoTask /\ UNCHANGED <<rows, files>>
           /\ \/ task.path = NoPath /\ UNCHANGED stranded
              \/ task.path # NoPath /\ stranded' = stranded \cup {mail[task.from]}
  <2>1. \A s \in Slot : SameAt(s)
    BY <1>6, ShownFrame DEF SameAt, rows
  <2>2. CASE task.path = NoPath /\ UNCHANGED stranded
    BY <1>2, <1>3, <1>5, <1>6, <2>1, <2>2, Stutter
  <2>3. CASE task.path # NoPath /\ stranded' = stranded \cup {mail[task.from]}
    <3>1. Shelf!Drop(p)
      BY <1>2, <1>3, <1>5, <1>6, <2>1, <2>3, HeldSame DEF Shelf!Drop
    <3>2. QED
      BY <1>1, <3>1 DEF Step, Shelf!Next
  <2>4. QED
    BY <1>6, <2>2, <2>3
<1>7. CASE /\ task' = NoTask /\ UNCHANGED <<rows, stranded>> /\ task.path # NoPath
           /\ MoveMail(task.path, task.from)
  <2>1. /\ task.path \in Slot /\ ~Present(task.path)
        /\ mailFile[from] = from /\ files[task.path] = mail[from]
    BY <1>7, MoveUndo
  <2>2. \A s \in Slot : files'[s] = IF s = from THEN mail[s]
                                    ELSE IF s = task.path THEN NoMsg ELSE files[s]
    BY <1>7, <2>1 DEF MoveMail
  <2>3. \A s \in Slot : s = task.path => ~Shown(s) /\ ~Shown(s)'
    BY <1>7, <2>1 DEF Shown, Present, rows
  <2>4. \A s \in Slot \ {from} : SameAt(s)
    BY <1>7, <2>2, <2>3, ShownFrame DEF SameAt, rows
  <2>5. \A s \in Slot : s = from => Shown(s)' /\ mail'[s] = mail[s]
    BY <1>7, <2>1, <2>2 DEF Shown, Present, Readable, rows
  <2>6. \A t \in Slot : t = from => Held' = Held \cup {<<t[1], mail'[t]>>}
    BY <2>4, <2>5, HeldAdd
  <2>7. Held' = Held \cup {<<from[1], p[2]>>}
    BY <2>5, <2>6
  <2>8. Shelf!PutDown(p, from[1])
    BY <1>2, <1>3, <1>5, <1>7, <2>7 DEF Shelf!PutDown
  <2>9. QED
    BY <1>1, <2>8 DEF Step, Shelf!Next
<1>8. QED
  BY <1>4, <1>6, <1>7 DEF MoveInsert

\* The row moved from goes; another shows the mail.
LEMMA MoveDeleteStep ==
    ASSUME TypeInv, FileInv, FileInv', ContentInv, MoveDelete
    PROVE  Step
<1> USE StoreAssumption DEF TypeInv, TypeOK
<1>1. /\ task.op = "delete" /\ task' = NoTask
      /\ UNCHANGED <<files, pc, everFlagged, stranded>>
      /\ RemoveRows({task.from}) \/ UNCHANGED rows
  BY DEF MoveDelete, stream, history
<1>2. Carried' = Carried /\ Stored' = Stored
  BY <1>1 DEF Carried, Stored, NoTask
<1>3. CASE UNCHANGED rows
  <2>1. \A s \in Slot : SameAt(s)
    BY <1>1, <1>3, ShownFrame DEF SameAt, rows
  <2>2. QED
    BY <1>1, <1>2, <2>1, Stutter
<1>4. CASE RemoveRows({task.from})
  <2>1. \A s \in Slot \ {task.from} : SameAt(s) /\ mail'[s] = mail[s]
    BY <1>1, <1>4, ShownFrame DEF SameAt, RemoveRows
  <2>2. \A s \in Slot : s = task.from => ~Shown(s)'
    BY <1>4 DEF RemoveRows, Shown, Present
  <2>3. PICK c \in Slot \ {task.from} : mail[c] = mail[task.from] /\ Readable(c)
    BY <1>1 DEF ContentInv, CopyOK
  <2>4. Shown(c)'
    <3>1. Present(task.from)
      BY <1>1
    <3>2. Shown(c)
      BY <2>3, <3>1 DEF Shown, Present
    <3>3. QED
      BY <2>1, <2>3, <3>2 DEF SameAt
  <2>5. \A s \in Slot : Shown(s)' => Shown(s) /\ mail'[s] = mail[s]
    BY <2>1, <2>2 DEF SameAt
  <2>6. \A s \in Slot : Shown(s) /\ ~Shown(s)' => Shown(c)' /\ mail[c] = mail[s]
    BY <2>1, <2>3, <2>4 DEF SameAt
  <2>7. QED
    BY <1>1, <1>2, <2>3, <2>5, <2>6, DiscardStep
<1>5. QED
  BY <1>1, <1>3, <1>4

\* The migration changes the way a content is kept, not what is read.
LEMMA MigrateStep ==
    ASSUME TypeInv, FileInv, FileInv',
           MigrateQuery \/ MigrateStore \/ MigrateUpdate \/ MigrateDone
    PROVE  Step
<1> USE StoreAssumption DEF TypeInv, TypeOK
<1>1. UNCHANGED <<mail, pc, task, everFlagged, stranded>>
  BY DEF MigrateQuery, MigrateStore, MigrateUpdate, MigrateDone, rows, stream, history
<1>2. Carried' = Carried /\ Stored' = Stored
  BY <1>1, CarriedSame DEF FileInv, Stored
<1>3. \A s \in Slot : SameAt(s)
  <2>1. CASE MigrateQuery \/ MigrateDone
    <3>1. UNCHANGED <<mailFile, files>>
      BY <2>1 DEF MigrateQuery, MigrateDone, rows
    <3>2. QED
      BY <1>1, <3>1, ShownFrame DEF SameAt
  <2>2. CASE MigrateStore
    <3>1. PICK r \in mgTodo :
             UNCHANGED files \/ files' = [files EXCEPT ![r[1]] = r[2]]
      BY <2>2 DEF MigrateStore
    <3>2. mailFile[r[1]] = NoPath
      BY DEF FileInv, MigrateOK, AsRead, Migrating
    <3>3. \A s \in Slot : s # r[1] => files'[s] = files[s]
      BY <3>1 DEF FileType
    <3>4. UNCHANGED mailFile
      BY <2>2 DEF MigrateStore, rows
    <3>5. \A s \in Slot : mailFile[s] = NoPath => SameAt(s)
      BY <1>1, <3>4 DEF SameAt, Shown, Present, Readable
    <3>6. QED
      BY <1>1, <3>2, <3>3, <3>4, <3>5, ShownFrame DEF SameAt
  <2>3. CASE MigrateUpdate
    <3> DEFINE r == mgRow[1]
    <3>1. /\ mgRow \in Slot \X Msg
          /\ mailFile[r] = NoPath /\ mail[r] = mgRow[2] /\ files[r] = mail[r]
      BY <2>3 DEF MigrateUpdate, FileInv, MigrateOK, AsRead, Migrating, MigrateType
    <3>2. \A s \in Slot : s # r => mailFile'[s] = mailFile[s] /\ files'[s] = files[s]
      BY <2>3 DEF MigrateUpdate, DeleteFiles, RowType, FileType
    <3>3. \A s \in Slot : s = r => \/ mailFile'[s] = NoPath
                                   \/ mailFile'[s] = s /\ files'[s] = mail[s]
      BY <2>3, <3>1 DEF MigrateUpdate, RowType
    <3>4. \A s \in Slot : s = r => SameAt(s)
      BY <1>1, <3>1, <3>3 DEF SameAt, Shown, Present, Readable
    <3>5. QED
      BY <1>1, <3>2, <3>4, ShownFrame DEF SameAt
  <2>4. QED
    BY <2>1, <2>2, <2>3
<1>4. QED
  BY <1>1, <1>2, <1>3, Stutter

\* A crash drops what a move carries, and nothing else.
LEMMA CrashStep ==
    ASSUME TypeInv, FileInv, Crash
    PROVE  Step
<1> USE StoreAssumption DEF TypeInv, TypeOK
<1>1. UNCHANGED <<mail, mailFile, files, everFlagged>> /\ task' = NoTask
  BY DEF Crash, rows
<1>2. Carried' = {} /\ Held' = Held
  BY <1>1 DEF Carried, NoTask, Held, Shown, Present, Readable
<1>3. Stored' = Stored
  BY DEF Crash, Stored, CallType
<1>4. CASE task.op = "insert" /\ task.path # NoPath
  <2> DEFINE p == <<task.from[1], mail[task.from]>>
  <2>1. p \in Box \X Msg /\ Carried = {p}
    BY <1>4, TaskFields, CarriedIs DEF FileInv, Slot, RowType, Present
  <2>2. Shelf!Drop(p)
    BY <1>1, <1>2, <1>3, <1>4, <2>1 DEF Crash, Shelf!Drop
  <2>3. QED
    BY <2>1, <2>2 DEF Step, Shelf!Next
<1>5. CASE ~(task.op = "insert" /\ task.path # NoPath)
  <2>1. Carried = {} /\ UNCHANGED stranded
    BY <1>5 DEF Carried, Crash
  <2>2. QED
    BY <1>1, <1>2, <1>3, <2>1 DEF Step, Shelf!vars
<1>6. QED
  BY <1>4, <1>5

LEMMA IdleStep ==
    ASSUME TypeInv, (\E m \in Msg : StreamNextID(m)) \/ UNCHANGED vars
    PROVE  Step
<1>1. UNCHANGED <<mail, mailFile, files, task, everFlagged, stranded>>
  BY DEF StreamNextID, vars, rows, history
<1>2. Held' = Held /\ Carried' = Carried
  BY <1>1 DEF Held, Carried, Shown, Present, Readable
<1>3. Stored' = Stored
  BY DEF StreamNextID, vars, stream, Stored, TypeInv, TypeOK, CallType
<1>4. QED
  BY <1>1, <1>2, <1>3 DEF Step, Shelf!vars

-----------------------------------------------------------------------------
LEMMA InitRefines == Init => Shelf!Init
  BY StoreAssumption DEF Init, Shelf!Init, Stored, Held, Carried, Shown, Present, NoTask

LEMMA NextRefines ==
    ASSUME TypeInv, FileInv, FileInv', ContentInv, ShelfInv, [Next]_vars
    PROVE  Step
  BY CreateStep, StoreStep, InsertStep, FlagStep, ExpungeStep, MoveFileStep,
     MoveInsertStep, MoveDeleteStep, MigrateStep, CrashStep, IdleStep DEF Next

\* Unless two operations on one mailbox overlap, the tables, the files, the
\* Writer's tasks and the migration implement MailShelf: whatever fails and
\* whenever the process is killed, a mail disappears from a mailbox only on
\* request, in favour of a readable copy, or while a move carries it.
THEOREM ImplementsShelfCorrect ==
    ASSUME Exclusive
    PROVE  Spec => ImplementsShelf
<1>1. TypeInv /\ FileInv /\ FileInv' /\ ContentInv /\ ShelfInv /\ [Next]_vars
        => [Shelf!Next]_(Shelf!vars)
  BY NextRefines DEF Step
<1>2. QED
  BY <1>1, InitRefines, TypeInvariant, FilesInvariant, ContentInvariant, ShelfInvariant,
     PTL DEF Spec, ImplementsShelf, Shelf!Spec

\* A mail that was stored and that no mailbox shows and no move carries.
Gone(m) == m \in Stored /\ \A p \in Held \cup Carried : p[2] # m

\* The same storage never shows a mail again that was deleted or dropped: no
\* left over row or file, and no id used once more, brings it back.
THEOREM GoneForGood ==
    ASSUME Exclusive
    PROVE  Spec => [][\A m \in Msg : Gone(m) => Gone(m)']_vars
<1>1. TypeInv /\ FileInv /\ FileInv' /\ ContentInv /\ ShelfInv /\ [Next]_vars
        => [\A m \in Msg : Gone(m) => Gone(m)']_vars
  <2> SUFFICES ASSUME Step, NEW m \in Msg, Gone(m) PROVE Gone(m)'
    BY NextRefines
  <2>1. CASE UNCHANGED <<Stored, Held, Carried>>
    BY <2>1 DEF Gone
  <2>2. ASSUME NEW n \in Msg, Shelf!Ask(n) PROVE Gone(m)'
    BY <2>2 DEF Shelf!Ask, Gone
  <2>3. ASSUME NEW n \in Msg, NEW b \in Box, Shelf!Store(n, b) PROVE Gone(m)'
    <3>1. n # m
      BY <2>3 DEF Shelf!Store, Gone
    <3>2. QED
      BY <2>3, <3>1 DEF Shelf!Store, Gone
  <2>4. ASSUME NEW D, Shelf!Discard(D) PROVE Gone(m)'
    BY <2>4 DEF Shelf!Discard, Gone
  <2>5. ASSUME NEW p, NEW b \in Box,
               Shelf!TakeUp(p) \/ Shelf!Drop(p) \/ Shelf!Copy(p, b) \/ Shelf!PutDown(p, b)
        PROVE  Gone(m)'
    <3>1. p \in Held \cup Carried /\ p[2] # m
      BY <2>5 DEF Shelf!TakeUp, Shelf!Drop, Shelf!Copy, Shelf!PutDown, Gone
    <3>2. Stored' = Stored /\ \A q \in Held' \cup Carried' :
                                q \in Held \cup Carried \/ q = <<b, p[2]>>
      BY <2>5 DEF Shelf!TakeUp, Shelf!Drop, Shelf!Copy, Shelf!PutDown
    <3>3. QED
      BY <3>1, <3>2 DEF Gone
  <2>6. QED
    BY <2>1, <2>2, <2>3, <2>4, <2>5, StoreAssumption DEF Step, Shelf!Next, Shelf!vars
<1>2. QED
  BY <1>1, TypeInvariant, FilesInvariant, ContentInvariant, ShelfInvariant, PTL DEF Spec

=============================================================================
