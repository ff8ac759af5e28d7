--------------------------- MODULE LargeMailStore ---------------------------
(***************************************************************************)
(* Large mails: rows of table mails whose content is a file <id>.eml in    *)
(* the directory of a mailbox (internal/storage/filestore), and the        *)
(* operations of internal/storage/sqlite3 that have to keep rows and files *)
(* together: MailCreateFromStream, expunge, move and the background        *)
(* migration of old blobs.  (CleanupOrphanedFiles has no caller outside    *)
(* the tests.)                                                             *)
(*                                                                         *)
(* The file of a new mail is named after MAX(id)+1, read before the file   *)
(* is written; the id of its row is computed again when the row is         *)
(* inserted.  Files are renamed and removed outside any transaction.       *)
(***************************************************************************)
EXTENDS Integers, FiniteSets

CONSTANTS
    Box,       \* mailboxes
    Inbox,     \* the mailbox remote mails go to
    Outbox,    \* where the sender moves mails from,
    Sent,      \* and to
    Msg,       \* the mails stored, each once
    NoMsg,     \* "no row" / "no file"
    Large,     \* mails over SmallMessageThreshold
    MaxId,     \* bound on mail ids per mailbox
    MaxFaults, \* bound on failures and crashes
    Events     \* see AllEvents

\* "overlap": operations on the same mailbox may run at once (operations on
\* different ones always may); "storage": a call of SQLite or of the file
\* system fails; "crash": the process is killed.
AllEvents == {"overlap", "storage", "crash"}

Ids == 1..MaxId
Slot == Box \X Ids       \* a row's key; also a file's path: <mailbox>/<id>.eml
NoPath == <<>>           \* mail_file IS NULL

ASSUME StoreAssumption ==
    /\ {Inbox, Outbox, Sent} \subseteq Box
    /\ NoMsg \notin Msg
    /\ Large \subseteq Msg
    /\ MaxId \in Nat \ {0} /\ MaxFaults \in Nat
    /\ Events \subseteq AllEvents

VARIABLES
    \* --- table mails ---
    mail,      \* the mail a row was created for: [Slot -> Msg \cup {NoMsg}]
    mailFile,  \* column mail_file; NoPath: the content is in the row itself
    deleted,   \* rows flagged as deleted
    \* --- the directory of the file store ---
    files,     \* [Slot -> Msg \cup {NoMsg}]
    \* --- a caller of MailCreateFromStream per mail ---
    pc, box, nextID,
    \* --- the task the Writer is executing ---
    task,
    \* --- MigrateLargeMessagesToFiles ---
    mgPc, mgTodo, mgRow,
    \* --- history ---
    everFlagged, \* mails somebody asked to delete
    stranded,    \* mails whose move ended between the rename of the file and
                 \* the INSERT, the file not moved back
    faults       \* failures and crashes so far

rows == <<mail, mailFile, deleted>>
stream == <<pc, box, nextID>>
migration == <<mgPc, mgTodo, mgRow>>
history == <<everFlagged, stranded>>
vars == <<rows, files, stream, task, migration, history, faults>>

NoRow == <<>>
NoTask == [op |-> "none", boxes |-> {}]
Expunge == [op |-> "expunge", boxes |-> {Inbox}]
Move(op, s, b, path) ==
    [op |-> op, boxes |-> {s[1], b}, from |-> s, to |-> b, path |-> path]
Tasks ==
    {NoTask, Expunge}
      \cup {Move(op, s, b, path) : op \in {"insert", "delete"}, s \in Slot, b \in Box,
                                  path \in Slot \cup {NoPath}}

Present(s) == mail[s] # NoMsg

\* Flags and file names belong to rows that exist.
RowType ==
    /\ mail \in [Slot -> Msg \cup {NoMsg}]
    /\ mailFile \in [Slot -> Slot \cup {NoPath}]
    /\ deleted \in SUBSET {s \in Slot : Present(s)}
    /\ \A s \in Slot : mailFile[s] # NoPath => Present(s)

FileType == files \in [Slot -> Msg \cup {NoMsg}]

CallType ==
    /\ pc \in [Msg -> {"new", "named", "stored", "done", "failed"}]
    /\ box \in [Msg -> Box]
    /\ nextID \in [Msg -> Ids]
    /\ task \in Tasks

MigrateType ==
    /\ mgPc \in {"start", "store", "update", "done"}
    /\ mgTodo \in SUBSET (Slot \X Msg)
    /\ mgRow \in (Slot \X Msg) \cup {NoRow}

HistoryType ==
    /\ everFlagged \in SUBSET Msg /\ stranded \in SUBSET Msg
    /\ faults \in 0..MaxFaults

TypeOK == RowType /\ FileType /\ CallType /\ MigrateType /\ HistoryType

\* Initialize has started the migration's goroutine.
Init ==
    /\ mail = [s \in Slot |-> NoMsg]
    /\ mailFile = [s \in Slot |-> NoPath]
    /\ deleted = {}
    /\ files = [s \in Slot |-> NoMsg]
    /\ pc = [m \in Msg |-> "new"]
    /\ box = [m \in Msg |-> Inbox]
    /\ nextID = [m \in Msg |-> 1]
    /\ task = NoTask
    /\ mgPc = "start" /\ mgTodo = {} /\ mgRow = NoRow
    /\ everFlagged = {} /\ stranded = {} /\ faults = 0

-----------------------------------------------------------------------------
\* IFNULL(MAX(id)+1, 1)
IsNextID(b, id) ==
    /\ \A i \in Ids : Present(<<b, i>>) => i < id
    /\ id = 1 \/ (id - 1 \in Ids /\ Present(<<b, id - 1>>))

Fault(event) ==
    /\ event \in Events /\ faults < MaxFaults
    /\ faults' = faults + 1

StorageFault == Fault("storage")
Works == UNCHANGED faults

\* The mailboxes some operation is in the middle of changing.
Busy ==
    task.boxes
      \cup {box[m] : m \in {x \in Msg : pc[x] \in {"named", "stored"}}}
      \cup {r[1][1] : r \in mgTodo \cup ({mgRow} \ {NoRow})}

MayStart(B) == B \cap Busy = {} \/ "overlap" \in Events

\* The Writer executes one task at a time.
WriterFree == task = NoTask

InsertRow(s, m, path) ==
    /\ mail' = [mail EXCEPT ![s] = m]
    /\ mailFile' = [mailFile EXCEPT ![s] = path]

RemoveRows(S) ==
    /\ mail' = [s \in Slot |-> IF s \in S THEN NoMsg ELSE mail[s]]
    /\ mailFile' = [s \in Slot |-> IF s \in S THEN NoPath ELSE mailFile[s]]
    /\ deleted' = deleted \ S

\* FileStore.DeleteMail; a file that is not there is no error.
DeleteFiles(P) == files' = [p \in Slot |-> IF p \in P THEN NoMsg ELSE files[p]]

\* FileStore.MoveMail, for a file that exists: os.Rename replaces the target.
MoveMail(p, q) ==
    files' = [x \in Slot |-> IF x = q THEN files[p]
                             ELSE IF x = p THEN NoMsg ELSE files[x]]

-----------------------------------------------------------------------------
(* MailCreate and MailCreateFromStream.  "failed": no row was written; the *)
(* caller knows, except when the Writer could not begin a transaction and  *)
(* Do returned nil.  A copy (IMAP COPY) is a mail of its own.              *)

\* A blob is one INSERT.  Also large mails are stored so: by old versions, and
\* when the headers a session adds take a mail over the threshold.
MailCreate(m) ==
    /\ pc[m] = "new"
    /\ WriterFree
    /\ \/ \E b \in Box, id \in Ids :
            /\ MayStart({b})
            /\ IsNextID(b, id)
            /\ InsertRow(<<b, id>>, m, NoPath)
            /\ pc' = [pc EXCEPT ![m] = "done"] /\ Works
       \/ /\ StorageFault
          /\ pc' = [pc EXCEPT ![m] = "failed"]
          /\ UNCHANGED <<mail, mailFile>>
    /\ UNCHANGED <<deleted, files, box, nextID, task, migration, history>>

\* Mutant: the query returns the largest id in use, not the one after it.
StreamNextIDLast(m) ==
    /\ pc[m] = "new" /\ m \in Large
    /\ \E b \in Box, id \in Ids :
         /\ MayStart({b})
         /\ IsNextID(b, id)
         /\ box' = [box EXCEPT ![m] = b]
         /\ nextID' = [nextID EXCEPT ![m] = id - 1]
    /\ pc' = [pc EXCEPT ![m] = "named"]
    /\ UNCHANGED <<rows, files, task, migration, history, faults>>

\* MailNextID: a query, which does not wait for the Writer.
StreamNextID(m) ==
    /\ pc[m] = "new" /\ m \in Large
    /\ \E b \in Box, id \in Ids :
         /\ MayStart({b})
         /\ IsNextID(b, id)
         /\ box' = [box EXCEPT ![m] = b]
         /\ nextID' = [nextID EXCEPT ![m] = id]
    /\ pc' = [pc EXCEPT ![m] = "named"]
    /\ UNCHANGED <<rows, files, task, migration, history, faults>>

\* A finished call leaves no locals behind.
Return(m, result) ==
    /\ pc' = [pc EXCEPT ![m] = result]
    /\ box' = [box EXCEPT ![m] = Inbox]
    /\ nextID' = [nextID EXCEPT ![m] = 1]

\* StoreMail: the complete temporary file is renamed, or nothing is left.
StreamStore(m) ==
    /\ pc[m] = "named"
    /\ \/ /\ files' = [files EXCEPT ![<<box[m], nextID[m]>>] = m]
          /\ pc' = [pc EXCEPT ![m] = "stored"] /\ Works
          /\ UNCHANGED <<box, nextID>>
       \/ StorageFault /\ Return(m, "failed") /\ UNCHANGED files
    /\ UNCHANGED <<rows, task, migration, history>>

\* The row gets an id of its own.  When the INSERT fails the file is removed;
\* it stays when that fails too, or when the Writer hid the error.
StreamInsert(m) ==
    /\ pc[m] = "stored" /\ WriterFree
    /\ LET path == <<box[m], nextID[m]>> IN
       \/ \E id \in Ids :
            /\ IsNextID(box[m], id)
            /\ InsertRow(<<box[m], id>>, m, path)
            /\ Return(m, "done") /\ Works
            /\ UNCHANGED files
       \/ /\ StorageFault
          /\ DeleteFiles({path}) \/ UNCHANGED files
          /\ Return(m, "failed")
          /\ UNCHANGED <<mail, mailFile>>
    /\ UNCHANGED <<deleted, task, migration, history>>

-----------------------------------------------------------------------------
(* Deleting.                                                               *)

\* MailDelete sets the flag, MailUpdateFlags sets or clears it.
MailUpdateFlags ==
    /\ WriterFree
    /\ \E s \in Slot :
         /\ Present(s) /\ MayStart({s[1]})
         /\ \/ /\ deleted' = deleted \cup {s}
               /\ everFlagged' = everFlagged \cup {mail[s]}
            \/ deleted' = deleted \ {s} /\ UNCHANGED everFlagged
    /\ UNCHANGED <<mail, mailFile, files, stream, task, migration, stranded, faults>>

Flagged(b) == {s \in deleted : s[1] = b}

\* MailExpunge: the rows go, the files stay.
MailExpunge ==
    /\ WriterFree
    /\ \E b \in Box :
         /\ Flagged(b) # {} /\ MayStart({b})
         /\ RemoveRows(Flagged(b))
    /\ UNCHANGED <<files, stream, task, migration, history, faults>>

\* Mutant: the query for the files does not ask for the flag.
ExpungeAllFiles ==
    /\ WriterFree /\ MayStart({Inbox})
    /\ Flagged(Inbox) # {}
    /\ DeleteFiles({mailFile[s] : s \in {x \in Slot : x[1] = Inbox}} \ {NoPath})
    /\ task' = Expunge
    /\ UNCHANGED <<rows, stream, migration, history, faults>>

\* MailExpungeWithFileStore, called for the INBOX: first the files.  A file
\* that cannot be removed is only logged.
ExpungeFiles ==
    /\ WriterFree /\ MayStart({Inbox})
    /\ Flagged(Inbox) # {}
    /\ LET paths == {mailFile[s] : s \in Flagged(Inbox)} \ {NoPath} IN
       \/ DeleteFiles(paths) /\ Works
       \/ StorageFault /\ \E P \in SUBSET paths : DeleteFiles(P)
    /\ task' = Expunge
    /\ UNCHANGED <<rows, stream, migration, history>>

ExpungeRows ==
    /\ task.op = "expunge"
    /\ (RemoveRows(Flagged(Inbox)) /\ Works) \/ (StorageFault /\ UNCHANGED rows)
    /\ task' = NoTask
    /\ UNCHANGED <<files, stream, migration, history>>

-----------------------------------------------------------------------------
(* MailMoveWithFileStore: one task of the Writer, but its statements run   *)
(* on the database, not in the task's transaction: each commits by itself. *)

\* Mutant: the moved file keeps the number it had.
MoveFileSameNumber ==
    /\ WriterFree
    /\ \E s \in Slot :
         /\ s[1] = Outbox /\ mailFile[s] # NoPath
         /\ files[mailFile[s]] # NoMsg
         /\ MayStart({Outbox, Sent})
         /\ MoveMail(mailFile[s], <<Sent, s[2]>>)
         /\ task' = Move("insert", s, Sent, <<Sent, s[2]>>)
    /\ UNCHANGED <<rows, stream, migration, history, faults>>

\* With the file store (the sender, from Outbox to Sent) the file goes first,
\* to a name after the next id of the destination.  Without it (IMAP) a mail
\* kept in a file is refused.
MoveFile ==
    /\ WriterFree
    /\ \E s \in Slot :
         \/ /\ s[1] = Outbox /\ mailFile[s] # NoPath
            /\ files[mailFile[s]] # NoMsg
            /\ MayStart({Outbox, Sent})
            /\ \E id \in Ids :
                 /\ IsNextID(Sent, id)
                 /\ MoveMail(mailFile[s], <<Sent, id>>)
                 /\ task' = Move("insert", s, Sent, <<Sent, id>>)
         \/ /\ Present(s) /\ mailFile[s] = NoPath
            /\ \E b \in Box :
                 /\ MayStart({s[1], b})
                 /\ task' = Move("insert", s, b, NoPath)
            /\ UNCHANGED files
    /\ UNCHANGED <<rows, stream, migration, history, faults>>

MoveInserts(path) ==
    /\ \E id \in Ids :
         LET s == <<task.to, id>> IN
         /\ IsNextID(task.to, id)
         /\ InsertRow(s, mail[task.from], path)
         /\ deleted' = IF task.from \in deleted THEN deleted \cup {s} ELSE deleted
    /\ task' = [task EXCEPT !.op = "delete"]

\* Mutant: the row keeps the name the file had before the move.
MoveInsertOldPath ==
    /\ task.op = "insert"
    /\ MoveInserts(mailFile[task.from])
    /\ UNCHANGED <<files, stream, migration, history, faults>>

\* Mutant: after a failed INSERT the file is not moved back.
MoveInsertNoUndo ==
    /\ task.op = "insert"
    /\ \/ MoveInserts(task.path) /\ Works
       \/ StorageFault /\ task' = NoTask /\ UNCHANGED rows
    /\ UNCHANGED <<files, stream, migration, history>>

\* The row is inserted at the destination with its flags.  On an error the
\* file is moved back, to the name of the row's id; an error of that is ignored.
MoveInsert ==
    /\ task.op = "insert"
    /\ \/ MoveInserts(task.path) /\ Works /\ UNCHANGED <<files, stranded>>
       \/ /\ StorageFault
          /\ task' = NoTask
          /\ IF task.path = NoPath
               THEN UNCHANGED <<files, stranded>>
               ELSE \/ /\ files[task.path] # NoMsg
                       /\ MoveMail(task.path, task.from)
                       /\ UNCHANGED stranded
                    \/ /\ stranded' = stranded \cup {mail[task.from]}
                       /\ UNCHANGED files
          /\ UNCHANGED rows
    /\ UNCHANGED <<stream, migration, everFlagged>>

MoveDelete ==
    /\ task.op = "delete"
    /\ (RemoveRows({task.from}) /\ Works) \/ (StorageFault /\ UNCHANGED rows)
    /\ task' = NoTask
    /\ UNCHANGED <<files, stream, migration, history>>

-----------------------------------------------------------------------------
(* MigrateLargeMessagesToFiles, a goroutine of Initialize that does not    *)
(* use the Writer.                                                         *)

\* The result is sorted: it is complete, contents included, before the first
\* row is handed out.
MigrateQuery ==
    /\ mgPc = "start"
    /\ LET found == {s \in Slot : mail[s] \in Large /\ mailFile[s] = NoPath} IN
       /\ MayStart({s[1] : s \in found})
       /\ mgTodo' = {<<s, mail[s]>> : s \in found}
    /\ mgPc' = "store"
    /\ UNCHANGED <<rows, files, stream, task, mgRow, history, faults>>

\* StoreMail under the row's id; a mail that cannot be stored is skipped.
MigrateStore ==
    /\ mgPc = "store"
    /\ \E r \in mgTodo :
         /\ mgTodo' = mgTodo \ {r}
         /\ \/ /\ files' = [files EXCEPT ![r[1]] = r[2]]
               /\ mgRow' = r
               /\ mgPc' = "update" /\ Works
            \/ StorageFault /\ UNCHANGED <<files, mgRow, mgPc>>
    /\ UNCHANGED <<rows, stream, task, history>>

\* The query is still open while the UPDATE wants the lock: it may fail
\* without any fault.  Then the file is removed, or stays if that fails.
MigrateUpdate ==
    /\ mgPc = "update"
    /\ \/ /\ mailFile' = [mailFile EXCEPT ![mgRow[1]] =
                            IF Present(mgRow[1]) THEN mgRow[1] ELSE NoPath]
          /\ UNCHANGED files /\ Works
       \/ /\ (DeleteFiles({mgRow[1]}) /\ Works) \/ (StorageFault /\ UNCHANGED files)
          /\ UNCHANGED mailFile
    /\ mgPc' = "store" /\ mgRow' = NoRow
    /\ UNCHANGED <<mail, deleted, stream, task, mgTodo, history>>

MigrateDone ==
    /\ mgPc = "store" /\ mgTodo = {}
    /\ mgPc' = "done"
    /\ UNCHANGED <<rows, files, stream, task, mgTodo, mgRow, history, faults>>

-----------------------------------------------------------------------------
\* The process is killed and started again; Initialize restarts the migration.
Crash ==
    /\ Fault("crash")
    /\ pc' = [m \in Msg |-> IF pc[m] \in {"named", "stored"} THEN "failed" ELSE pc[m]]
    /\ box' = [m \in Msg |-> Inbox] /\ nextID' = [m \in Msg |-> 1]
    /\ task' = NoTask
    /\ stranded' = IF task.op = "insert" /\ task.path # NoPath
                     THEN stranded \cup {mail[task.from]} ELSE stranded
    /\ mgPc' = "start" /\ mgTodo' = {} /\ mgRow' = NoRow
    /\ UNCHANGED <<rows, files, everFlagged>>

Next ==
    \/ \E m \in Msg :
         MailCreate(m) \/ StreamNextID(m) \/ StreamStore(m) \/ StreamInsert(m)
    \/ MailUpdateFlags \/ MailExpunge \/ ExpungeFiles \/ ExpungeRows
    \/ MoveFile \/ MoveInsert \/ MoveDelete
    \/ MigrateQuery \/ MigrateStore \/ MigrateUpdate \/ MigrateDone
    \/ Crash

Spec == Init /\ [][Next]_vars

-----------------------------------------------------------------------------
\* The file a row refers to is the one numbered like the row.  Delete, undo
\* and migration all compute one of the two from the other.
FileNamedAfterRow == \A s \in Slot : mailFile[s] \in {s, NoPath}

\* A reader of a row never gets the content of another mail: the file its
\* mail_file names holds the row's mail, or is gone.
NoForeignContent ==
    \A s \in Slot : mailFile[s] # NoPath => files[mailFile[s]] \in {mail[s], NoMsg}

Readable(s) == mailFile[s] = NoPath \/ files[mailFile[s]] = mail[s]

\* A stored mail that nobody asked to delete can be read from some row, at
\* every moment but between the rename and the INSERT of a move.
NoContentLost ==
    \A m \in Msg \ (everFlagged \cup stranded) :
        pc[m] = "done" =>
          \/ \E s \in Slot : mail[s] = m /\ Readable(s)
          \/ /\ task.op = "insert" /\ mail[task.from] = m
             /\ task.path # NoPath /\ files[task.path] = m

=============================================================================
