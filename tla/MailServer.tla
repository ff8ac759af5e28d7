----------------------------- MODULE MailServer -----------------------------
(***************************************************************************)
(* The mailboxes and everybody who works on them: the SMTP sessions of     *)
(* remote nodes (internal/smtpserver/session_remote.go), the IMAP          *)
(* connections of mail clients (internal/imapserver), the application      *)
(* (mailbox and mail calls of mobile/yggmail.go) and the heartbeat that    *)
(* tells clients how many mails there are.                                 *)
(*                                                                         *)
(* Every call of the storage is one step, and a move two, because it       *)
(* commits twice.  What a handler does between two of them, with ids,      *)
(* flags and counts it has read before, interleaves with all the others:   *)
(* the Writer serialises writes, not handlers, and ids are used again.     *)
(* Contents and files are in LargeMailStore, the Outbox's queue in         *)
(* SmtpSender.                                                             *)
(***************************************************************************)
EXTENDS Integers, Sequences, FiniteSetsExt

CONSTANTS
    Box,        \* names of mailboxes
    Inbox, Outbox,
    Protected,  \* the default ones: INBOX, Outbox and Sent
    NoBox,      \* no mailbox selected
    Flag,       \* flags of a mail, a subset of AllFlag
    Msg,        \* mails, each arrives or is appended at most once
    NoMsg,
    Size,       \* [Msg -> Nat]: size when it arrives
    Header,     \* what the header lines added to it weigh
    Threshold,  \* SmallMessageThreshold
    Limits,     \* values the application gives max_message_size
    Default,    \* the limit when none was set
    Client,     \* IMAP connections
    App,        \* the thread of the application that calls the service
    MaxId,      \* bound on mail ids per mailbox
    MaxRows,    \* bound on mails and copies of them in all mailboxes
    MaxArrivals, \* bound on mails that remote nodes send
    MaxOps,     \* bound on commands of clients and calls of the application
    Events      \* which of AllEvents may happen

AllFlag == {"Seen", "Answered", "Flagged", "Deleted"}

\* "storage": a query or a statement fails; "crash": the process is killed and
\* started again.
AllEvents == {"storage", "crash"}
StorageFault == "storage" \in Events

Ids == 1..MaxId
Slot == Box \X Ids
User == Client \cup {App}

ASSUME MailServerAssumption ==
    /\ Inbox \in Protected /\ Protected \subseteq Box
    /\ NoBox \notin Box /\ NoMsg \notin Msg /\ App \notin Client
    /\ Flag \subseteq AllFlag /\ "Deleted" \in Flag
    /\ Size \in [Msg -> Nat] /\ Header \in Nat /\ Threshold \in Nat
    /\ Limits \subseteq Nat /\ Default \in Nat
    /\ MaxId \in Nat /\ MaxRows \in Nat /\ MaxArrivals \in Nat /\ MaxOps \in Nat
    /\ Events \subseteq AllEvents

VARIABLES
    \* --- the tables ---
    boxes,     \* rows of mailboxes
    mail,      \* rows of mails: [Slot -> Msg \cup {NoMsg}]
    flags,     \* their flags: [Slot -> SUBSET Flag]
    limit,     \* max_message_size_bytes
    \* --- SMTP sessions of remote nodes: one for each mail ---
    rpc,       \* where SessionRemote is; "refused": it has answered an error
    rid,       \* the id its mail was given, until that is checked
    read,      \* the size, or the count of mails, it has read
    \* --- sendHeartbeat ---
    beat,      \* the count it has read
    \* --- IMAP connections and the application ---
    sel,       \* the mailbox a connection has selected
    told,      \* the last EXISTS for INBOX a connection was sent, else 0
    job,       \* the handler a user is in
    \* --- history ---
    deletion,  \* somebody has asked to delete a mail or a mailbox, or a
               \* session has refused a mail that was stored
    ops        \* commands and calls so far

tables == <<boxes, mail, flags, limit>>
session == <<rpc, rid, read>>
imap == <<sel, told>>
history == <<deletion, ops>>
vars == <<tables, session, beat, imap, job, history>>

NoCount == -1
NoSnap == [msg |-> NoMsg, flags |-> {}]
NoJob == [op |-> "none", pc |-> "idle", box |-> NoBox, dest |-> NoBox,
          uid |-> FALSE, lo |-> 0, hi |-> 0, todo |-> <<>>, flag |-> "none",
          add |-> FALSE, snap |-> NoSnap, id |-> 0, list |-> <<>>]

Rows(b) == {i \in Ids : mail[<<b, i>>] # NoMsg}
MailCount(b) == Cardinality(Rows(b))
Stored(m) == \E s \in Slot : mail[s] = m

\* pc names the storage call a handler is at.
Job ==
    [op: {"none", "store", "copy", "move", "append"},
     pc: {"idle", "star", "seq", "select", "write", "create", "insert", "delete"},
     box: Box \cup {NoBox}, dest: Box \cup {NoBox},
     uid: BOOLEAN, lo: Nat, hi: Nat, todo: Seq(Nat),
     flag: Flag \cup {"none"}, add: BOOLEAN,
     snap: [msg: Msg \cup {NoMsg}, flags: SUBSET Flag],
     id: Ids \cup {0}, list: Seq(Flag)]

\* The foreign key: rows are of mailboxes that exist.
TableType ==
    /\ boxes \in SUBSET Box
    /\ mail \in [Slot -> Msg \cup {NoMsg}]
    /\ flags \in [Slot -> SUBSET Flag]
    /\ \A s \in Slot : mail[s] # NoMsg => s[1] \in boxes
    /\ \A s \in Slot : mail[s] = NoMsg => flags[s] = {}
    /\ limit \in Limits \cup {Default}

SessionType ==
    /\ rpc \in [Msg -> {"new", "data", "store", "stored", "check", "refuse",
                        "expunge", "count", "notify", "accepted", "refused",
                        "appended"}]
    /\ rid \in [Msg -> Ids \cup {0}]
    /\ read \in [Msg -> Nat]
    /\ beat \in (0..MaxId) \cup {NoCount}

UserType ==
    /\ sel \in [Client -> Box \cup {NoBox}]
    /\ told \in [Client -> Nat]
    /\ job \in [User -> Job]
    /\ deletion \in BOOLEAN
    /\ ops \in 0..MaxOps

TypeOK == TableType /\ SessionType /\ UserType

\* Initialize creates the default mailboxes.
Init ==
    /\ boxes = Protected
    /\ mail = [s \in Slot |-> NoMsg] /\ flags = [s \in Slot |-> {}]
    /\ limit = Default
    /\ rpc = [m \in Msg |-> "new"] /\ rid = [m \in Msg |-> 0]
    /\ read = [m \in Msg |-> 0]
    /\ beat = NoCount
    /\ sel = [c \in Client |-> NoBox] /\ told = [c \in Client |-> 0]
    /\ job = [u \in User |-> NoJob]
    /\ deletion = FALSE /\ ops = 0

-----------------------------------------------------------------------------
(* The statements of the tables.                                           *)

MailNextID(b) == IF Rows(b) = {} THEN 1 ELSE Max(Rows(b)) + 1

\* The Writer is not in the middle of a move: it executes one task at a time,
\* so that everybody else's writes wait.  Queries do not.
WriterFree == \A c \in Client : job[c].pc # "delete"

\* INSERT ... MAX(id)+1
MailCreate(b, m, f) ==
    /\ WriterFree
    /\ MailNextID(b) \in Ids
    /\ Cardinality({s \in Slot : mail[s] # NoMsg}) < MaxRows
    /\ mail' = [mail EXCEPT ![<<b, MailNextID(b)>>] = m]
    /\ flags' = [flags EXCEPT ![<<b, MailNextID(b)>>] = f]

\* An UPDATE of a row that is not there does nothing.
MailUpdateFlags(b, i, f) ==
    /\ WriterFree
    /\ flags' = [s \in Slot |->
         IF s = <<b, i>> /\ mail[s] # NoMsg THEN f ELSE flags[s]]

\* UPDATE ... SET deleted = 1
MailDelete(b, i) ==
    /\ WriterFree
    /\ flags' = [s \in Slot |-> IF s = <<b, i>> /\ mail[s] # NoMsg
                                 THEN flags[s] \cup {"Deleted"} ELSE flags[s]]

RemoveRows(gone) ==
    /\ mail' = [s \in Slot |-> IF s \in gone THEN NoMsg ELSE mail[s]]
    /\ flags' = [s \in Slot |-> IF s \in gone THEN {} ELSE flags[s]]

\* DELETE ... WHERE deleted = 1
MailExpunge(b) ==
    /\ WriterFree
    /\ RemoveRows({s \in Slot : s[1] = b /\ "Deleted" \in flags[s]})

-----------------------------------------------------------------------------
(* SessionRemote.  Whoever fails to read the limit goes on without it.     *)

\* MAIL FROM: an announced size is checked at once.
SessionMail(m) ==
    /\ rpc[m] = "new"
    /\ Cardinality({n \in Msg : rpc[n] \notin {"new", "appended"}}) < MaxArrivals
    /\ \/ rpc' = [rpc EXCEPT ![m] = "data"]
       \/ Size[m] > limit /\ rpc' = [rpc EXCEPT ![m] = "refused"]
    /\ UNCHANGED <<tables, rid, read, beat, imap, job, history>>

\* What Data has peeked into: it never sees more than Threshold + 1.
Estimate(m) == Min({Size[m], Threshold + 1})

\* DATA: the estimate is checked ...
SessionData(m) ==
    /\ rpc[m] = "data"
    /\ \/ Estimate(m) > limit /\ rpc' = [rpc EXCEPT ![m] = "refused"]
       \/ /\ Estimate(m) <= limit \/ StorageFault
          /\ rpc' = [rpc EXCEPT ![m] = "store"]
    /\ UNCHANGED <<tables, rid, read, beat, imap, job, history>>

IsLarge(m) == Size[m] > Threshold

\* ... and the mail stored, with more header lines.  Of a small mail the size
\* is known, that of a large one is read from its row.
SessionStore(m) ==
    /\ rpc[m] = "store"
    /\ \/ /\ Inbox \in boxes
          /\ MailCreate(Inbox, m, {})
          /\ rid' = [rid EXCEPT ![m] = MailNextID(Inbox)]
          /\ IF IsLarge(m)
               THEN rpc' = [rpc EXCEPT ![m] = "stored"] /\ UNCHANGED read
               ELSE /\ rpc' = [rpc EXCEPT ![m] = "check"]
                    /\ read' = [read EXCEPT ![m] = Size[m] + Header]
       \/ /\ Inbox \notin boxes \/ StorageFault
          /\ rpc' = [rpc EXCEPT ![m] = "refused"]
          /\ UNCHANGED <<mail, flags, rid, read>>
    /\ UNCHANGED <<boxes, limit, beat, imap, job, history>>

\* An appended mail has no more header lines than it came with.
RowSize(s) == Size[mail[s]] + IF rpc[mail[s]] = "appended" THEN 0 ELSE Header

\* MailSelect of the id, which may be another mail's by now.
SessionSelect(m) ==
    /\ rpc[m] = "stored"
    /\ LET s == <<Inbox, rid[m]>> IN
       \/ /\ mail[s] # NoMsg
          /\ read' = [read EXCEPT ![m] = RowSize(s)]
          /\ rpc' = [rpc EXCEPT ![m] = "check"]
       \/ /\ mail[s] = NoMsg \/ StorageFault
          /\ rpc' = [rpc EXCEPT ![m] = "refused"]
          /\ UNCHANGED read
    /\ UNCHANGED <<tables, rid, beat, imap, job, history>>

SessionCheck(m) ==
    /\ rpc[m] = "check"
    /\ \/ /\ read[m] > limit
          /\ rpc' = [rpc EXCEPT ![m] = "refuse"]
          /\ UNCHANGED rid
       \/ /\ read[m] <= limit \/ StorageFault
          /\ rpc' = [rpc EXCEPT ![m] = "count"]
          /\ rid' = [rid EXCEPT ![m] = 0]
    /\ read' = [read EXCEPT ![m] = 0]
    /\ UNCHANGED <<tables, beat, imap, job, history>>

\* Over the limit: MailDelete of the id.  Its error is not looked at ...
SessionRefuse(m) ==
    /\ rpc[m] = "refuse"
    /\ MailDelete(Inbox, rid[m]) \/ (StorageFault /\ UNCHANGED flags)
    /\ rpc' = [rpc EXCEPT ![m] = "expunge"]
    /\ deletion' = TRUE
    /\ UNCHANGED <<boxes, mail, limit, rid, read, beat, imap, job, ops>>

\* ... nor that of the expunge of the whole mailbox that follows.
SessionExpunge(m) ==
    /\ rpc[m] = "expunge"
    /\ MailExpunge(Inbox) \/ (StorageFault /\ UNCHANGED <<mail, flags>>)
    /\ rpc' = [rpc EXCEPT ![m] = "refused"]
    /\ rid' = [rid EXCEPT ![m] = 0]
    /\ UNCHANGED <<boxes, limit, read, beat, imap, job, history>>

\* Without the count nobody is notified; the session answers 250 all the same.
SessionCount(m) ==
    /\ rpc[m] = "count"
    /\ \/ /\ read' = [read EXCEPT ![m] = MailCount(Inbox)]
          /\ rpc' = [rpc EXCEPT ![m] = "notify"]
       \/ /\ StorageFault
          /\ rpc' = [rpc EXCEPT ![m] = "accepted"]
          /\ UNCHANGED read
    /\ UNCHANGED <<tables, rid, beat, imap, job, history>>

\* Mutant: clients in INBOX get the STATUS and the others the EXISTS.
NotifyNewOthers(count) ==
    told' = [c \in Client |-> IF sel[c] \notin {Inbox, NoBox} THEN count ELSE told[c]]

\* IMAPNotify.NotifyNew: EXISTS to the connections that have INBOX selected.
NotifyNew(count) ==
    told' = [c \in Client |-> IF sel[c] = Inbox THEN count ELSE told[c]]

SessionNotify(m) ==
    /\ rpc[m] = "notify"
    /\ NotifyNew(read[m])
    /\ rpc' = [rpc EXCEPT ![m] = "accepted"]
    /\ read' = [read EXCEPT ![m] = 0]
    /\ UNCHANGED <<tables, rid, beat, sel, job, history>>

-----------------------------------------------------------------------------
(* sendHeartbeat.  A round whose query fails notifies nobody.              *)

HeartbeatCount ==
    /\ beat = NoCount
    /\ beat' = MailCount(Inbox)
    /\ UNCHANGED <<tables, session, imap, job, history>>

HeartbeatNotify ==
    /\ beat # NoCount
    /\ NotifyNew(beat)
    /\ beat' = NoCount
    /\ UNCHANGED <<tables, session, sel, job, history>>

-----------------------------------------------------------------------------
(* IMAP: commands of one storage call.                                     *)

Idle(u) == job[u].op = "none"

\* A user who is in no handler gives a command.
Command(u) == Idle(u) /\ ops < MaxOps /\ ops' = ops + 1

\* GetMailbox and the Status that answers SELECT.
Select(c) ==
    /\ Idle(c)
    /\ \E b \in boxes :
         /\ sel' = [sel EXCEPT ![c] = b]
         /\ told' = [told EXCEPT ![c] = IF b = Inbox THEN MailCount(b) ELSE 0]
    /\ UNCHANGED <<tables, session, beat, job, history>>

Expunge(c) ==
    /\ Command(c) /\ sel[c] # NoBox
    /\ MailExpunge(sel[c])
    /\ UNCHANGED <<boxes, limit, session, beat, imap, job, deletion>>

\* STORE FLAGS: the mail is not selected, nil is dereferenced, and go-imap
\* closes the connection.
StoreReplace(c) ==
    /\ Command(c) /\ sel[c] # NoBox
    /\ sel' = [sel EXCEPT ![c] = NoBox]
    /\ told' = [told EXCEPT ![c] = 0]
    /\ UNCHANGED <<tables, session, beat, job, deletion>>

-----------------------------------------------------------------------------
(* The ids of a sequence set lo:hi, one query after the other.  0 stands   *)
(* for `*', and both are 0 for the set `*'.                                *)

Sets == {r \in (0..MaxId) \X (0..MaxId) : r[1] = 0 => r[2] = 0}

\* The ids are known: the handler takes them one after the other.
Resolved(j) ==
    IF j.todo = <<>> THEN NoJob
    ELSE [j EXCEPT !.uid = FALSE, !.lo = 0, !.hi = 0,
                   !.pc = IF j.op = "move" THEN "insert" ELSE "select"]

WithStop(j, hi) ==
    IF j.uid \/ j.lo > hi
      THEN Resolved([j EXCEPT !.todo = [k \in 1..(hi - j.lo + 1) |-> j.lo + k - 1]])
      ELSE [j EXCEPT !.hi = hi, !.pc = "seq"]

Begin(j) == IF j.hi = 0 THEN [j EXCEPT !.pc = "star"] ELSE WithStop(j, j.hi)

\* MailNextID: `*' is the highest id also when sequence numbers are meant.
ResolveStar(c) ==
    /\ job[c].pc = "star"
    /\ job' = [job EXCEPT ![c] = WithStop(@, MailNextID(@.box) - 1)]
    /\ UNCHANGED <<tables, session, beat, imap, history>>

MailIDForSeq(b, i) == CHOOSE id \in Rows(b) : Cardinality({j \in Rows(b) : j <= id}) = i

\* A number without a mail is an error and ends the handler.
ResolveSeq(c) ==
    LET j == job[c]
        found == [j EXCEPT !.todo = Append(@, MailIDForSeq(j.box, j.lo)), !.lo = @ + 1]
    IN  /\ j.pc = "seq"
        /\ job' = [job EXCEPT ![c] =
             IF j.lo \notin 1..MailCount(j.box) THEN NoJob
             ELSE IF j.lo = j.hi THEN Resolved(found) ELSE found]
        /\ UNCHANGED <<tables, session, beat, imap, history>>

-----------------------------------------------------------------------------
(* Handlers of several steps begin.                                        *)

\* STORE +FLAGS and -FLAGS.
StoreBegin(c) ==
    /\ Command(c) /\ sel[c] # NoBox
    /\ \E f \in Flag, add, uid \in BOOLEAN, r \in Sets :
         /\ job' = [job EXCEPT ![c] =
              Begin([NoJob EXCEPT !.op = "store", !.box = sel[c], !.uid = uid,
                                  !.lo = r[1], !.hi = r[2], !.flag = f, !.add = add])]
         /\ deletion' = (deletion \/ (f = "Deleted" /\ add))
    /\ UNCHANGED <<tables, session, beat, imap>>

\* COPY and MOVE refuse the Outbox as the destination.
TransferBegin(c) ==
    /\ Command(c) /\ sel[c] # NoBox
    /\ \E op \in {"copy", "move"}, b \in Box \ {Outbox}, uid \in BOOLEAN, r \in Sets :
         job' = [job EXCEPT ![c] =
           Begin([NoJob EXCEPT !.op = op, !.box = sel[c], !.dest = b, !.uid = uid,
                               !.lo = r[1], !.hi = r[2]])]
    /\ UNCHANGED <<tables, session, beat, imap, deletion>>

\* APPEND with a list of flags: the mail is created, then the flags are
\* written one by one, each replacing the others.
FlagLists == {<<>>} \cup {<<f>> : f \in Flag} \cup (Flag \X Flag)

AppendBegin(c) ==
    /\ Command(c)
    /\ \E b \in boxes, m \in Msg, list \in FlagLists :
         /\ rpc[m] = "new"
         /\ rpc' = [rpc EXCEPT ![m] = "appended"]
         /\ MailCreate(b, m, {})
         /\ job' = [job EXCEPT ![c] =
              IF list = <<>> THEN NoJob
              ELSE [NoJob EXCEPT !.op = "append", !.pc = "write", !.box = b,
                                 !.list = list, !.id = MailNextID(b)]]
         /\ deletion' = (deletion \/ \E k \in DOMAIN list : list[k] = "Deleted")
    /\ UNCHANGED <<boxes, limit, rid, read, beat, imap>>

-----------------------------------------------------------------------------
(* The steps of handlers, of the application's too.                        *)

RowOf(j) == <<j.box, Head(j.todo)>>
Exists(s) == s \in Slot /\ mail[s] # NoMsg

\* The next id, or the end of the handler.
NextOf(j) ==
    IF Len(j.todo) <= 1 THEN NoJob
    ELSE [j EXCEPT !.todo = Tail(j.todo), !.snap = NoSnap, !.id = 0,
                   !.pc = IF j.op = "move" THEN "insert" ELSE "select"]

\* Any storage call of a handler may fail, which ends it.
HandlerFails(u) ==
    /\ StorageFault /\ ~Idle(u)
    /\ job' = [job EXCEPT ![u] = NoJob]
    /\ UNCHANGED <<tables, session, beat, imap, history>>

\* MailSelect of the next id: no row is an error, too.
HandlerSelect(u) ==
    LET j == job[u] IN
    /\ j.pc = "select"
    /\ job' = [job EXCEPT ![u] =
         IF Exists(RowOf(j))
           THEN [j EXCEPT !.snap = [msg |-> mail[RowOf(j)], flags |-> flags[RowOf(j)]],
                          !.pc = IF j.op = "copy" THEN "create" ELSE "write"]
           ELSE NoJob]
    /\ UNCHANGED <<tables, session, beat, imap, history>>

\* Mutant: seen and deleted change places in the statement.
NewFlagsSwapped(j) ==
    LET new == IF j.add THEN j.snap.flags \cup {j.flag} ELSE j.snap.flags \ {j.flag}
        swap == [f \in AllFlag |-> CASE f = "Seen" -> "Deleted" [] f = "Deleted" -> "Seen"
                                     [] OTHER -> f]
    IN  {swap[f] : f \in new}

\* All four columns: the one asked for, and the others as they were read.
NewFlags(j) ==
    IF j.add THEN j.snap.flags \cup {j.flag} ELSE j.snap.flags \ {j.flag}

StoreWrite(u) ==
    /\ job[u].op = "store" /\ job[u].pc = "write"
    /\ MailUpdateFlags(job[u].box, Head(job[u].todo), NewFlags(job[u]))
    /\ job' = [job EXCEPT ![u] = NextOf(@)]
    /\ UNCHANGED <<boxes, mail, limit, session, beat, imap, history>>

AppendWrite(c) ==
    /\ job[c].op = "append"
    /\ MailUpdateFlags(job[c].box, job[c].id, {Head(job[c].list)})
    /\ job' = [job EXCEPT ![c] =
         IF Len(@.list) = 1 THEN NoJob ELSE [@ EXCEPT !.list = Tail(job[c].list)]]
    /\ UNCHANGED <<boxes, mail, limit, session, beat, imap, history>>

CopyCreate(c) ==
    /\ job[c].pc = "create"
    /\ \/ /\ job[c].dest \in boxes
          /\ MailCreate(job[c].dest, job[c].snap.msg, {})
          /\ job' = [job EXCEPT ![c].id = MailNextID(job[c].dest), ![c].pc = "write"]
       \/ /\ job[c].dest \notin boxes
          /\ job' = [job EXCEPT ![c] = NoJob]
          /\ UNCHANGED <<mail, flags>>
    /\ UNCHANGED <<boxes, limit, session, beat, imap, history>>

CopyWrite(c) ==
    /\ job[c].op = "copy" /\ job[c].pc = "write"
    /\ MailUpdateFlags(job[c].dest, job[c].id, job[c].snap.flags)
    /\ job' = [job EXCEPT ![c] = NextOf(@)]
    /\ UNCHANGED <<boxes, mail, limit, session, beat, imap, history>>

\* Mutant: the result of the INSERT is not looked at.
MoveInsertUnchecked(c) ==
    /\ job[c].pc = "insert" /\ WriterFree
    /\ \/ /\ Exists(RowOf(job[c])) /\ job[c].dest \in boxes
          /\ MailCreate(job[c].dest, mail[RowOf(job[c])], flags[RowOf(job[c])])
       \/ /\ Exists(RowOf(job[c])) /\ job[c].dest \notin boxes
          /\ UNCHANGED <<mail, flags>>
    /\ job' = [job EXCEPT ![c].pc = "delete"]
    /\ UNCHANGED <<boxes, limit, session, beat, imap, history>>

\* MailMove without a file store, which fails for large mails: one task of the
\* Writer reads the row and inserts its copy ...
MoveInsert(c) ==
    LET s == RowOf(job[c])
        possible == Exists(s) /\ job[c].dest \in boxes /\ ~IsLarge(mail[s])
    IN  /\ job[c].pc = "insert" /\ WriterFree
        /\ \/ /\ possible
              /\ MailCreate(job[c].dest, mail[s], flags[s])
              /\ job' = [job EXCEPT ![c].id = MailNextID(job[c].dest), ![c].pc = "delete"]
           \/ /\ ~possible
              /\ job' = [job EXCEPT ![c] = NoJob]
              /\ UNCHANGED <<mail, flags>>
        /\ UNCHANGED <<boxes, limit, session, beat, imap, history>>

\* ... and then deletes it.  Each commits by itself.
MoveDelete(c) ==
    /\ job[c].pc = "delete"
    /\ RemoveRows({RowOf(job[c])})
    /\ job' = [job EXCEPT ![c] = NextOf(@)]
    /\ UNCHANGED <<boxes, limit, session, beat, imap, history>>

-----------------------------------------------------------------------------
(* Mailboxes, by a client or by the application.                           *)

MailboxCreate(u) ==
    /\ Command(u) /\ WriterFree
    /\ \E b \in Box : boxes' = boxes \cup {b}
    /\ UNCHANGED <<mail, flags, limit, session, beat, imap, job, deletion>>

\* Mutant: foreign keys are not enforced.
CascadeNothing(b) == UNCHANGED <<mail, flags>>

\* ON DELETE CASCADE
Cascade(b) == RemoveRows({s \in Slot : s[1] = b})

\* User.DeleteMailbox protects the default ones, YggmailService does not.
MailboxDelete(u) ==
    /\ Command(u) /\ WriterFree
    /\ \E b \in boxes :
         /\ u \in Client => b \notin Protected
         /\ boxes' = boxes \ {b}
         /\ Cascade(b)
    /\ deletion' = TRUE
    /\ UNCHANGED <<limit, session, beat, imap, job>>

\* RenameMailbox(old, new): the parameters are bound the other way round, so
\* `new' is renamed to `old', with its mails (ON UPDATE CASCADE).
MailboxRename(u) ==
    /\ Command(u) /\ WriterFree
    /\ \E old, new \in Box :
         /\ u \in Client => old \notin Protected
         /\ new \in boxes /\ old \notin boxes
         /\ boxes' = (boxes \ {new}) \cup {old}
         /\ LET from(s) == IF s[1] = old THEN <<new, s[2]>> ELSE s IN
            /\ mail' = [s \in Slot |-> IF s[1] = new THEN NoMsg ELSE mail[from(s)]]
            /\ flags' = [s \in Slot |-> IF s[1] = new THEN {} ELSE flags[from(s)]]
    /\ UNCHANGED <<limit, session, beat, imap, job, deletion>>

-----------------------------------------------------------------------------
(* The application.                                                        *)

\* MarkMailSeen and MarkMailFlagged: the handler of STORE for one id.
MarkMail ==
    /\ Command(App)
    /\ \E s \in Slot, f \in Flag \cap {"Seen", "Flagged"}, add \in BOOLEAN :
         job' = [job EXCEPT ![App] =
           [NoJob EXCEPT !.op = "store", !.pc = "select", !.box = s[1],
                         !.todo = <<s[2]>>, !.flag = f, !.add = add]]
    /\ UNCHANGED <<tables, session, beat, imap, deletion>>

DeleteMail ==
    /\ Command(App)
    /\ \E s \in Slot : MailDelete(s[1], s[2])
    /\ deletion' = TRUE
    /\ UNCHANGED <<boxes, mail, limit, session, beat, imap, job>>

ExpungeMailbox ==
    /\ Command(App)
    /\ \E b \in Box : MailExpunge(b)
    /\ UNCHANGED <<boxes, limit, session, beat, imap, job, deletion>>

SetMaxMessageSizeMB ==
    /\ Command(App) /\ WriterFree
    /\ limit' \in Limits
    /\ UNCHANGED <<boxes, mail, flags, session, beat, imap, job, deletion>>

\* The process is killed and started again: Initialize creates the default
\* mailboxes that are missing.
Crash ==
    /\ "crash" \in Events
    /\ boxes' = boxes \cup Protected
    /\ rpc' = [m \in Msg |-> IF rpc[m] \in {"new", "accepted", "refused", "appended"}
                               THEN rpc[m] ELSE "refused"]
    /\ rid' = [m \in Msg |-> 0] /\ read' = [m \in Msg |-> 0]
    /\ beat' = NoCount
    /\ sel' = [c \in Client |-> NoBox] /\ told' = [c \in Client |-> 0]
    /\ job' = [u \in User |-> NoJob]
    /\ UNCHANGED <<mail, flags, limit, history>>

-----------------------------------------------------------------------------
Session(m) ==
    \/ SessionMail(m) \/ SessionData(m) \/ SessionStore(m) \/ SessionSelect(m)
    \/ SessionCheck(m) \/ SessionRefuse(m) \/ SessionExpunge(m)
    \/ SessionCount(m) \/ SessionNotify(m)

ClientCommand(c) ==
    \/ Select(c) \/ Expunge(c) \/ StoreBegin(c) \/ StoreReplace(c)
    \/ TransferBegin(c) \/ AppendBegin(c)

ClientStep(c) ==
    \/ ResolveStar(c) \/ ResolveSeq(c) \/ AppendWrite(c)
    \/ CopyCreate(c) \/ CopyWrite(c) \/ MoveInsert(c) \/ MoveDelete(c)

HandlerStep(u) == HandlerSelect(u) \/ StoreWrite(u) \/ HandlerFails(u)

MailboxCall(u) == MailboxCreate(u) \/ MailboxDelete(u) \/ MailboxRename(u)

Application == MarkMail \/ DeleteMail \/ ExpungeMailbox \/ SetMaxMessageSizeMB

Next ==
    \/ \E m \in Msg : Session(m)
    \/ HeartbeatCount \/ HeartbeatNotify
    \/ \E c \in Client : ClientCommand(c) \/ ClientStep(c)
    \/ \E u \in User : HandlerStep(u) \/ MailboxCall(u)
    \/ Application
    \/ Crash

Spec == Init /\ [][Next]_vars

\* heartbeatSender's ticker goes on, and some of its queries succeed.
FairSpec == Spec /\ WF_vars(HeartbeatCount) /\ WF_vars(HeartbeatNotify)

-----------------------------------------------------------------------------
(* Properties.                                                             *)

\* As long as nobody deletes anything, a mail that was accepted from a remote
\* node or appended by a client is in some mailbox: through copies and moves
\* with stale ids, renamed mailboxes, failing calls and crashes.
StoredMailKept ==
    ~deletion => \A m \in Msg : rpc[m] \in {"accepted", "appended"} => Stored(m)

\* And when something is deleted: the last row of a mail goes only with an
\* expunge that finds it flagged or with its mailbox, in particular not with
\* a move, whatever happens between its INSERT and its DELETE.
OnlyFlaggedMailGoes ==
    [][\A m \in Msg : Stored(m) /\ ~Stored(m)' =>
         \A s \in Slot : mail[s] = m =>
           "Deleted" \in flags[s] \/ boxes' = boxes \ {s[1]}]_vars

\* A client that stays in INBOX learns how many mails there are, also when the
\* counts of several sessions and heartbeats reach it in the wrong order.
ToldTheCount ==
    \A c \in Client : \A n \in 0..MaxId :
      <>[](sel[c] = Inbox /\ MailCount(Inbox) = n) => <>[](told[c] = n)

\* A session that refuses a mail removes that mail and no other: one that is
\* flagged \Deleted stays until a user expunges the mailbox.
RemovesOnlyItsOwn ==
    [][\A m \in Msg : Stored(m) /\ ~Stored(m)'
         => \A n \in Msg : rpc'[n] # rpc[n] => n = m]_vars

=============================================================================
