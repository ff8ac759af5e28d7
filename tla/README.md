# A TLA+ development of Yggmail for Android

Yggmail is a mail server that runs on the user's own device and exchanges mails
with other nodes over the Yggdrasil network. A mail client on the device talks
to it over local SMTP and IMAP; the node delivers outgoing mails itself and
accepts incoming ones from other nodes. An address is a node's public key, so
there is one recipient node per address.

This directory holds TLA+ modules translated from the Go source, TLC
configurations for small instances, and theorems checked by TLAPS.
`PROJECT.json` maps every definition to the lines it models.

## Inventory

| Component | Source | State it keeps | Operations |
|---|---|---|---|
| SMTP sender | `internal/smtpsender/sender.go` | per destination: `running`, `retryCount`, `lastAttempt`; `triggerCh` | `QueueFor`, `QueueForStream`, `queueFor`, `manager`, `ResetRetryCounters`, `run`, `calculateBackoff`, error classes |
| Queue table | `internal/storage/sqlite3/table_queue.go` | rows (destination, mailbox, id, from, rcpt) | list destinations, ids for a destination, insert, delete, pending? |
| Mails table | `internal/storage/sqlite3/table_mails.go` | rows (mailbox, id, flags, date, blob or file name) | create, create from stream, select, search, flags, delete, expunge, move, count |
| Writer | `internal/storage/sqlite3/sqlite3.go` | a channel of tasks | `Do`, `run` (one write at a time) |
| Mailboxes, config | `table_mailboxes.go`, `table_config.go` | mailbox names, key/value settings | create, rename, delete, subscribe; password, size limit |
| Migrations | `migrations.go` | schema version | v1 to v2, large mails to files |
| File store | `internal/storage/filestore` | one file per large mail | store, read, delete, move, clean up orphans |
| SMTP server | `internal/smtpserver` | a session: from, recipients | local session (submit), remote session (receive) |
| IMAP server | `internal/imapserver` | connections that idle | list, status, fetch, append, flags, copy, move, expunge, notify |
| Mobile service | `mobile/yggmail.go` | running?, servers, timers, callbacks | initialize, start, stop, close, network and peer changes, heartbeat, mailbox API |
| Transport | `internal/transport` | QUIC sessions | dial, accept |
| Addresses, welcome mail, logging, command line | `internal/utils`, `internal/welcome`, `internal/logging`, `cmd/yggmail` | none of their own | |

How they interact: a local SMTP session (or `SendMail` of the mobile API) calls
`QueueFor`, which stores the mail in mailbox *Outbox*, inserts one row of table
`queue` per recipient and starts a goroutine `run` per destination. `run` sends
the mails over the transport to the recipient's remote SMTP session, which
stores them in its *INBOX* and notifies IMAP clients and the mobile callbacks.
A mail whose last recipient is served moves from *Outbox* to *Sent*. IMAP
clients and the mobile API act on the same tables at any time. The mobile
service builds and tears down all of it, and resets the retry counters when the
network changes.

What is hard here:

* **Interleaving.** Submitters, the manager's timer chain, one goroutine per
  destination, IMAP sessions and mobile API calls share the tables. Every
  storage call commits on its own; no operation spans two of them.
* **Ids are reused.** `INSERT ... MAX(id)+1` gives a freed id to the next mail,
  while runs and submitters hold ids across storage calls.
* **Failure.** Every storage call can fail and most results are ignored;
  Android can kill the process at any point; transfers break half way.
* **Order.** The last "." of a transfer is sent by a deferred call, after the
  mail was dequeued and moved.
* **Retries and timers.** Backoff belongs to a destination, not to a mail; the
  manager must reschedule itself; a trigger channel is written and never read.

What makes each component correct, beyond its types:

* sender: one goroutine per destination; a queued recipient stays queued until
  served, refused, expired or deleted; a mail reaches only its recipients, once
  when nothing fails; a run moves a mail to *Sent* only when it finds nobody left
  to serve; the Outbox drains; failed rows are retried, after a backoff;
* mails and file store: a row's file exists and is its own; a file without a
  row is removed, a file with a row never is; a move keeps the content;
* Writer: a write that `Do` reports as done has happened;
* SMTP sessions: an accepted mail stays until somebody deletes one, and a refusal
  removes that mail and no other;
* IMAP and mobile API: no change of flags, move, copy or rename takes the last
  row of a mail, whatever ids a handler holds and whatever fails; a client
  learns how many mails there are;
* service: no sequence of calls panics; after `Stop` nothing listens and all
  goroutines end; while it runs it serves its clients and, after a network
  change, other nodes again.

## Modules

| Module | Content |
|---|---|
| `SmtpSender` | the sender over the tables `queue` and `mails` (Outbox, Sent): state, actions, properties |
| `SmtpSenderInv` | the inductive invariants, named part by part |
| `SmtpSenderProofs` | types and one goroutine per destination: theorems and proofs |
| `SmtpSenderQueueProofs` | what the tables guarantee: theorems and proofs |
| `MailDelivery` | what the outgoing side promises, without goroutines, rows and ids |
| `SmtpSenderRefinement` | the refinement mapping from `SmtpSender` to it |
| `SmtpSenderRefinementProofs` | the refinement as a theorem, with its proof |
| `SmtpSenderCopiesProofs` | nobody gets a mail twice: theorem and proof |
| `MCSmtpSender` | the instances for TLC |
| `LargeMailStore` | rows of `mails` in all mailboxes and the files of large mails: state, actions, properties |
| `LargeMailStoreProofs` | its safety properties: theorems and proofs |
| `MailShelf` | what the storage promises a reader, without rows, ids and files |
| `LargeMailStoreRefinement` | the refinement mapping from `LargeMailStore` to it |
| `LargeMailStoreRefinementProofs` | the refinement as a theorem, with its proof |
| `MCLargeMailStore` | its instances for TLC |
| `MailServer` | mailboxes and flags under remote SMTP sessions, IMAP connections, the application and the heartbeat |
| `MailServerProofs` | its safety properties: theorems and proofs |
| `MCMailServer` | its instances for TLC |
| `ServiceLifecycle` | `YggmailService` with its servers, timers, transport and database |
| `ServiceLifecycleProofs` | its safety properties: theorems and proofs |
| `MCServiceLifecycle` | its instances for TLC |

How they fit together: `SmtpSender` has the queue and the Outbox, and treats
INBOX as a place where a mail arrives; `MailServer` has all mailboxes with
flags and sequence numbers, and no queue; `LargeMailStore` has the files behind
the rows of `mails`, which the other two leave out. `ServiceLifecycle` has the
objects in which all of these run. `SmtpSender` implements `MailDelivery`,
`LargeMailStore` implements `MailShelf`.

### SmtpSender

The state has four groups. The **database** (`outbox`, `deleted`, `expired`,
`queue`, `sent`) survives a crash. **In memory** are `running`, `retrying`,
`attempted` (is `lastAttempt` set?), `trigger` and the manager. Each **run**,
identified by a worker `<<destination, slot>>`, has a program counter `pc` and
the locals of its loop body: `refs` still to visit, `cur` (`ref.ID`), `snap`
(the mail `MailSelect` returned), `res` (why the body is left). Each
**submitter** is at `subPc`. Slots let the model run two goroutines for a
destination, so that "at most one" is a fact about `running` and not about the
shape of the model.

One action is one storage call, one network exchange or one deferred call:

| Code | Actions |
|---|---|
| `QueueFor`, `QueueForStream` | `QueueForCreate`, `QueueForBadAddress`, `QueueForInsert`, `QueueForSpawn`, `QueueForReturn` |
| `manager` | `ManagerList`, `ManagerSpawn`, `ManagerReschedule` |
| `ResetRetryCounters` | `ResetRetryCounters`; it writes without synchronisation, so for running destinations the write may be lost |
| `run`, before the loop | `RunStart`, `RunWake` (the backoff), `RunFetch` |
| `run`, loop head | `RunSkip`, `RunSelect`, `RunDone` |
| deleted, too old or refused mails | `DropDequeue`, `DropPending`, `DropFlag`, `DropExpunge` |
| loopback | `SelfDeliver`, `SelfDequeue`, `SelfPending`, `SelfMove` |
| remote delivery | `RemoteDial` (dial to DATA), `RemoteData`, `RemoteAbort`, `RemoteDequeue`, `RemotePending`, `RemoteMove`, `RemoteClose` (the deferred `writer.Close`), `RemoteClassify` |
| deferred calls of `run` | `RunExpunge`, `RunStop` |
| outside | `Expire`, `UserDelete`, `UserExpunge`, `Crash` |

Constant `Events` says which failures an instance allows: storage errors,
crashes, broken transfers, expiry, network changes, mail clients.

Abstractions. A mail is a model value: contents, sizes and the choice between
blob and file are left out, as both paths make the same calls in the same order
here. The text of an error is reduced to its class (network, temporary,
permanent). The length of the backoff is left out: a run that must wait is at
`sleep` until it wakes. Of `retryCount` the model keeps whether it is positive
(`retrying`): outside `calculateBackoff` the code only compares it with 0, and
an `int` that failed attempts raise, each after a dial, does not get back to 0
by itself. `permanentFailure` is
written and never read, so it is left out. `queued`, `concluded` and `failed`
are history variables: what was queued, what is settled (body written out,
refused, expired or deleted by the user), and which rows failed last time.

### LargeMailStore

A mail over 10 MB is a row with a file name (`mail_file`) instead of a blob. The
rows (`mail`, `mailFile`, `deleted`) and the directory (`files`) survive a
crash; a `<<mailbox, id>>` pair is both the key of a row and the name of a file.
In memory are the calls of `MailCreateFromStream` under way (`pc`, `box`,
`nextID`), the Writer's `task`, and the migration (`mgPc`, `mgTodo`, `mgRow`).
History variables say which mails somebody asked to delete (`everFlagged`) and
which a move left between two mailboxes (`stranded`).

| Code | Actions |
|---|---|
| `MailCreate` | `MailCreate` |
| `MailCreateFromStream`, `StoreMail` | `StreamNextID`, `StreamStore`, `StreamInsert` |
| `MailDelete`, `MailUpdateFlags` | `MailUpdateFlags` |
| `MailExpunge`; with the file store | `MailExpunge`; `ExpungeFiles`, `ExpungeRows` |
| `MailMove`, `MailMoveWithFileStore` | `MoveFile`, `MoveInsert` (with the undo), `MoveDelete` |
| `MigrateLargeMessagesToFiles` | `MigrateQuery`, `MigrateStore`, `MigrateUpdate`, `MigrateDone` |
| outside | `Crash` |

Constant `Events` adds failing calls, crashes, and `"overlap"`: without it,
operations overlap only when they concern different mailboxes (`MayStart`). The
code does not enforce that; it is the condition under which the store is shown
to be right, and `store_overlap` shows what happens without it. Temporary files
are left out, `StoreMail` being one rename for everyone else; so are sizes,
dates and flags other than *deleted*. Deleting a whole mailbox is in
`MailServer`. While the migration's query is open, SQLite's rollback journal
keeps other connections from committing; the model lets its UPDATE succeed or
fail, and so covers builds with either outcome.

### MailDelivery

Four sets: which pairs of mail and node are `waiting`, which are `settled`
(transmitted, refused or given up), which nodes have `got` their mail, which
mails are in `sent`. `SmtpSenderRefinement` maps `waiting` to the join of the
tables `queue` and `mails`, so nothing of the promise is in memory and a crash is
a stutter; `settled` to `concluded`; `got` to the nodes with a complete copy.

| Abstract action | Steps of `SmtpSender` |
|---|---|
| `Accept` | the row is inserted (`QueueForInsert`) |
| `Settle` | `RunSelect` of an expired mail, `SelfDeliver`, a refusal in `RemoteDial`, `RemoteData` |
| `Receive` | `RemoteClose`, also of a second copy |
| `Forget` | `DropDequeue`, `SelfDequeue`, `RemoteDequeue` |
| `File` | `SelfMove`, `RemoteMove`, half of a move, a crash in the middle of one |
| none | everything else: reads, flags, expunges, timers, retries, crashes |

### MailShelf

What a reader sees of the storage: which mails were ever `stored`, which pairs
of mailbox and mail are `held`, the pair that is `carried` by a move while no row
shows it, which mails somebody `asked` to delete and which were `lost` on the
way. A pair is held when the mailbox has a row of the mail that can be read: the
content is in the row, or in the file the row names. `carried` is the file a
move has renamed, until the row at its destination is inserted.

| Abstract action | Steps of `LargeMailStore` |
|---|---|
| `Store` | `MailCreate`, `StreamInsert` |
| `Ask` | `MailUpdateFlags` that sets the flag |
| `Discard` | `MailExpunge`, `ExpungeFiles`, `ExpungeRows`, `MoveDelete` |
| `Copy` | `MoveInsert` of a mail without file |
| `TakeUp` | `MoveFile` of a mail with a file |
| `PutDown` | `MoveInsert`, with its undo |
| `Drop` | `MoveInsert` whose undo fails, a crash in between |
| none | everything else: `StreamNextID`, `StreamStore`, failed calls, the whole migration, other crashes |

Only `Store` and `Copy` show something that was not there, the first for a mail
that is new and the second for one that can be read: what is gone stays gone,
although ids are used again and files and rows are left behind.

### MailServer

The tables are `boxes`, `mail` (rows by mailbox and id), `flags` and `limit`
(`max_message_size`). There is one remote session per mail (`rpc`, with the id
its mail was given, `rid`, and the size or count it has `read`), one connection
per client (`sel`, `told`), one heartbeat (`beat`, the count it has read), and
one handler at a time per client and for the application (`job`). A handler
holds what it has read: the ids it has still to visit (`todo`), a mail with its
flags (`snap`), the id it created. One action is one storage call, a query of a
sequence set too; a move is two, because it commits twice.

| Code | Actions |
|---|---|
| `SessionRemote.Mail`, `Data` | `SessionMail`, `SessionData`, `SessionStore`, `SessionSelect`, `SessionCheck`, `SessionRefuse`, `SessionExpunge`, `SessionCount`, `SessionNotify` |
| `sendHeartbeat` | `HeartbeatCount`, `HeartbeatNotify` |
| `IMAPNotify.NotifyNew` | `NotifyNew` in `SessionNotify` and `HeartbeatNotify` |
| `GetMailbox` and `Status`, `Expunge` | `Select`, `Expunge` |
| `getIDsFromSeqSet` | `Begin`, then `ResolveStar` and one `ResolveSeq` per number |
| `UpdateMessagesFlags` | `StoreBegin`, `HandlerSelect`, `StoreWrite`; `StoreReplace` for a replacing STORE |
| `CopyMessages` | `TransferBegin`, `HandlerSelect`, `CopyCreate`, `CopyWrite` |
| `MoveMessages`, `MailMove` | `TransferBegin`, `MoveInsert`, `MoveDelete` |
| `CreateMessage` | `AppendBegin`, `AppendWrite` |
| an error of any of these calls | `HandlerFails` |
| `CreateMailbox`, `DeleteMailbox`, `RenameMailbox` (IMAP and application) | `MailboxCreate`, `MailboxDelete`, `MailboxRename` |
| `MarkMailSeen`, `MarkMailFlagged`, `DeleteMail`, `ExpungeMailbox`, `SetMaxMessageSizeMB` | `MarkMail`, `DeleteMail`, `ExpungeMailbox`, `SetMaxMessageSizeMB` |
| outside | `Crash` |

A mail is a model value with a size. The size is compared with the limit three
times: as announced, as estimated from what fits in memory (`Estimate`), and as
stored with the header lines added, which for a large mail is read from its row
(`RowSize`); only the last refusal has something to clean up, with two calls
whose errors the code does not look at. Only the Writer keeps calls apart:
while a move is between its INSERT and its DELETE, other writes wait
(`WriterFree`), and queries do not. No handler excludes another, and ids are
used again under the hands of all of them. `deletion` is history: somebody has
asked to delete something, or a session has refused a mail that was stored.
Left out: contents, dates, authentication, address checks, subscriptions, and
commands that only read (FETCH, SEARCH, LIST).

### ServiceLifecycle

Each `Start` has a number. `s.queues`, `s.imapServer` and the four channels are
made by `Start`, so one variable `gen` says which ones the fields name; the
goroutines (`local`, `overlay`, `imap`, `tick`) are functions of the number.
`doneCh` and `tickOn` say which channel a goroutine evaluated, which may be a
later one than its own. Databases and transports are numbered as they are
opened; `dbs` and `listening` say which are open. A critical section of `s.mu`
that does not wait is one step; `Stop` holds it (`mu`) while it sleeps and waits.

| Code | Actions |
|---|---|
| `Initialize`, its migration goroutine, `Close` | `Initialize`, `Migrate`, `Close` |
| `Start` | `Start` (`NewYggdrasilTransport`, `StartServers`) |
| `startLocalSMTP` | `LocalStart`, `LocalListen`, `LocalReturn` (the deferred close) |
| `startOverlaySMTP` | `OverlayStart`, `OverlayReturn` |
| `NewIMAPServer`'s goroutine | `ImapListen`, `ImapReturn` |
| `heartbeatSender`, `idleTimeoutChecker` | `TickSelect`, `TickFire`, `TickBody`, `TickStop` |
| `Queues.manager`, seen from outside | `ManagerEnds` |
| `Stop`, `IMAPServer.Close` | `StopBegin`, `StopSleep`, `StopImapClose`, `StopImapWait`, `StopServers`, `StopReturn` |
| `UpdatePeers` | `UpdatePeers` |
| `OnNetworkChange` | `NetworkCheck`, `NetworkClose`, `NetworkRenew` |

Timeouts of `Stop` (100 ms, 2 s, 3 s) run out before the goroutines they wait
for are done only under event `"slow"`. `"init"`, `"peers"` and `"close"` are
failures of `Initialize`, of yggdrasil and of closing the database. Peers that
`UpdatePeers` cannot parse, remove or add are only logged by the code: any subset
of them may fail in its action, and `lastPeers` is set all the same.

## Runs

| Run | Instance | Shows |
|---|---|---|
| `sender_storage` | loopback and remote mail, every storage call may fail | `TypeOK`, `NoMailLost`, `RightRecipient`, `QueueInv` |
| `sender_crash` | two mails for one node; crash at any step, broken transfers, network changes | `NoMailLost`, `ImplementsDelivery` |
| `sender_interleave` | a mail for two nodes and an unparseable address, a second mail; expiry | `SingleRunner`, `NoDuplicateCopy`, `MovesOnlySettled` |
| `sender_live` | a mail for two nodes under `FairSpec`; a mail client that deletes, expiry | `OutboxDrains`, `RetriedEventually`, `DeletedMailGoes` |
| `sender_misdelivery` | a mail for two nodes and a second mail, nothing fails | violates `RightRecipient` |
| `sender_accepted` | one mail | violates `SentWasAccepted` |
| `store_serial` | two large mails, three mailboxes, one operation per mailbox at a time; one failure or crash at any point | `TypeOK`, `FileNamedAfterRow`, `NoForeignContent`, `NoContentLost`, `ImplementsShelf` |
| `store_overlap` | the same with overlapping operations, nothing fails | violates `NoForeignContent` |
| `mailserver` | a mail, small or large, from a remote node, another one appended, one client, the application, the heartbeat, two mailboxes, a limit that is lowered; any storage call fails, crashes | `TypeOK`, `StoredMailKept`, `OnlyFlaggedMailGoes`, `ToldTheCount` |
| `mailserver_refusal` | two mails from remote nodes, nothing fails | violates `RemovesOnlyItsOwn` |
| `service_restart` | one thread makes all calls, another starts the service too; two Starts, two databases, three transports | `TypeOK`, `NoPanic`, `RunningHasStorage`, `StoppedIsSilent`, `GoroutinesEnd`, `ClientsServed` |
| `service_network` | one thread, one Start, one network change | violates `OverlayServed` |

Deadlock checking is off in `sender_storage`: once the manager has stopped and
all submissions are over, the sender really comes to rest. It is off in the runs
of the store and of the service, whose callers may stop calling.

### Bounds

Two mails are the least for which an id can be reused and for which one mail of
a destination can succeed and another fail; two destinations the least for
which the "last recipient" check matters; two slots are enough to see a second
goroutine.
`MaxId` equals the number of mails, so it never blocks a submission. One copy is
enough except in `sender_interleave`, where two are counted.

In the store two mails are the least for which a file can hold the wrong one,
and two ids per mailbox the least for which a file's number and a row's can
differ. One fault (`MaxFaults`) is enough for every error path and every point
of a crash; two in a row do not fit the time of a run. The two mails are
interchangeable and no property names one, so symmetry is sound for the
invariants and for the steps of `MailShelf`.

In `MailServer` a small and a large mail reach every one of the three size
checks: with threshold 2, one header line of weight 1 and limits 4 and 2, the
large mail is refused after it was stored, and so is the small one when the
limit is lowered in between. One client and the application are two handlers on
one mailbox, which is what a stale snapshot or id takes, beside the session and
the heartbeat. Two commands (`MaxOps`) are a command and one that interferes with
it between two of its calls; `mailserver_refusal` needs a third. Two ids per
mailbox (`MaxId`) let an id be used again and a number and an id differ. Two
flags are enough, one that removes and one that does not; four are in `AllFlag`.
`MaxRows` bounds the copies of copies. In `mailserver` one of the two mails comes
from a remote node (`MaxArrivals`), so that failures fit the time of a run; two
sessions at once are in `mailserver_refusal`, and in the theorems, which have
any number.

In `ServiceLifecycle` two Starts are the least for which a goroutine can meet the
channel of a later one, and two databases the least for which a field can name a
closed one after another was opened. Three transports leave one for a network
change beside two Starts. One peer can be added, removed and kept. Only the
heartbeat ticks (`Ticking`): the idle checker is the same loop without a use of
the storage.

### Fairness

`FairSpec` assumes that goroutines and the timer chain are scheduled
(`WF(Run(w))`, `WF(Manager)`), that a submitter which stored its mail goes on,
and that time passes (`WF(Expire)`). The Go runtime schedules every runnable
goroutine, dialling and transfers have deadlines, and `time.Sleep` returns. No
fairness is assumed of mail clients, of the network or of the remote node, nor
that a mail is ever submitted. That the Outbox drains therefore rests on the
seven-day limit and not on a successful delivery.

`ServiceLifecycle` assumes that goroutines are scheduled and that calls which
have begun go on (`WF`), and that Go's `select`, which chooses at random among
the ready cases, does not pass over a closed channel for ever (`SF(TickStop)`).
No call of the application is assumed to happen. `MailServer` assumes only that
the heartbeat's ticker goes on and that it sends the count it has read
(`WF(HeartbeatCount)`, `WF(HeartbeatNotify)`): some of its queries succeed.
Nothing is assumed of handlers, sessions or clients; `ToldTheCount` is about
clients that stay in INBOX while its number of mails stays.

### What the code does otherwise than it says

* **Ids freed between two inserts** (`sender_misdelivery`). `QueueFor` inserts
  one row per recipient and starts a run after each. The run that serves the
  first recipient finds no other row, takes itself for the last and moves the
  mail to *Sent*. Then either the next insert fails on the foreign key, and the
  second recipient gets nothing although the mail is in *Sent*, or another mail
  has been given the id meanwhile and is delivered to the wrong node. That a
  mail in *Sent* has nobody left to serve is therefore not claimed, only that a
  run which decides to move it has found nobody (`MovesOnlySettled`).
* **The final answer is ignored** (`sender_accepted`).
* **A success clears the backoff of all mails of the destination**:
  `retryCount` belongs to the destination, and a mail that failed is tried again
  without a pause if a later one in the same run succeeded.
* **`triggerCh` has no reader**: the "immediate queue processing" it is to
  trigger never happens.
* **One failing query ends the manager**: with storage errors under `FairSpec`,
  `RetriedEventually` fails after one failing `QueueListDestinations`.
* **A network change ends the reception of mails** (`service_network`).
  `OnNetworkChange` closes the listener the overlay SMTP server accepts from.
  `Serve` returns, the new transport's listener is served by nobody.
* **A refusal removes other mails too** (`mailserver_refusal`). A mail that turns
  out too large after it was stored is removed with an expunge of the INBOX.
* **A mail client and a run meet on an id.** With two mails and events
  `{"user"}`, a run that holds the id of a mail the client has expunged acts on
  the next mail with that id: it deletes its row or moves it to *Sent* unsent.
  `NoMailLost` then fails, and the mail whose row was deleted stays in the
  Outbox for ever. This is why `sender_live`, which has a mail client, has one
  mail, and why the runs for `NoMailLost` have none.

* **Two large mails at once share a file** (`store_overlap`).
  `MailCreateFromStream` reads the next id, writes the file of that name, and
  only then inserts the row. A second call in between gets the same name and
  replaces the first mail's content.
* **A large mail can be lost in a move.** The file is renamed before the new row
  is inserted; a crash in between leaves the old row without a file and the file
  without a row, and nothing repairs that. `NoContentLost` excepts these mails
  (`stranded`) and no others.
* **Calls of the service that race or fail.** These are the conditions of
  `service_restart`, and each is needed. With `"slow"`, a server goroutine that
  starts only after `Stop` and the next `Start` closes a done channel a second
  time and panics, or listens although the service is stopped; the migration
  started by `Initialize` panics if `Close` comes first. With `"init"`, an
  `Initialize` that failed half way leaves `s.storage` set, and `Start` panics
  on the missing configuration. With `"peers"`, a rejected peer panics. With
  `"close"`, `s.storage` keeps naming a closed database. If another thread than
  the one that calls `OnNetworkChange` stops the service meanwhile, the stopped
  service listens; if it changes the peers, the old ones come back.
* **Peers that fail are not tried again.** `UpdatePeers` logs a peer it cannot
  parse, remove or add and takes the new list over all the same, so the core
  and the configuration differ from then on; a peer that yggdrasil rejects makes
  the next `OnNetworkChange` panic (`"peers"`).
* **`MailboxRename` renames the new name to the old one**, and a client may so
  rename INBOX; the mails go along, which is why `StoredMailKept` survives it.
* **A replacing STORE closes the connection** (`StoreReplace`): the handler uses
  a mail it has not selected.
* **A refused mail may stay.** The errors of `MailDelete` and of the expunge are
  not looked at, and a STORE that has read the mail before takes the \Deleted
  flag back: its sender was told that it was not accepted, and it is in INBOX.
  No property says that a refusal leaves no trace.
* **Flags meet the wrong mail.** A handler writes the flags it has read to an id
  that may be another mail's by then, so that a \Deleted can reach a mail
  nobody meant, which the next expunge takes. This needs somebody who deletes:
  `StoredMailKept` is about the time before that, and `OnlyFlaggedMailGoes` about
  the flags a row has, whoever set them.
* **Sequence sets miss mails.** `*` is replaced by the highest id also when
  sequence numbers are meant: once an id is missing, `1:*` counts past the last
  mail, which is an error. The set `*` alone starts from 0 and always fails. A
  range of UIDs with a gap ends at the gap, its first half done.
* **A write that fails to begin is reported as done** (`Writer.run`): `Do` then
  returns nil, and a session answers 250 for a mail it has not stored. Not in
  the modules, whose calls fail only with an error.

## Proofs

For all sets of destinations, mails and slots, all recipient lists and all
combinations of failures, `SmtpSenderProofs` proves

* `TypeCorrect`: `Spec => []TypeOK`;
* `OneRunnerPerDestination`: `Spec => []SingleRunner`.

For mails with one recipient each (`SingleRecipient`) and an Outbox no mail
client deletes from (`"user" \notin Events`), and for all other failures,
`SmtpSenderQueueProofs` proves

* `QueueInvariant`: `Spec => []QueueInv`;
* `NothingLost`: `Spec => []NoMailLost`;
* `OnlyToRecipients`: `Spec => []RightRecipient`.

Both conditions are needed: with a mail client TLC refutes `NoMailLost`, with
several recipients `RightRecipient` (see above). The constants are assumed to be
as `ConstantsAssumption` says, nothing else.

**Types.** `TypeOK` is not inductive: `DropDequeue` or `MailMove` use `cur` and
`snap`, which are an id and a mail only inside the loop body, so `TypeInv` adds
that, and that a submitter past its first storage call knows its id.

**One runner.** `SingleRunner` is inductive once one knows that a submitter at
`spawn` names a destination (`SpawnOK`). Only `queueFor` makes a goroutine
active, together with setting `running`; only the last step of that goroutine,
or a crash, clears it.

**The queue.** `NoMailLost` says nothing about what runs hold in memory, so it
cannot be inductive. `QueueInv` adds, part by part: a row's mail exists, is not
flagged and is addressed to the row's destination (`RowsOK`); what a run has
still to visit is queued (`RefsOK`); the id it holds denotes the mail it read
(`CurOK`) until it moves or flags it; it dequeues only what is settled
(`SettledOK`) and moves or flags only what nobody waits for (`LastOK`); a
submitter's mail is known to nobody before its row is inserted (`SubmitOK`).
The heart is lemma `Exclusive`: the id a run holds is in no other run's hands,
because its mail has one recipient and, by `SingleRunner`, that recipient has
one goroutine. So freeing or flagging the id harms nobody, and the id is reused
only when it is free of references. With two recipients `Exclusive` is false,
and that is where `sender_misdelivery` comes from. The proof has one lemma per
kind of step on the tables (`LocalStep`, `DequeueStep`, `RemoveStep`,
`FlagStep`) and one per group of actions.

**The refinement.** Under the same conditions `SmtpSenderRefinementProofs`
proves

* `Refines`: `Spec => ImplementsDelivery`.

Beyond `QueueInv` it needs `RefInv`: only queued recipients are settled, so a
mail that is taken on is new to the abstract specification; and a mail is in the
Outbox at most once, so a mail that is filed waits nowhere else. There is one
lemma for each abstract action (`SettleStep`, `ForgetStep`, `FileStep`, ...) and
one for each group of steps of the sender. A second copy of a mail is `Receive`
or a stutter, which is how duplicates after a failed dequeue are allowed.

**No duplicates.** If moreover no storage call fails and the process is not
killed (broken transfers, expiry and network changes remain allowed),
`SmtpSenderCopiesProofs` proves

* `NobodyGetsTwo`: `Spec => []NoDuplicateCopy`.

A count of copies says nothing about who is going to send another one.
`CopiesInv` adds that nobody has the mail a run is about to hand over
(`FreshOK`); that a row of a delivered mail is one its run is about to delete,
which happens only on loopback (`ServedOK`); that a run which dequeued its mail
left no row of it, so the deferred "." is the only copy (`GoneOK`); and that what
was delivered was queued, so no row for it is inserted any more (`KnownOK`). With
`SingleRunner`, a run that selects a mail is the only one of the destination, so
`ServedOK` says that the mail is new to the node. Each condition is needed: a row
that cannot be deleted, or that a crash between delivery and dequeue leaves, is
served again; and with two recipients per mail a submitter can insert its second
row on an id that was reused for a mail to the same node, which is then
delivered to it twice (TLC: mails for `<<self, r1>>` and `<<r1>>`). The instance of
`sender_interleave` has several recipients, but no such pair of mails.

**The service.** For any number of threads, databases, restarts, transports and
peers, with `ServiceAssumption` only, `ServiceLifecycleProofs` proves

| Theorem | Excludes |
|---|---|
| `TypeCorrect`: `Spec => []TypeOK` | nothing |
| `HasStorage`: `Spec => []RunningHasStorage` | `"close"` |
| `PanicFree`: `Spec => []NoPanic` | `"slow"`, `"init"`, `"peers"` |
| `Silent`: `Spec => []StoppedIsSilent` | `"slow"`, several controlling threads |

`OneController` says that the thread that calls `Stop` is also the one that calls
`OnNetworkChange`, if any does; other threads may call `Initialize`, `Start`,
`Close` and `UpdatePeers` at any time. TLC refutes each property when
what its theorem excludes is allowed.

`NoPanic` says only `up`, so `PanicInv` says why it stays: `Stop` alone holds
`s.mu` across steps and has cleared `running` before (`LockOK`); a server that is
still to be set up belongs to the last `Start` (`YoungOK`), and there is none
once `Stop` has slept (`QuietOK`), so the channel a server finds in the field is
its own and is closed by it alone (`ChannelsOK`); what goroutines dereference is
set (`StorageOK`). `Silent` adds `SilentInv`: the fields of the service name
everything that listens (`FoundOK`), each step of `Stop` silences a part of it
(`SilentOK`), and between the two halves of `OnNetworkChange` no listener is open
(`RenewOK`). `ControlOK` says that those halves belong to a running service. There
is one lemma per part, with one step per action that touches its variables.

**The file store.** For any mailboxes, mails, ids and numbers of faults, with
`StoreAssumption` only, `LargeMailStoreProofs` proves

| Theorem | Excludes |
|---|---|
| `TypeCorrect`: `Spec => []TypeOK` | nothing |
| `FileNamedAfterRowCorrect`: `Spec => []FileNamedAfterRow` | `"overlap"` |
| `NoContentLostCorrect`: `Spec => []NoContentLost` | `"overlap"` |

Storage errors and crashes are allowed at every step. TLC refutes both
properties with `"overlap"` and no failure at all. Neither is inductive: they
say nothing of the names that calls hold between two steps. `FileInv` adds that
operations of several steps are in different mailboxes (`LockOK`), hence the
number a stream has read is still the next one and the file behind it its own
(`StreamOK`); that the row and the file of a move are as it read them (`MoveOK`)
and the rows of the migration as it listed them (`MigrateOK`); and that a row's
file has its number and, if it is there, its content (`RowOK`). The heart is lemma
`Frame`: a step changes rows and files only in the mailboxes of its own operation,
so whatever another one relies on stays.
`ContentInv` adds to it that only rows somebody flagged are flagged (`FlaggedOK`)
and that the copy of a mail which a move is about to delete is readable
(`CopyOK`).

**The storage as a shelf.** Under the same condition
`LargeMailStoreRefinementProofs` proves

* `ImplementsShelfCorrect`: `Spec => ImplementsShelf`;
* `GoneForGood`: `Spec => [][\A m \in Msg : Gone(m) => Gone(m)']_vars`, where a
  mail is gone when it was stored and no mailbox shows it and no move carries it.

Beyond `FileInv` and `ContentInv` the step to `MailShelf` needs `ShelfInv`: rows
are of mails whose store has returned, so that `Store` is of a new mail and
`Ask` of a stored one; and a row that is moved without a file gets none
meanwhile, so that what `Copy` shows could be read before. The
lemmas `HeldSame`, `HeldAdd` and `HeldRemove` say what a change of one row does to
what is held; there is one lemma per action of the store or group of them.
`GoneForGood` follows from the steps of `MailShelf` alone.

**The mail server.** For any mailboxes, clients, mails, sizes, limits and bounds,
with `MailServerAssumption` only, `MailServerProofs` proves

* `TypeCorrect`: `Spec => []TypeOK`;
* `OnlyFlaggedMailGoesCorrect`: `Spec => OnlyFlaggedMailGoes`;
* `StoredMailKeptCorrect`: `Spec => []StoredMailKept`.

No event and no interleaving is excluded: handlers overlap on any mailbox, calls
fail, ids are used again. So nothing can be said about the rows that the ids of a
handler lead to, and the invariants say only what a write can do to whatever row
it finds. Types need that a handler's locals fit the command it is executing
(`JobFits`), that a session which reads a row has an id (`HasId`), and two lemmas
about sequence numbers: `COUNT` is at most the number of ids (`CountType`), and
every sequence number from 1 to the count is that of exactly one id
(`Positions`), so `MailIDForSeq` returns an id.

The proof classifies steps once, by what they do to the tables (`TableStep`): no
row changes, flags are written, a row is created, flagged rows are removed, a
mailbox is removed, a mailbox is renamed, or the source of a move is removed.
The lemmas up to `NextTables` show that each action is one of these. Only the
last one can take a row nobody flagged. `MoveOK` says why it takes no mail's last
row: between INSERT and DELETE both rows are there, as they are different rows,
all other writes wait for the Writer, and there is one such move. That gives
`OnlyFlaggedMailGoes` (`OnlyLosses`). For `StoredMailKept` one adds where
\Deleted comes from: as long as nobody has asked for a deletion, no row is
flagged, no handler carries the flag (`Clean`) and no session expunges
(`NothingDeleted`); and a mail is kept from the moment it is stored, not only once
it is accepted (`KeptOK`).

`QueueInv` is also checked in `sender_storage`. The other inductive invariants
can be checked in the same way, with an instance module that extends the module
of proofs: `FileInv`, `ContentInv` and `ShelfInv` with `store_serial.cfg`,
`AllInv` of `MailServerProofs` with `mailserver.cfg`, `PanicInv` and `SilentInv` with
`service_restart.cfg`, `CopiesInv` with `RcptsSingle` and events `expire`, `cut`
and `reset`. TLC finds no error in any of them.

Only model-checked: liveness (`OutboxDrains`, `RetriedEventually`,
`DeletedMailGoes`, `GoroutinesEnd`, `ClientsServed`, `ToldTheCount`), which
needs fairness and is out of the prover's reach; what holds of mails with
several recipients beyond types and `SingleRunner`: the other properties and the
refinement are false in general (`sender_misdelivery`), and `sender_interleave`
shows `NoDuplicateCopy` and `MovesOnlySettled` for its instance; and
`NoForeignContent`, whose interesting case, two stores in one mailbox, is the
violation of `store_overlap`. That the file of a row has its content wherever it
exists is part of `FileInv` (`RowOK`), without that case.

## Not modelled, and what is left

Worth doing next:

1. An abstract specification of the mail server, as `MailDelivery` is for the
   sender and `MailShelf` for the store, and the refinement as a theorem; the
   invariants it needs are those proved here.
2. The composition of `MailServer` with `LargeMailStore`: files of copied and
   renamed mails.
3. The `Writer`'s channel, with the lost error of `Begin` (see above).
4. A condition weaker than one recipient per mail for the theorems about the
   queue, for recipient lists whose rows are all inserted before a run can
   finish.

Left out: the local SMTP session (it checks the sender's name and calls
`QueueFor`, which is `SmtpSender`); the length of the backoff (a number with a
random part; that it may exceed its cap by a fifth changes no other step); the
transport's sessions (QUIC and Yggdrasil libraries; their failures are outcomes
of `RemoteDial` and `RemoteData`); reading commands of IMAP and the mobile API,
peer discovery and statistics (no state of their own that others use); address
parsing (a recipient that does not parse is `Bad`); the first migration of the
schema (it runs before anything else); the welcome mail (one `MailCreate` at the
first start); logging and the command line.
