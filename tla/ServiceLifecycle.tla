-------------------------- MODULE ServiceLifecycle --------------------------
(***************************************************************************)
(* The life of YggmailService (mobile/yggmail.go): Initialize, Start,      *)
(* Stop, Close, UpdatePeers and OnNetworkChange, called from the threads   *)
(* of the Android application, and the goroutines they leave behind: local *)
(* and overlay SMTP server, IMAP server, idle checker, heartbeat sender,   *)
(* queue manager and the background migration.                             *)
(*                                                                         *)
(* Each Start is numbered; its number names the objects and channels made  *)
(* by it, so s.smtpDone, s.heartbeatDone, s.queues, s.imapServer are all   *)
(* `gen'.  A critical section of s.mu that does not wait is one step; Stop *)
(* keeps s.mu while it sleeps and waits for the IMAP server.               *)
(***************************************************************************)
EXTENDS Naturals, FiniteSets

CONSTANTS
    Caller,    \* threads of the application that call the service
    NoOne,     \* s.mu is free
    Calls,     \* [Caller -> SUBSET AllCalls]: what each of them calls
    Peer,      \* peer URIs
    Ticking,   \* which of "idle" (idleTimeoutChecker) and "heart"
               \* (heartbeatSender) run
    MaxDb,     \* bound on successful Opens of the database
    MaxStart,  \* bound on Starts
    MaxTrans,  \* bound on transports created
    Events     \* which of AllEvents may happen

AllCalls == {"Initialize", "Start", "Stop", "Close", "UpdatePeers",
             "OnNetworkChange"}

\* "slow": a new goroutine is not scheduled within the 100 ms, 2 s and 3 s
\* that Stop allows, or before Close; "init": a step of Initialize fails;
\* "peers": a new transport rejects a peer URI; "close": closing the database
\* reports an error.
AllEvents == {"slow", "init", "peers", "close"}

ASSUME ServiceAssumption ==
    /\ NoOne \notin Caller
    /\ Calls \in [Caller -> SUBSET AllCalls]
    /\ Events \subseteq AllEvents
    /\ Ticking \subseteq {"idle", "heart"}
    /\ MaxDb \in Nat /\ MaxStart \in Nat /\ MaxTrans \in Nat

Db == 1..MaxDb
Gen == 1..MaxStart
Trans == 1..MaxTrans

VARIABLES
    up,         \* the process lives: no goroutine has panicked
    mu,         \* who holds s.mu exclusively across steps
    \* --- fields of YggmailService ---
    running, config,
    storage,    \* s.storage: the database it names, 0 for nil
    gen,        \* the last Start: s.queues, s.imapServer, the channels
    transport,  \* s.transport, 0 for nil
    lastPeers,
    localSMTP,  \* whose server s.localSMTP is, 0 for nil
    overlaySMTP,
    \* --- what they refer to ---
    dbs,        \* databases that are open
    nDb,        \* databases opened so far
    nTrans,     \* transports created so far
    listening,  \* transports whose listener is open
    corePeers,  \* peers of the yggdrasil core of s.transport
    manager,    \* Starts whose queue manager chain is scheduled
    qDb,        \* the database the objects of each Start were made with
    closed,     \* channels closed: <<name, gen>>
    \* --- goroutines ---
    local, overlay, imap,   \* the servers of each Start
    doneCh,     \* the channel their deferred close will close: <<name, g>>
    ovlOn,      \* the transport an overlay server accepts from
    tick,       \* the two ticking goroutines of each Start
    tickOn,     \* the channel they have selected on
    migration,  \* background migrations not yet begun
    \* --- callers ---
    pc, arg     \* where a call is, and what it has read before

fields == <<running, config, storage, gen, transport, lastPeers, localSMTP,
            overlaySMTP>>
world == <<dbs, nDb, nTrans, listening, corePeers, manager, qDb, closed>>
goroutines == <<local, overlay, imap, doneCh, ovlOn, tick, tickOn, migration>>
callers == <<pc, arg>>
vars == <<up, mu, fields, world, goroutines, callers>>

FieldType ==
    /\ running \in BOOLEAN /\ config \in BOOLEAN
    /\ storage \in Db \cup {0} /\ gen \in Gen \cup {0}
    /\ transport \in Trans \cup {0} /\ lastPeers \in SUBSET Peer
    /\ localSMTP \in Gen \cup {0} /\ overlaySMTP \in Gen \cup {0}

WorldType ==
    /\ dbs \in SUBSET Db /\ nDb \in Db \cup {0}
    /\ nTrans \in Trans \cup {0} /\ listening \in SUBSET Trans
    /\ corePeers \in SUBSET Peer
    /\ manager \in SUBSET Gen
    /\ qDb \in [Gen -> Db \cup {0}]
    /\ closed \in SUBSET ({"smtp", "overlay", "idle", "heart"} \X Gen)

ServerType ==
    /\ local \in [Gen -> {"none", "new", "bound", "listen", "return", "done"}]
    /\ overlay \in [Gen -> {"none", "new", "serve", "done"}]
    /\ imap \in [Gen -> {"none", "new", "listen", "return", "done"}]
    /\ doneCh \in [{"smtp", "overlay"} \X Gen -> Gen \cup {0}]
    /\ ovlOn \in [Gen -> Trans \cup {0}]

TickType ==
    /\ tick \in [Ticking \X Gen -> {"none", "new", "select", "fired", "done"}]
    /\ tickOn \in [Ticking \X Gen -> Gen \cup {0}]
    /\ migration \in 0..MaxDb

CallerType ==
    /\ up \in BOOLEAN /\ mu \in Caller \cup {NoOne}
    /\ pc \in [Caller -> {"idle", "sleep", "imapClose", "imapWait", "servers",
                          "wait", "netClose", "netRenew"}]
    /\ arg \in [Caller -> [gen: Gen \cup {0}, peers: SUBSET Peer]]

TypeOK == FieldType /\ WorldType /\ ServerType /\ TickType /\ CallerType

NoArg == [gen |-> 0, peers |-> {}]

Init ==
    /\ up = TRUE /\ mu = NoOne
    /\ running = FALSE /\ config = FALSE /\ storage = 0 /\ gen = 0
    /\ transport = 0 /\ lastPeers = {} /\ localSMTP = 0 /\ overlaySMTP = 0
    /\ dbs = {} /\ nDb = 0 /\ nTrans = 0 /\ listening = {}
    /\ corePeers = {}
    /\ manager = {} /\ qDb = [g \in Gen |-> 0] /\ closed = {}
    /\ local = [g \in Gen |-> "none"]
    /\ overlay = [g \in Gen |-> "none"]
    /\ imap = [g \in Gen |-> "none"]
    /\ doneCh = [x \in {"smtp", "overlay"} \X Gen |-> 0]
    /\ ovlOn = [g \in Gen |-> 0]
    /\ tick = [x \in Ticking \X Gen |-> "none"]
    /\ tickOn = [x \in Ticking \X Gen |-> 0]
    /\ migration = 0
    /\ pc = [c \in Caller |-> "idle"] /\ arg = [c \in Caller |-> NoArg]

-----------------------------------------------------------------------------
Slow == "slow" \in Events

\* A call begins: nobody holds s.mu.
Enter(c, call) == up /\ pc[c] = "idle" /\ call \in Calls[c] /\ mu = NoOne

\* A goroutine or call of the living process is at this point.
At(point, i, p) == up /\ point[i] = p

\* A panic in a goroutine, or in a call from the application, ends the process.
Panic == up' = FALSE /\ UNCHANGED <<mu, fields, world, goroutines, callers>>

\* NewYggdrasilTransport panics when yggdrasil rejects a peer.
Rejections == IF "peers" \in Events THEN BOOLEAN ELSE {FALSE}

NewYggdrasilTransport(peers) ==
    /\ nTrans < MaxTrans
    /\ nTrans' = nTrans + 1
    /\ transport' = nTrans + 1
    /\ listening' = listening \cup {nTrans + 1}
    /\ corePeers' = peers

-----------------------------------------------------------------------------
(* Initialize and Close.                                                   *)

\* An error after Open leaves s.storage set: before s.config is, or after it
\* (mailboxes, file store).
Initialize(c) ==
    /\ Enter(c, "Initialize")
    /\ storage = 0
    /\ nDb < MaxDb
    /\ nDb' = nDb + 1 /\ dbs' = dbs \cup {nDb + 1} /\ storage' = nDb + 1
    /\ \E outcome \in {"ok"} \cup (IF "init" \in Events THEN {"keys", "late"} ELSE {}) :
         /\ config' = (config \/ outcome # "keys")
         /\ migration' = IF outcome = "ok" THEN migration + 1 ELSE migration
    /\ UNCHANGED <<up, mu, running, gen, transport, lastPeers, localSMTP,
                   overlaySMTP, nTrans, listening, corePeers, manager, qDb,
                   closed, local, overlay, imap, doneCh, ovlOn, tick, tickOn,
                   callers>>

\* The goroutine reads s.storage when it is scheduled.
Migrate ==
    /\ up /\ migration > 0
    /\ IF storage = 0
         THEN Panic
         ELSE /\ migration' = migration - 1
              /\ UNCHANGED <<up, mu, fields, world, local, overlay, imap,
                             doneCh, ovlOn, tick, tickOn, callers>>

\* Mutant: Close does not look at s.running.
CloseUnchecked(c) ==
    /\ Enter(c, "Close")
    /\ storage # 0
    /\ migration = 0 \/ Slow
    /\ dbs' = dbs \ {storage}
    /\ storage' = 0
    /\ UNCHANGED <<up, mu, running, config, gen, transport, lastPeers,
                   localSMTP, overlaySMTP, nDb, nTrans, listening, corePeers,
                   manager, qDb, closed, goroutines, callers>>

\* The database is closed also when that reports an error, but then s.storage
\* stays.
Close(c) ==
    /\ Enter(c, "Close")
    /\ ~running /\ storage # 0
    /\ migration = 0 \/ Slow
    /\ dbs' = dbs \ {storage}
    /\ \E kept \in {FALSE} \cup (IF "close" \in Events THEN {TRUE} ELSE {}) :
         storage' = IF kept THEN storage ELSE 0
    /\ UNCHANGED <<up, mu, running, config, gen, transport, lastPeers,
                   localSMTP, overlaySMTP, nDb, nTrans, listening, corePeers,
                   manager, qDb, closed, goroutines, callers>>

-----------------------------------------------------------------------------
(* Start.                                                                  *)

\* Everything Start assigns and every goroutine it starts, under s.mu.
StartServers(peers) ==
    LET g == gen + 1 IN
    /\ gen' = g
    /\ qDb' = [qDb EXCEPT ![g] = storage]
    /\ manager' = manager \cup {g}
    /\ imap' = [imap EXCEPT ![g] = "new"]
    /\ local' = [local EXCEPT ![g] = "new"]
    /\ overlay' = [overlay EXCEPT ![g] = "new"]
    /\ tick' = [x \in DOMAIN tick |-> IF x[2] = g THEN "new" ELSE tick[x]]
    /\ lastPeers' = peers
    /\ running' = TRUE

\* Without s.config the dereference panics.
Start(c) ==
    /\ Enter(c, "Start")
    /\ ~running /\ storage # 0
    /\ gen < MaxStart
    /\ \E peers \in (SUBSET Peer) \ {{}}, rejected \in Rejections :
         IF ~config \/ rejected
           THEN Panic
           ELSE /\ NewYggdrasilTransport(peers)
                /\ StartServers(peers)
                /\ UNCHANGED <<up, mu, config, storage, localSMTP, overlaySMTP,
                               dbs, nDb, closed, doneCh, ovlOn, tickOn,
                               migration, callers>>

-----------------------------------------------------------------------------
(* The goroutines.                                                         *)

\* Mutant: Start does not make a new s.smtpDone.
LocalStartOldChannel(g) ==
    /\ At(local, g, "new")
    /\ local' = [local EXCEPT ![g] = "bound"]
    /\ doneCh' = [doneCh EXCEPT ![<<"smtp", g>>] = 1]
    /\ localSMTP' = g
    /\ UNCHANGED <<up, mu, running, config, storage, gen, transport, lastPeers,
                   overlaySMTP, world, overlay, imap, ovlOn, tick, tickOn,
                   migration, callers>>

\* startLocalSMTP: `defer close(s.smtpDone)' takes the channel of the moment.
LocalStart(g) ==
    /\ At(local, g, "new")
    /\ local' = [local EXCEPT ![g] = "bound"]
    /\ doneCh' = [doneCh EXCEPT ![<<"smtp", g>>] = gen]
    /\ localSMTP' = g
    /\ UNCHANGED <<up, mu, running, config, storage, gen, transport, lastPeers,
                   overlaySMTP, world, overlay, imap, ovlOn, tick, tickOn,
                   migration, callers>>

\* ListenAndServe: fails when another server has the address.
LocalListen(g) ==
    /\ At(local, g, "bound")
    /\ local' = [local EXCEPT ![g] =
         IF \E h \in Gen : local[h] = "listen" THEN "return" ELSE "listen"]
    /\ UNCHANGED <<up, mu, fields, world, overlay, imap, doneCh, ovlOn, tick,
                   tickOn, migration, callers>>

\* A server goroutine ends: its deferred close panics on a closed channel.
CloseDone(ch) ==
    IF ch \in closed THEN up' = FALSE /\ UNCHANGED closed
                     ELSE closed' = closed \cup {ch} /\ UNCHANGED up

LocalReturn(g) ==
    /\ At(local, g, "return")
    /\ local' = [local EXCEPT ![g] = "done"]
    /\ CloseDone(<<"smtp", doneCh[<<"smtp", g>>]>>)
    /\ UNCHANGED <<mu, fields, dbs, nDb, nTrans, listening, corePeers, manager,
                   qDb, overlay, imap, doneCh, ovlOn, tick, tickOn, migration,
                   callers>>

\* Mutant: s.overlayDone was never made.
OverlayStartNoChannel(g) ==
    /\ At(overlay, g, "new")
    /\ overlay' = [overlay EXCEPT ![g] = "serve"]
    /\ ovlOn' = [ovlOn EXCEPT ![g] = transport]
    /\ overlaySMTP' = g
    /\ UNCHANGED <<up, mu, running, config, storage, gen, transport, lastPeers,
                   localSMTP, world, local, imap, doneCh, tick, tickOn,
                   migration, callers>>

\* startOverlaySMTP: Serve(s.transport.Listener()).
OverlayStart(g) ==
    /\ At(overlay, g, "new")
    /\ overlay' = [overlay EXCEPT ![g] = "serve"]
    /\ doneCh' = [doneCh EXCEPT ![<<"overlay", g>>] = gen]
    /\ ovlOn' = [ovlOn EXCEPT ![g] = transport]
    /\ overlaySMTP' = g
    /\ UNCHANGED <<up, mu, running, config, storage, gen, transport, lastPeers,
                   localSMTP, world, local, imap, tick, tickOn, migration,
                   callers>>

\* Accept fails once the listener is closed, and Serve returns for good.
OverlayReturn(g) ==
    /\ At(overlay, g, "serve")
    /\ ovlOn[g] \notin listening
    /\ overlay' = [overlay EXCEPT ![g] = "done"]
    /\ CloseDone(<<"overlay", doneCh[<<"overlay", g>>]>>)
    /\ UNCHANGED <<mu, fields, dbs, nDb, nTrans, listening, corePeers, manager,
                   qDb, local, imap, doneCh, ovlOn, tick, tickOn, migration,
                   callers>>

\* The goroutine of NewIMAPServer.
ImapListen(g) ==
    /\ At(imap, g, "new")
    /\ imap' = [imap EXCEPT ![g] =
         IF \E h \in Gen : imap[h] = "listen" THEN "done" ELSE "listen"]
    /\ UNCHANGED <<up, mu, fields, world, local, overlay, doneCh, ovlOn, tick,
                   tickOn, migration, callers>>

ImapReturn(g) ==
    /\ At(imap, g, "return")
    /\ imap' = [imap EXCEPT ![g] = "done"]
    /\ UNCHANGED <<up, mu, fields, world, local, overlay, doneCh, ovlOn, tick,
                   tickOn, migration, callers>>

\* Mutant: Start does not make new channels for the timers.
TickSelectOldChannel(k, g) ==
    /\ At(tick, <<k, g>>, "new")
    /\ k = "heart" => mu = NoOne
    /\ tick' = [tick EXCEPT ![<<k, g>>] = "select"]
    /\ tickOn' = [tickOn EXCEPT ![<<k, g>>] = 1]
    /\ UNCHANGED <<up, mu, fields, world, local, overlay, imap, doneCh, ovlOn,
                   migration, callers>>

\* heartbeatSender and idleTimeoutChecker: every round selects anew on the
\* channel the field names.  heartbeatSender takes s.mu before its first.
TickSelect(k, g) ==
    /\ At(tick, <<k, g>>, "new")
    /\ k = "heart" => mu = NoOne
    /\ tick' = [tick EXCEPT ![<<k, g>>] = "select"]
    /\ tickOn' = [tickOn EXCEPT ![<<k, g>>] = gen]
    /\ UNCHANGED <<up, mu, fields, world, local, overlay, imap, doneCh, ovlOn,
                   migration, callers>>

TickFire(k, g) ==
    /\ At(tick, <<k, g>>, "select")
    /\ tick' = [tick EXCEPT ![<<k, g>>] = "fired"]
    /\ UNCHANGED <<up, mu, fields, world, local, overlay, imap, doneCh, ovlOn,
                   tickOn, migration, callers>>

\* sendHeartbeat and checkIdleState need s.mu; sendHeartbeat dereferences
\* s.storage while s.running.
TickBody(k, g) ==
    /\ At(tick, <<k, g>>, "fired")
    /\ mu = NoOne
    /\ IF k = "heart" /\ running /\ storage = 0
         THEN Panic
         ELSE /\ tick' = [tick EXCEPT ![<<k, g>>] = "select"]
              /\ tickOn' = [tickOn EXCEPT ![<<k, g>>] = gen]
              /\ UNCHANGED <<up, mu, fields, world, local, overlay, imap,
                             doneCh, ovlOn, migration, callers>>

TickStop(k, g) ==
    /\ At(tick, <<k, g>>, "select")
    /\ <<k, tickOn[<<k, g>>]>> \in closed
    /\ tick' = [tick EXCEPT ![<<k, g>>] = "done"]
    /\ UNCHANGED <<up, mu, fields, world, local, overlay, imap, doneCh, ovlOn,
                   tickOn, migration, callers>>

\* Queues.manager: the chain ends with the first query that fails, which is
\* the first one after its database was closed.
ManagerEnds(g) ==
    /\ up /\ g \in manager
    /\ qDb[g] \notin dbs
    /\ manager' = manager \ {g}
    /\ UNCHANGED <<up, mu, fields, dbs, nDb, nTrans, listening, corePeers, qDb,
                   closed, goroutines, callers>>

-----------------------------------------------------------------------------
(* Stop.                                                                   *)

\* Mutant: the heartbeat sender is not told.
StopBeginSilent(c) ==
    /\ Enter(c, "Stop")
    /\ running
    /\ mu' = c
    /\ running' = FALSE
    /\ closed' = closed \cup {<<"idle", gen>>}
    /\ pc' = [pc EXCEPT ![c] = "sleep"]
    /\ UNCHANGED <<up, config, storage, gen, transport, lastPeers, localSMTP,
                   overlaySMTP, dbs, nDb, nTrans, listening, corePeers,
                   manager, qDb, goroutines, arg>>

\* Lock; safeClose of the two channels.
StopBegin(c) ==
    /\ Enter(c, "Stop")
    /\ running
    /\ mu' = c
    /\ running' = FALSE
    /\ closed' = closed \cup (Ticking \X {gen})
    /\ pc' = [pc EXCEPT ![c] = "sleep"]
    /\ UNCHANGED <<up, config, storage, gen, transport, lastPeers, localSMTP,
                   overlaySMTP, dbs, nDb, nTrans, listening, corePeers,
                   manager, qDb, goroutines, arg>>

\* 100 ms: unless goroutines are slow, the servers are up by now.
StopSleep(c) ==
    /\ At(pc, c, "sleep")
    /\ \/ local[gen] \notin {"new", "bound"} /\ overlay[gen] # "new"
          /\ imap[gen] # "new"
       \/ Slow
    /\ pc' = [pc EXCEPT ![c] = "imapClose"]
    /\ UNCHANGED <<up, mu, fields, world, goroutines, arg>>

\* IMAPServer.Close: a server that does not listen yet is not stopped by it.
StopImapClose(c) ==
    /\ At(pc, c, "imapClose")
    /\ imap' = [imap EXCEPT ![gen] = IF @ = "listen" THEN "return" ELSE @]
    /\ pc' = [pc EXCEPT ![c] = "imapWait"]
    /\ UNCHANGED <<up, mu, fields, world, local, overlay, doneCh, ovlOn, tick,
                   tickOn, migration, arg>>

StopImapWait(c) ==
    /\ At(pc, c, "imapWait")
    /\ imap[gen] = "done" \/ Slow
    /\ pc' = [pc EXCEPT ![c] = "servers"]
    /\ UNCHANGED <<up, mu, fields, world, goroutines, arg>>

\* Mutant: the local SMTP server is forgotten.
StopServersNoLocal(c) ==
    /\ At(pc, c, "servers")
    /\ listening' = listening \ {transport, IF overlaySMTP = 0 THEN 0
                                            ELSE ovlOn[overlaySMTP]}
    /\ mu' = NoOne
    /\ pc' = [pc EXCEPT ![c] = "wait"]
    /\ arg' = [arg EXCEPT ![c].gen = gen]
    /\ UNCHANGED <<up, fields, dbs, nDb, nTrans, corePeers, manager, qDb,
                   closed, goroutines>>

\* Close the servers the fields name and the listener of the transport, then
\* Unlock.  Closing the overlay server closes the listener it serves.
StopServers(c) ==
    /\ At(pc, c, "servers")
    /\ local' = [g \in Gen |-> IF g = localSMTP /\ local[g] = "listen"
                                 THEN "return" ELSE local[g]]
    /\ listening' = listening \ {transport, IF overlaySMTP = 0 THEN 0
                                            ELSE ovlOn[overlaySMTP]}
    /\ mu' = NoOne
    /\ pc' = [pc EXCEPT ![c] = "wait"]
    /\ arg' = [arg EXCEPT ![c].gen = gen]
    /\ UNCHANGED <<up, fields, dbs, nDb, nTrans, corePeers, manager, qDb,
                   closed, overlay, imap, doneCh, ovlOn, tick, tickOn,
                   migration>>

\* The loop reads s.smtpDone and s.overlayDone without s.mu: after another
\* Start they are the new ones.  The timer of 3 s ends it in that case, and
\* when goroutines are slow.
StopReturn(c) ==
    /\ At(pc, c, "wait")
    /\ \/ {<<"smtp", gen>>, <<"overlay", gen>>} \subseteq closed
       \/ gen # arg[c].gen \/ Slow
    /\ pc' = [pc EXCEPT ![c] = "idle"]
    /\ arg' = [arg EXCEPT ![c] = NoArg]
    /\ UNCHANGED <<up, mu, fields, world, goroutines>>

-----------------------------------------------------------------------------
(* UpdatePeers and OnNetworkChange.                                        *)

\* RemovePeer for what left the list, AddPeer for what is new in it.  A URI
\* that does not parse and a call that fails are only logged, and the list is
\* taken over all the same, so that no later call tries these peers again.
UpdatePeers(c) ==
    /\ Enter(c, "UpdatePeers")
    /\ running /\ transport # 0
    /\ \E peers \in SUBSET Peer, failing \in SUBSET Peer :
         /\ corePeers' = (corePeers \ ((lastPeers \ peers) \ failing))
                           \cup ((peers \ lastPeers) \ failing)
         /\ lastPeers' = peers
    /\ UNCHANGED <<up, mu, running, config, storage, gen, transport, localSMTP,
                   overlaySMTP, dbs, nDb, nTrans, listening, manager, qDb,
                   closed, goroutines, callers>>

\* running and lastPeers are read under s.mu ...
NetworkCheck(c) ==
    /\ Enter(c, "OnNetworkChange")
    /\ running
    /\ nTrans < MaxTrans
    /\ arg' = [arg EXCEPT ![c].peers = lastPeers]
    /\ pc' = [pc EXCEPT ![c] = "netClose"]
    /\ UNCHANGED <<up, mu, fields, world, goroutines>>

\* ... the listener is closed without it ...
NetworkClose(c) ==
    /\ At(pc, c, "netClose")
    /\ listening' = listening \ {transport}
    /\ pc' = [pc EXCEPT ![c] = "netRenew"]
    /\ UNCHANGED <<up, mu, fields, dbs, nDb, nTrans, corePeers, manager, qDb,
                   closed, goroutines, arg>>

\* ... and the transport is replaced, whatever s.running says by then.  The
\* queues get it too; nobody accepts from its listener.
NetworkRenew(c) ==
    /\ At(pc, c, "netRenew")
    /\ mu = NoOne
    /\ \E rejected \in Rejections :
         IF rejected
           THEN Panic
           ELSE /\ NewYggdrasilTransport(arg[c].peers)
                /\ pc' = [pc EXCEPT ![c] = "idle"]
                /\ arg' = [arg EXCEPT ![c] = NoArg]
                /\ UNCHANGED <<up, mu, running, config, storage, gen, lastPeers,
                               localSMTP, overlaySMTP, dbs, nDb, manager, qDb,
                               closed, goroutines>>

-----------------------------------------------------------------------------
InProgress(c) ==
    \/ StopSleep(c) \/ StopImapClose(c) \/ StopImapWait(c) \/ StopServers(c)
    \/ StopReturn(c) \/ NetworkClose(c) \/ NetworkRenew(c)

Call(c) ==
    \/ Initialize(c) \/ Close(c) \/ Start(c) \/ StopBegin(c)
    \/ UpdatePeers(c) \/ NetworkCheck(c)

Server(g) ==
    \/ LocalStart(g) \/ LocalListen(g) \/ LocalReturn(g)
    \/ OverlayStart(g) \/ OverlayReturn(g) \/ ImapListen(g) \/ ImapReturn(g)
    \/ ManagerEnds(g)

TickStep(k, g) == TickSelect(k, g) \/ TickBody(k, g)

Next ==
    \/ \E c \in Caller : Call(c) \/ InProgress(c)
    \/ \E g \in Gen : Server(g)
    \/ \E k \in Ticking, g \in Gen :
         TickStep(k, g) \/ TickFire(k, g) \/ TickStop(k, g)
    \/ Migrate

Spec == Init /\ [][Next]_vars

\* Goroutines are scheduled and calls that have begun go on.  Go's select
\* chooses among the ready cases at random, so a closed channel is not passed
\* over for ever.
Fairness ==
    /\ \A c \in Caller : WF_vars(InProgress(c))
    /\ \A g \in Gen : WF_vars(Server(g))
    /\ \A k \in Ticking, g \in Gen :
         WF_vars(TickStep(k, g)) /\ SF_vars(TickStop(k, g))
    /\ WF_vars(Migrate)

FairSpec == Spec /\ Fairness

-----------------------------------------------------------------------------
(* Properties.                                                             *)

\* No goroutine and no call panics: none finds a field nil that another call
\* has reset, and no channel is closed twice.
NoPanic == up

\* While the service runs its database is open: the servers, the queues and
\* the heartbeat use it without looking.
RunningHasStorage ==
    running => config /\ storage \in dbs /\ gen # 0 /\ qDb[gen] \in dbs

\* Once Stop has closed the servers nothing listens, neither on the local
\* ports nor on the overlay network, until the service is started again.
StoppedIsSilent ==
    ~running /\ mu = NoOne /\ (\A c \in Caller : pc[c] # "netRenew")
      => /\ \A g \in Gen : local[g] # "listen" /\ imap[g] # "listen"
         /\ listening = {}

Live(g) ==
    \/ local[g] \in {"new", "bound", "listen", "return"}
    \/ overlay[g] \in {"new", "serve"}
    \/ imap[g] \in {"new", "listen", "return"}
    \/ \E k \in Ticking : tick[<<k, g>>] \in {"new", "select", "fired"}

\* When the service is stopped for good all its server and timer goroutines
\* end, also those that saw a later Start replace the channel they wait on.
GoroutinesEnd == <>[]~running => <>[](\A g \in Gen : ~Live(g))

\* A service that stays up serves its mail clients and keeps both timers.
ClientsServed ==
    <>[]running => <>[](/\ \E g \in Gen : local[g] = "listen"
                        /\ imap[gen] = "listen"
                        /\ \A k \in Ticking :
                             tick[<<k, gen>>] \in {"select", "fired"})

\* A service that stays up accepts mail from the overlay network.
OverlayServed ==
    <>[]running =>
      []<>(\E g \in Gen : overlay[g] = "serve" /\ ovlOn[g] = transport
                          /\ transport \in listening)

=============================================================================
