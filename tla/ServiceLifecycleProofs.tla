----------------------- MODULE ServiceLifecycleProofs ------------------------
(***************************************************************************)
(* What holds of the service for any number of threads, restarts,          *)
(* databases and transports: its types; that it has its database while it  *)
(* runs; that nothing panics; that its peers are those configured; that it *)
(* is silent when stopped.  Each theorem names the Events it excludes: the *)
(* property fails when they happen.                                        *)
(***************************************************************************)
EXTENDS ServiceLifecycle, TLAPS

\* What types need: a goroutine that exists belongs to a Start there was, and
\* has evaluated its deferred close; migrations are not more than databases.
Started ==
    /\ migration <= nDb
    /\ running => gen # 0
    /\ \A g \in Gen :
         /\ local[g] # "none" \/ overlay[g] # "none" => g <= gen
         /\ local[g] \in {"bound", "listen", "return"} => doneCh[<<"smtp", g>>] # 0
         /\ overlay[g] = "serve" => doneCh[<<"overlay", g>>] # 0

TypeInv == TypeOK /\ Started

-----------------------------------------------------------------------------
(* Types.                                                                  *)

\* Nothing exists yet.
LEMMA TypeInit == Init => TypeInv
<1> SUFFICES ASSUME Init PROVE TypeInv
  OBVIOUS
<1> USE ServiceAssumption DEF Init, TypeOK, FieldType, WorldType, ServerType,
        TickType, CallerType, Db, Gen, Trans
<1>1. FieldType /\ WorldType /\ ServerType
  OBVIOUS
<1>2. TickType
  OBVIOUS
<1>3. CallerType
  BY DEF NoArg
<1>4. Started
  BY DEF Started
<1>5. QED
  BY <1>1, <1>2, <1>3, <1>4 DEF TypeInv

\* What a call has read before is a record of a Start and peers.
LEMMA ArgUpdates ==
    ASSUME NEW a \in [gen: Gen \cup {0}, peers: SUBSET Peer],
           NEW g \in Gen \cup {0}, NEW p \in SUBSET Peer
    PROVE  /\ [a EXCEPT !.gen = g] \in [gen: Gen \cup {0}, peers: SUBSET Peer]
           /\ [a EXCEPT !.peers = p] \in [gen: Gen \cup {0}, peers: SUBSET Peer]
  OBVIOUS

\* Calls of the application, to their first wait.
LEMMA TypeCall ==
    ASSUME TypeInv, NEW c \in Caller, Call(c)
    PROVE  TypeInv'
<1> USE ServiceAssumption DEF TypeInv, Started, TypeOK, FieldType, WorldType,
        ServerType,
        TickType, CallerType, Db, Gen, Trans
<1>1. CASE Initialize(c)
  BY <1>1 DEF Initialize, Enter, callers
<1>2. CASE Close(c)
  BY <1>2 DEF Close, Enter, callers, goroutines
<1>3. CASE Start(c) /\ Panic
  BY <1>3 DEF Panic, fields, world, callers, goroutines
<1>4. CASE Start(c) /\ ~Panic
  <2> PICK peers \in SUBSET Peer :
           /\ NewYggdrasilTransport(peers) /\ StartServers(peers)
           /\ gen < MaxStart
           /\ UNCHANGED <<up, mu, config, storage, localSMTP, overlaySMTP, dbs,
                          nDb, closed, doneCh, ovlOn, tickOn, migration, callers>>
    BY <1>4 DEF Start
  <2> USE DEF NewYggdrasilTransport, StartServers, callers
  <2>a. gen + 1 \in Gen /\ nTrans + 1 \in Trans
    OBVIOUS
  <2>1. FieldType'
    BY <2>a
  <2>2. WorldType'
    BY <2>a
  <2>3. ServerType'
    BY <2>a
  <2>4. TickType'
    BY <2>a
  <2>5. CallerType'
    BY <2>a
  <2>6. Started'
    BY <2>a
  <2>7. QED
    BY <2>1, <2>2, <2>3, <2>4, <2>5, <2>6
<1>5. CASE StopBegin(c)
  <2>1. FieldType'
    BY <1>5 DEF StopBegin, Enter, goroutines
  <2>2. WorldType'
    <3>1. gen \in Gen
      BY <1>5 DEF StopBegin
    <3>2. Ticking \X {gen} \subseteq {"smtp", "overlay", "idle", "heart"} \X Gen
      BY <3>1
    <3>3. QED
      BY <1>5, <3>2 DEF StopBegin
  <2>3. ServerType'
    BY <1>5 DEF StopBegin, Enter, goroutines
  <2>4. TickType'
    BY <1>5 DEF StopBegin, Enter, goroutines
  <2>5. CallerType'
    BY <1>5 DEF StopBegin, Enter, goroutines
  <2>6. Started'
    BY <1>5 DEF StopBegin, Enter, goroutines
  <2>7. QED
    BY <2>1, <2>2, <2>3, <2>4, <2>5, <2>6
<1>6. CASE UpdatePeers(c)
  BY <1>6 DEF UpdatePeers, Enter, callers, goroutines
<1>7. CASE NetworkCheck(c)
  <2>1. FieldType'
    BY <1>7 DEF NetworkCheck, Enter, fields, world, goroutines
  <2>2. WorldType'
    BY <1>7 DEF NetworkCheck, Enter, fields, world, goroutines
  <2>3. ServerType'
    BY <1>7 DEF NetworkCheck, Enter, fields, world, goroutines
  <2>4. TickType'
    BY <1>7 DEF NetworkCheck, Enter, fields, world, goroutines
  <2>5. CallerType'
    <3>1. [arg[c] EXCEPT !.peers = lastPeers] \in [gen: Gen \cup {0}, peers: SUBSET Peer]
      BY ArgUpdates
    <3>2. arg' = [arg EXCEPT ![c] = [arg[c] EXCEPT !.peers = lastPeers]]
      BY <1>7 DEF NetworkCheck
    <3>3. QED
      BY <1>7, <3>1, <3>2 DEF NetworkCheck
  <2>6. Started'
    BY <1>7 DEF NetworkCheck, Enter, fields, world, goroutines
  <2>7. QED
    BY <2>1, <2>2, <2>3, <2>4, <2>5, <2>6
<1>8. QED
  BY <1>1, <1>2, <1>3, <1>4, <1>5, <1>6, <1>7 DEF Call

\* The later steps of Stop and OnNetworkChange.
LEMMA TypeInProgress ==
    ASSUME TypeInv, NEW c \in Caller, InProgress(c)
    PROVE  TypeInv'
<1> USE ServiceAssumption DEF TypeInv, Started, TypeOK, FieldType, WorldType,
        ServerType,
        TickType, CallerType, Db, Gen, Trans
<1>1. CASE StopSleep(c)
  BY <1>1 DEF StopSleep, At, fields, world, goroutines
<1>2. CASE StopImapClose(c)
  <2>1. FieldType'
    BY <1>2 DEF StopImapClose, At, fields, world
  <2>2. WorldType'
    BY <1>2 DEF StopImapClose, At, fields, world
  <2>3. ServerType'
    BY <1>2 DEF StopImapClose, At, fields, world
  <2>4. TickType'
    BY <1>2 DEF StopImapClose, At, fields, world
  <2>5. CallerType'
    BY <1>2 DEF StopImapClose, At, fields, world
  <2>6. Started'
    BY <1>2 DEF StopImapClose, At, fields, world
  <2>7. QED
    BY <2>1, <2>2, <2>3, <2>4, <2>5, <2>6
<1>3. CASE StopImapWait(c)
  BY <1>3 DEF StopImapWait, At, fields, world, goroutines
<1>4. CASE StopServers(c)
  <2>1. FieldType'
    BY <1>4 DEF StopServers, At, fields
  <2>2. WorldType'
    BY <1>4 DEF StopServers, At, fields
  <2>3. ServerType'
    BY <1>4 DEF StopServers, At, fields
  <2>4. TickType'
    BY <1>4 DEF StopServers, At, fields
  <2>5. CallerType'
    <3>1. [arg[c] EXCEPT !.gen = gen] \in [gen: Gen \cup {0}, peers: SUBSET Peer]
      BY ArgUpdates
    <3>2. arg' = [arg EXCEPT ![c] = [arg[c] EXCEPT !.gen = gen]]
      BY <1>4 DEF StopServers
    <3>3. QED
      <4>1. up' = up /\ mu' = NoOne /\ pc' = [pc EXCEPT ![c] = "wait"]
        BY <1>4 DEF StopServers
      <4>2. QED
        BY <3>1, <3>2, <4>1
  <2>6. Started'
    BY <1>4 DEF StopServers, At, fields
  <2>7. QED
    BY <2>1, <2>2, <2>3, <2>4, <2>5, <2>6
<1>5. CASE StopReturn(c)
  BY <1>5 DEF StopReturn, NoArg, At, fields, world, goroutines
<1>6. CASE NetworkClose(c)
  BY <1>6 DEF NetworkClose, At, fields, goroutines
<1>7. CASE NetworkRenew(c) /\ Panic
  BY <1>7 DEF Panic, fields, world, callers, goroutines
<1>8. CASE NetworkRenew(c) /\ ~Panic
  <2> PICK peers \in SUBSET Peer :
           /\ NewYggdrasilTransport(peers)
           /\ pc' = [pc EXCEPT ![c] = "idle"]
           /\ arg' = [arg EXCEPT ![c] = NoArg]
           /\ UNCHANGED <<up, mu, running, config, storage, gen, lastPeers,
                          localSMTP, overlaySMTP, dbs, nDb, manager, qDb,
                          closed, goroutines>>
    BY <1>8 DEF NetworkRenew
  <2> USE DEF NewYggdrasilTransport, goroutines
  <2>a. nTrans + 1 \in Trans
    OBVIOUS
  <2>1. FieldType'
    BY <2>a DEF NoArg
  <2>2. WorldType'
    BY <2>a DEF NoArg
  <2>3. ServerType'
    BY <2>a DEF NoArg
  <2>4. TickType'
    BY <2>a DEF NoArg
  <2>5. CallerType'
    BY <2>a DEF NoArg
  <2>6. Started'
    BY <2>a DEF NoArg
  <2>7. QED
    BY <2>1, <2>2, <2>3, <2>4, <2>5, <2>6
<1>9. QED
  BY <1>1, <1>2, <1>3, <1>4, <1>5, <1>6, <1>7, <1>8 DEF InProgress

\* The goroutines.
LEMMA TypeServer ==
    ASSUME TypeInv, NEW g \in Gen, Server(g)
    PROVE  TypeInv'
<1> USE ServiceAssumption DEF TypeInv, Started, TypeOK, FieldType, WorldType,
        ServerType,
        TickType, CallerType, Db, Gen, Trans
<1>1. CASE LocalStart(g)
  <2>1. FieldType'
    BY <1>1 DEF LocalStart, At, world, callers
  <2>2. WorldType'
    BY <1>1 DEF LocalStart, At, world, callers
  <2>3. ServerType'
    BY <1>1 DEF LocalStart, At, world, callers
  <2>4. TickType'
    BY <1>1 DEF LocalStart, At, world, callers
  <2>5. CallerType'
    BY <1>1 DEF LocalStart, At, world, callers
  <2>6. Started'
    BY <1>1 DEF LocalStart, At, world, callers
  <2>7. QED
    BY <2>1, <2>2, <2>3, <2>4, <2>5, <2>6
<1>2. CASE LocalListen(g)
  BY <1>2 DEF LocalListen, At, fields, world, callers
<1>3. CASE LocalReturn(g)
  <2>1. FieldType'
    BY <1>3 DEF LocalReturn, CloseDone, At, fields, callers
  <2>2. WorldType'
    <3>1. doneCh[<<"smtp", g>>] \in Gen
      BY <1>3 DEF LocalReturn, At
    <3>2. <<"smtp", doneCh[<<"smtp", g>>]>> \in {"smtp", "overlay", "idle", "heart"} \X Gen
      BY <3>1
    <3>3. closed' \subseteq closed \cup {<<"smtp", doneCh[<<"smtp", g>>]>>}
      BY <1>3 DEF LocalReturn, CloseDone
    <3>4. QED
      BY <1>3, <3>2, <3>3 DEF LocalReturn
  <2>3. ServerType'
    BY <1>3 DEF LocalReturn, CloseDone, At, fields, callers
  <2>4. TickType'
    BY <1>3 DEF LocalReturn, CloseDone, At, fields, callers
  <2>5. CallerType'
    BY <1>3 DEF LocalReturn, CloseDone, At, fields, callers
  <2>6. Started'
    BY <1>3 DEF LocalReturn, CloseDone, At, fields, callers
  <2>7. QED
    BY <2>1, <2>2, <2>3, <2>4, <2>5, <2>6
<1>4. CASE OverlayStart(g)
  BY <1>4 DEF OverlayStart, At, world, callers
<1>5. CASE OverlayReturn(g)
  <2>1. FieldType'
    BY <1>5 DEF OverlayReturn, CloseDone, At, fields, callers
  <2>2. WorldType'
    <3>1. doneCh[<<"overlay", g>>] \in Gen
      BY <1>5 DEF OverlayReturn, At
    <3>2. <<"overlay", doneCh[<<"overlay", g>>]>> \in {"smtp", "overlay", "idle", "heart"} \X Gen
      BY <3>1
    <3>3. closed' \subseteq closed \cup {<<"overlay", doneCh[<<"overlay", g>>]>>}
      BY <1>5 DEF OverlayReturn, CloseDone
    <3>4. QED
      BY <1>5, <3>2, <3>3 DEF OverlayReturn
  <2>3. ServerType'
    BY <1>5 DEF OverlayReturn, CloseDone, At, fields, callers
  <2>4. TickType'
    BY <1>5 DEF OverlayReturn, CloseDone, At, fields, callers
  <2>5. CallerType'
    BY <1>5 DEF OverlayReturn, CloseDone, At, fields, callers
  <2>6. Started'
    BY <1>5 DEF OverlayReturn, CloseDone, At, fields, callers
  <2>7. QED
    BY <2>1, <2>2, <2>3, <2>4, <2>5, <2>6
<1>6. CASE ImapListen(g)
  BY <1>6 DEF ImapListen, At, fields, world, callers
<1>7. CASE ImapReturn(g)
  BY <1>7 DEF ImapReturn, At, fields, world, callers
<1>8. CASE ManagerEnds(g)
  BY <1>8 DEF ManagerEnds, fields, goroutines, callers
<1>9. QED
  BY <1>1, <1>2, <1>3, <1>4, <1>5, <1>6, <1>7, <1>8 DEF Server

\* The two timers.
LEMMA TypeTick ==
    ASSUME TypeInv, NEW k \in Ticking, NEW g \in Gen,
           TickStep(k, g) \/ TickFire(k, g) \/ TickStop(k, g)
    PROVE  TypeInv'
<1> USE ServiceAssumption DEF TypeInv, Started, TypeOK, FieldType, WorldType,
        ServerType,
        TickType, CallerType, Db, Gen, Trans
<1>1. CASE TickSelect(k, g)
  BY <1>1 DEF TickSelect, At, fields, world, callers
<1>2. CASE TickFire(k, g)
  BY <1>2 DEF TickFire, At, fields, world, callers
<1>3. CASE TickBody(k, g) /\ Panic
  BY <1>3 DEF Panic, fields, world, callers, goroutines
<1>4. CASE TickBody(k, g) /\ ~Panic
  <2> /\ tick' = [tick EXCEPT ![<<k, g>>] = "select"]
      /\ tickOn' = [tickOn EXCEPT ![<<k, g>>] = gen]
      /\ UNCHANGED <<up, mu, fields, world, local, overlay, imap, doneCh, ovlOn,
                     migration, callers>>
    BY <1>4 DEF TickBody
  <2>1. FieldType'
    BY DEF fields, world, callers
  <2>2. WorldType'
    BY DEF fields, world, callers
  <2>3. ServerType'
    BY DEF fields, world, callers
  <2>4. TickType'
    BY DEF fields, world, callers
  <2>5. CallerType'
    BY DEF fields, world, callers
  <2>6. Started'
    BY DEF fields, world, callers
  <2>7. QED
    BY <2>1, <2>2, <2>3, <2>4, <2>5, <2>6
<1>5. CASE TickStop(k, g)
  BY <1>5 DEF TickStop, At, fields, world, callers
<1>6. QED
  BY <1>1, <1>2, <1>3, <1>4, <1>5 DEF TickStep

\* The background migration.
LEMMA TypeMigrate == ASSUME TypeInv, Migrate PROVE TypeInv'
<1> USE ServiceAssumption DEF TypeInv, Started, TypeOK, FieldType, WorldType,
        ServerType,
        TickType, CallerType, Db, Gen, Trans
<1>1. CASE Panic
  BY <1>1 DEF Panic, fields, world, callers, goroutines
<1>2. CASE ~Panic
  <2> /\ migration > 0 /\ migration' = migration - 1
      /\ UNCHANGED <<up, mu, fields, world, local, overlay, imap, doneCh, ovlOn,
                     tick, tickOn, callers>>
    BY <1>2 DEF Migrate
  <2>1. FieldType'
    BY DEF fields, world, callers
  <2>2. WorldType'
    BY DEF fields, world, callers
  <2>3. ServerType'
    BY DEF fields, world, callers
  <2>4. TickType'
    BY DEF fields, world, callers
  <2>5. CallerType'
    BY DEF fields, world, callers
  <2>6. Started'
    BY DEF fields, world, callers
  <2>7. QED
    BY <2>1, <2>2, <2>3, <2>4, <2>5, <2>6
<1>3. QED
  BY <1>1, <1>2

\* Nothing changes.
LEMMA TypeStutter == ASSUME TypeInv, UNCHANGED vars PROVE TypeInv'
  BY DEF TypeInv, Started, TypeOK, FieldType, WorldType, ServerType, TickType,
         CallerType, vars, fields, world, callers, goroutines

\* The types and what they need hold throughout.
LEMMA TypeInvariant == Spec => []TypeInv
<1>1. TypeInv /\ [Next]_vars => TypeInv'
  BY TypeCall, TypeInProgress, TypeServer, TypeTick, TypeMigrate,
        TypeStutter DEF Next
<1>2. QED
  BY <1>1, TypeInit, PTL DEF Spec

\* The types of the service, whatever the threads of the application call and
\* whatever fails.
THEOREM TypeCorrect == Spec => []TypeOK
<1>1. TypeInv => TypeOK
  BY DEF TypeInv
<1>2. QED
  BY <1>1, TypeInvariant, PTL

-----------------------------------------------------------------------------
(* What single actions do, spelled out once.                               *)

\* Initialize and Close touch the database and the migration only.
LEMMA DbFrame ==
    ASSUME NEW c \in Caller, Initialize(c) \/ Close(c)
    PROVE  UNCHANGED <<up, mu, running, gen, transport, lastPeers, localSMTP,
                       listening, corePeers, qDb, closed, local, overlay, imap,
                       doneCh, pc, arg>>
  BY DEF Initialize, Close, goroutines, callers

\* A migration that runs, or panics, changes nothing else.
LEMMA MigrateFrame ==
    ASSUME Migrate
    PROVE  /\ UNCHANGED <<mu, running, config, storage, gen, transport, lastPeers,
                          localSMTP, dbs, listening, corePeers, qDb, closed,
                          local, overlay, imap, doneCh, pc, arg>>
           /\ migration' \in {migration, migration - 1}
<1>1. CASE Panic
  BY <1>1 DEF Panic, fields, world, goroutines, callers
<1>2. CASE ~Panic
  BY <1>2 DEF Migrate, fields, world, callers
<1>3. QED
  BY <1>1, <1>2

\* What Start leaves behind when it does not panic.
LEMMA StartEffect ==
    ASSUME TypeInv, NEW c \in Caller, Start(c), ~Panic
    PROVE  /\ mu = NoOne /\ ~running /\ storage # 0 /\ config
           /\ gen + 1 \in Gen /\ gen' = gen + 1 /\ running' = TRUE
           /\ transport' = nTrans + 1 /\ transport' \in Trans
           /\ listening' = listening \cup {transport'}
           /\ qDb' = [qDb EXCEPT ![gen'] = storage]
           /\ local' = [local EXCEPT ![gen'] = "new"]
           /\ overlay' = [overlay EXCEPT ![gen'] = "new"]
           /\ imap' = [imap EXCEPT ![gen'] = "new"]
           /\ \E peers \in SUBSET Peer :
                /\ corePeers' = peers
                /\ lastPeers' = peers
           /\ UNCHANGED <<up, mu, config, storage, localSMTP, dbs, closed,
                          doneCh, migration, pc, arg>>
<1> PICK peers \in SUBSET Peer :
         /\ NewYggdrasilTransport(peers) /\ StartServers(peers)
         /\ UNCHANGED <<up, mu, config, storage, localSMTP, overlaySMTP, dbs,
                        nDb, closed, doneCh, ovlOn, tickOn, migration, callers>>
  BY DEF Start
<1>1. /\ mu = NoOne /\ ~running /\ storage # 0 /\ config
      /\ gen < MaxStart /\ nTrans < MaxTrans
  BY DEF Start, Enter, NewYggdrasilTransport
<1>2. gen + 1 \in Gen /\ nTrans + 1 \in Trans
  BY <1>1, ServiceAssumption DEF TypeInv, TypeOK, FieldType, WorldType, Gen,
        Trans
<1>3. QED
  BY <1>1, <1>2 DEF NewYggdrasilTransport, StartServers, callers

\* What the end of OnNetworkChange leaves behind when it does not panic.
LEMMA RenewEffect ==
    ASSUME TypeInv, NEW c \in Caller, NetworkRenew(c), ~Panic
    PROVE  /\ pc[c] = "netRenew"
           /\ transport' = nTrans + 1 /\ transport' \in Trans
           /\ listening' = listening \cup {transport'}
           /\ corePeers' = arg[c].peers
           /\ pc' = [pc EXCEPT ![c] = "idle"]
           /\ arg' = [arg EXCEPT ![c] = NoArg]
           /\ UNCHANGED <<up, mu, running, config, storage, gen, lastPeers,
                          localSMTP, dbs, qDb, closed, local, overlay, imap,
                          doneCh, migration>>
<1>1. /\ NewYggdrasilTransport(arg[c].peers)
      /\ pc' = [pc EXCEPT ![c] = "idle"]
      /\ arg' = [arg EXCEPT ![c] = NoArg]
      /\ UNCHANGED <<up, mu, running, config, storage, gen, lastPeers,
                     localSMTP, overlaySMTP, dbs, nDb, manager, qDb, closed,
                     goroutines>>
  BY DEF NetworkRenew
<1>2. nTrans < MaxTrans
  BY <1>1 DEF NewYggdrasilTransport
<1>3. nTrans + 1 \in Trans
  BY <1>2, ServiceAssumption DEF TypeInv, TypeOK, WorldType, Trans
<1>4. pc[c] = "netRenew"
  BY DEF NetworkRenew, At
<1>5. QED
  BY <1>1, <1>3, <1>4 DEF NewYggdrasilTransport, goroutines

-----------------------------------------------------------------------------
(* The database.                                                           *)

\* s.storage is open or nil; Start copies it into what it makes.
DbInv ==
    /\ storage # 0 => storage \in dbs
    /\ running => config /\ storage # 0 /\ qDb[gen] = storage

\* Only Close closes a database, of a service that does not run, and it
\* forgets it.
LEMMA DbStep ==
    ASSUME TypeInv, DbInv, "close" \notin Events, [Next]_vars
    PROVE  DbInv'
<1> USE ServiceAssumption DEF TypeInv, TypeOK, Started, FieldType, WorldType,
        Db, Gen, Trans, DbInv
<1>1. ASSUME NEW c \in Caller, Call(c) \/ InProgress(c)
      PROVE  DbInv'
  <2>1. CASE Initialize(c)
    BY <2>1 DEF Initialize, Enter
  <2>2. CASE Close(c)
    BY <2>2 DEF Close, Enter, Slow
  <2>3. CASE Start(c) /\ ~Panic
    <3>1. gen' \in Gen /\ qDb' = [qDb EXCEPT ![gen'] = storage] /\ storage # 0
          /\ config /\ UNCHANGED <<config, storage, dbs>>
      BY <2>3, StartEffect
    <3>2. qDb'[gen'] = storage
      BY <3>1
    <3>3. QED
      BY <3>1, <3>2
  <2>4. CASE StopBegin(c)
    BY <2>4 DEF StopBegin, Enter
  <2>5. CASE NetworkRenew(c) /\ ~Panic
    BY <2>5, RenewEffect
  <2>6. CASE Panic
    BY <2>6 DEF Panic, fields, world
  <2>7. CASE \/ UpdatePeers(c) \/ NetworkCheck(c) \/ StopSleep(c)
            \/ StopImapClose(c) \/ StopImapWait(c) \/ StopServers(c)
            \/ StopReturn(c) \/ NetworkClose(c)
    BY <2>7 DEF UpdatePeers, NetworkCheck, fields, world, StopSleep,
         StopImapClose, StopImapWait, StopServers, StopReturn, NetworkClose
  <2>8. QED
    BY <1>1, <2>1, <2>2, <2>3, <2>4, <2>5, <2>6, <2>7 DEF Call,
       InProgress
<1>2. ASSUME NEW g \in Gen, Server(g)
      PROVE  DbInv'
  <2>1. CASE \/ LocalStart(g) \/ LocalListen(g) \/ LocalReturn(g)
            \/ OverlayStart(g) \/ OverlayReturn(g) \/ ImapListen(g)
            \/ ImapReturn(g) \/ ManagerEnds(g)
    BY <2>1 DEF LocalStart, world, LocalListen, fields, LocalReturn,
         OverlayStart, OverlayReturn, ImapListen, ImapReturn, ManagerEnds
  <2>2. QED
    BY <1>2, <2>1 DEF Server
<1>3. ASSUME NEW k \in Ticking, NEW g \in Gen,
             TickStep(k, g) \/ TickFire(k, g) \/ TickStop(k, g)
      PROVE  DbInv'
  BY <1>3 DEF TickStep, TickSelect, TickBody, TickFire, TickStop, Panic,
       fields, world
<1>4. CASE Migrate
  BY <1>4, MigrateFrame
<1>5. CASE UNCHANGED vars
  BY <1>5 DEF vars, fields, world
<1>6. QED
  BY <1>1, <1>2, <1>3, <1>4, <1>5 DEF Next

\* While the service runs it has the database its servers, queues and heartbeat
\* use, and that database is open: for any threads calling in any order and any
\* other failure, as long as closing the database reports no error.
THEOREM HasStorage ==
    ASSUME "close" \notin Events
    PROVE  Spec => []RunningHasStorage
<1>1. Init => DbInv
  BY DEF Init, DbInv
<1>2. TypeInv /\ DbInv /\ [Next]_vars => DbInv'
  BY DbStep
<1>3. TypeInv /\ DbInv => RunningHasStorage
  BY DEF TypeInv, Started, DbInv, RunningHasStorage
<1>4. QED
  BY <1>1, <1>2, <1>3, TypeInvariant, PTL DEF Spec

-----------------------------------------------------------------------------
(* No panic.                                                               *)

\* Stop is the only call that keeps s.mu across steps, and it keeps it from
\* clearing s.running until its servers are closed.
LockOK ==
    /\ mu # NoOne => ~running /\ pc[mu] \in {"sleep", "imapClose", "imapWait", "servers"}
    /\ \A c \in Caller :
         pc[c] \in {"sleep", "imapClose", "imapWait", "servers"} => mu = c

\* Only the servers of the last Start are still to be set up ...
YoungOK ==
    \A g \in Gen :
      local[g] \in {"new", "bound"} \/ overlay[g] = "new" => g = gen

\* ... and none is once Stop has slept.
QuietOK ==
    ~running /\ (mu = NoOne \/ pc[mu] # "sleep") =>
      \A g \in Gen : local[g] \notin {"new", "bound"} /\ overlay[g] # "new"

\* A server closes the channel of its own Start, once.
ChannelsOK ==
    \A g \in Gen :
      /\ local[g] \in {"bound", "listen", "return"} => doneCh[<<"smtp", g>>] = g
      /\ overlay[g] = "serve" => doneCh[<<"overlay", g>>] = g
      /\ <<"smtp", g>> \in closed => local[g] = "done"
      /\ <<"overlay", g>> \in closed => overlay[g] = "done"

\* What goroutines dereference is there.
StorageOK ==
    /\ storage # 0 => config
    /\ migration > 0 \/ running => storage # 0

PanicInv == NoPanic /\ LockOK /\ YoungOK /\ QuietOK /\ ChannelsOK /\ StorageOK

\* s.mu is taken by StopBegin and given back by StopServers.
LEMMA LockStep ==
    ASSUME TypeInv, LockOK, [Next]_vars
    PROVE  LockOK'
<1> USE ServiceAssumption DEF TypeInv, TypeOK, CallerType, LockOK
<1>1. ASSUME NEW c \in Caller, Call(c) \/ InProgress(c)
      PROVE  LockOK'
  <2>1. CASE Start(c) /\ ~Panic
    BY <2>1, StartEffect
  <2>2. CASE StopBegin(c)
    BY <2>2 DEF StopBegin, Enter
  <2>3. CASE NetworkCheck(c)
    BY <2>3 DEF NetworkCheck, Enter, fields
  <2>4. CASE StopSleep(c)
    BY <2>4 DEF StopSleep, At, Slow, fields
  <2>5. CASE StopImapClose(c)
    BY <2>5 DEF StopImapClose, At, fields
  <2>6. CASE StopImapWait(c)
    BY <2>6 DEF StopImapWait, At, Slow, fields
  <2>7. CASE StopServers(c)
    BY <2>7 DEF StopServers, At, fields
  <2>8. CASE StopReturn(c)
    BY <2>8 DEF StopReturn, At, NoArg, Slow, fields
  <2>9. CASE NetworkClose(c)
    BY <2>9 DEF NetworkClose, At, fields
  <2>10. CASE NetworkRenew(c) /\ ~Panic
    BY <2>10, RenewEffect
  <2>11. CASE Panic
    BY <2>11 DEF Panic, fields, callers
  <2>12. CASE \/ Initialize(c) \/ Close(c) \/ UpdatePeers(c)
    BY <2>12, DbFrame DEF UpdatePeers, callers
  <2>13. QED
    BY <1>1, <2>1, <2>2, <2>3, <2>4, <2>5, <2>6, <2>7, <2>8,
       <2>9, <2>10, <2>11, <2>12 DEF Call, InProgress
<1>2. ASSUME NEW g \in Gen, Server(g)
      PROVE  LockOK'
  <2>1. CASE \/ LocalStart(g) \/ LocalListen(g) \/ LocalReturn(g)
            \/ OverlayStart(g) \/ OverlayReturn(g) \/ ImapListen(g)
            \/ ImapReturn(g) \/ ManagerEnds(g)
    BY <2>1 DEF LocalStart, callers, LocalListen, fields, LocalReturn,
         OverlayStart, OverlayReturn, ImapListen, ImapReturn, ManagerEnds
  <2>2. QED
    BY <1>2, <2>1 DEF Server
<1>3. ASSUME NEW k \in Ticking, NEW g \in Gen,
             TickStep(k, g) \/ TickFire(k, g) \/ TickStop(k, g)
      PROVE  LockOK'
  BY <1>3 DEF TickStep, TickSelect, TickBody, TickFire, TickStop, Panic,
       fields, callers
<1>4. CASE Migrate
  BY <1>4, MigrateFrame
<1>5. CASE UNCHANGED vars
  BY <1>5 DEF vars, fields, callers
<1>6. QED
  BY <1>1, <1>2, <1>3, <1>4, <1>5 DEF Next

\* Start finds no server that is still to be set up.
LEMMA YoungStep ==
    ASSUME TypeInv, YoungOK, QuietOK, LockOK, [Next]_vars
    PROVE  YoungOK'
<1> USE ServiceAssumption DEF TypeInv, TypeOK, Started, FieldType,
        ServerType, Gen, YoungOK
<1>1. ASSUME NEW c \in Caller, Call(c) \/ InProgress(c)
      PROVE  YoungOK'
  <2>1. CASE Start(c) /\ ~Panic
    <3>1. /\ gen' \in Gen /\ mu = NoOne /\ ~running
          /\ local' = [local EXCEPT ![gen'] = "new"]
          /\ overlay' = [overlay EXCEPT ![gen'] = "new"]
      BY <2>1, StartEffect
    <3>2. QED
      BY <3>1 DEF QuietOK
  <2>2. CASE StopServers(c)
    BY <2>2 DEF StopServers, At, fields
  <2>3. CASE NetworkRenew(c) /\ ~Panic
    BY <2>3, RenewEffect
  <2>4. CASE Panic
    BY <2>4 DEF Panic, fields, goroutines
  <2>5. CASE \/ Initialize(c) \/ Close(c) \/ StopBegin(c) \/ UpdatePeers(c)
            \/ NetworkCheck(c) \/ StopSleep(c) \/ StopImapClose(c)
            \/ StopImapWait(c) \/ StopReturn(c) \/ NetworkClose(c)
    BY <2>5, DbFrame DEF StopBegin, goroutines, UpdatePeers, NetworkCheck,
         fields, StopSleep, StopImapClose, StopImapWait, StopReturn,
         NetworkClose
  <2>6. QED
    BY <1>1, <2>1, <2>2, <2>3, <2>4, <2>5 DEF Call, InProgress
<1>2. ASSUME NEW g \in Gen, Server(g)
      PROVE  YoungOK'
  <2>1. CASE LocalStart(g)
    BY <2>1 DEF LocalStart, At
  <2>2. CASE LocalListen(g)
    BY <2>2 DEF LocalListen, At, fields
  <2>3. CASE LocalReturn(g)
    BY <2>3 DEF LocalReturn, At, CloseDone, fields
  <2>4. CASE OverlayStart(g)
    BY <2>4 DEF OverlayStart, At
  <2>5. CASE OverlayReturn(g)
    BY <2>5 DEF OverlayReturn, At, CloseDone, fields
  <2>6. CASE \/ ImapListen(g) \/ ImapReturn(g) \/ ManagerEnds(g)
    BY <2>6 DEF ImapListen, fields, ImapReturn, ManagerEnds, goroutines
  <2>7. QED
    BY <1>2, <2>1, <2>2, <2>3, <2>4, <2>5, <2>6 DEF Server
<1>3. ASSUME NEW k \in Ticking, NEW g \in Gen,
             TickStep(k, g) \/ TickFire(k, g) \/ TickStop(k, g)
      PROVE  YoungOK'
  BY <1>3 DEF TickStep, TickSelect, TickBody, TickFire, TickStop, Panic,
       fields, goroutines
<1>4. CASE Migrate
  BY <1>4, MigrateFrame
<1>5. CASE UNCHANGED vars
  BY <1>5 DEF vars, fields, goroutines
<1>6. QED
  BY <1>1, <1>2, <1>3, <1>4, <1>5 DEF Next

\* StopSleep waits for the servers of the last Start, and there are no others.
LEMMA QuietStep ==
    ASSUME "slow" \notin Events, TypeInv, LockOK, YoungOK, QuietOK, [Next]_vars
    PROVE  QuietOK'
<1> USE ServiceAssumption DEF TypeInv, TypeOK, CallerType, ServerType,
        LockOK, YoungOK, QuietOK
<1>1. ASSUME NEW c \in Caller, Call(c) \/ InProgress(c)
      PROVE  QuietOK'
  <2>1. CASE Start(c) /\ ~Panic
    BY <2>1, StartEffect
  <2>2. CASE StopBegin(c)
    BY <2>2 DEF StopBegin, Enter, goroutines
  <2>3. CASE NetworkCheck(c)
    BY <2>3 DEF NetworkCheck, Enter, fields, goroutines
  <2>4. CASE StopSleep(c)
    BY <2>4 DEF StopSleep, At, Slow, fields, goroutines
  <2>5. CASE StopImapClose(c)
    BY <2>5 DEF StopImapClose, At, fields
  <2>6. CASE StopImapWait(c)
    BY <2>6 DEF StopImapWait, At, Slow, fields, goroutines
  <2>7. CASE StopServers(c)
    BY <2>7 DEF StopServers, At, fields
  <2>8. CASE StopReturn(c)
    BY <2>8 DEF StopReturn, At, NoArg, Slow, fields, goroutines
  <2>9. CASE NetworkClose(c)
    BY <2>9 DEF NetworkClose, At, fields, goroutines
  <2>10. CASE NetworkRenew(c) /\ ~Panic
    BY <2>10, RenewEffect
  <2>11. CASE Panic
    BY <2>11 DEF Panic, fields, goroutines, callers
  <2>12. CASE \/ Initialize(c) \/ Close(c) \/ UpdatePeers(c)
    BY <2>12, DbFrame DEF UpdatePeers, goroutines, callers
  <2>13. QED
    BY <1>1, <2>1, <2>2, <2>3, <2>4, <2>5, <2>6, <2>7, <2>8,
       <2>9, <2>10, <2>11, <2>12 DEF Call, InProgress
<1>2. ASSUME NEW g \in Gen, Server(g)
      PROVE  QuietOK'
  <2>1. CASE LocalStart(g)
    BY <2>1 DEF LocalStart, At, callers
  <2>2. CASE LocalListen(g)
    BY <2>2 DEF LocalListen, At, fields, callers
  <2>3. CASE LocalReturn(g)
    BY <2>3 DEF LocalReturn, At, CloseDone, fields, callers
  <2>4. CASE OverlayStart(g)
    BY <2>4 DEF OverlayStart, At, callers
  <2>5. CASE OverlayReturn(g)
    BY <2>5 DEF OverlayReturn, At, CloseDone, fields, callers
  <2>6. CASE \/ ImapListen(g) \/ ImapReturn(g) \/ ManagerEnds(g)
    BY <2>6 DEF ImapListen, fields, callers, ImapReturn, ManagerEnds,
         goroutines
  <2>7. QED
    BY <1>2, <2>1, <2>2, <2>3, <2>4, <2>5, <2>6 DEF Server
<1>3. ASSUME NEW k \in Ticking, NEW g \in Gen,
             TickStep(k, g) \/ TickFire(k, g) \/ TickStop(k, g)
      PROVE  QuietOK'
  BY <1>3 DEF TickStep, TickSelect, TickBody, TickFire, TickStop, Panic,
       fields, goroutines, callers
<1>4. CASE Migrate
  BY <1>4, MigrateFrame
<1>5. CASE UNCHANGED vars
  BY <1>5 DEF vars, fields, goroutines, callers
<1>6. QED
  BY <1>1, <1>2, <1>3, <1>4, <1>5 DEF Next

\* A server evaluates its deferred close while the channel is still its own.
LEMMA ChannelsStep ==
    ASSUME TypeInv, YoungOK, ChannelsOK, [Next]_vars
    PROVE  ChannelsOK'
<1> USE ServiceAssumption DEF TypeInv, TypeOK, Started, WorldType,
        ServerType, ChannelsOK, YoungOK
<1>1. ASSUME NEW c \in Caller, Call(c) \/ InProgress(c)
      PROVE  ChannelsOK'
  <2>1. CASE Start(c) /\ ~Panic
    <3>1. /\ gen' \in Gen /\ gen' = gen + 1 /\ UNCHANGED <<closed, doneCh>>
          /\ local' = [local EXCEPT ![gen'] = "new"]
          /\ overlay' = [overlay EXCEPT ![gen'] = "new"]
      BY <2>1, StartEffect
    <3>2. gen \in Nat
      BY DEF FieldType, Gen
    <3>3. ~(gen' <= gen)
      BY <3>1, <3>2
    <3>4. local[gen'] = "none" /\ overlay[gen'] = "none"
      BY <3>1, <3>3
    <3>5. QED
      BY <3>1, <3>4
  <2>2. CASE StopBegin(c)
    BY <2>2 DEF StopBegin, Enter, goroutines
  <2>3. CASE StopServers(c)
    BY <2>3 DEF StopServers, At
  <2>4. CASE NetworkRenew(c) /\ ~Panic
    BY <2>4, RenewEffect
  <2>5. CASE Panic
    BY <2>5 DEF Panic, world, goroutines
  <2>6. CASE \/ Initialize(c) \/ Close(c) \/ UpdatePeers(c)
            \/ NetworkCheck(c) \/ StopSleep(c) \/ StopImapClose(c)
            \/ StopImapWait(c) \/ StopReturn(c) \/ NetworkClose(c)
    BY <2>6, DbFrame DEF UpdatePeers, goroutines, NetworkCheck, world,
         StopSleep, StopImapClose, StopImapWait, StopReturn, NetworkClose
  <2>7. QED
    BY <1>1, <2>1, <2>2, <2>3, <2>4, <2>5, <2>6 DEF Call,
       InProgress
<1>2. ASSUME NEW g \in Gen, Server(g)
      PROVE  ChannelsOK'
  <2>1. CASE LocalStart(g)
    BY <2>1 DEF LocalStart, At, world
  <2>2. CASE LocalListen(g)
    BY <2>2 DEF LocalListen, At, world
  <2>3. CASE LocalReturn(g)
    <3>1. local[g] = "return" /\ doneCh[<<"smtp", g>>] = g
      BY <2>3 DEF LocalReturn, At
    <3>2. closed' \subseteq closed \cup {<<"smtp", g>>}
      BY <2>3, <3>1 DEF LocalReturn, CloseDone
    <3>3. local' = [local EXCEPT ![g] = "done"] /\ UNCHANGED <<overlay, doneCh>>
      BY <2>3 DEF LocalReturn
    <3>4. QED
      BY <3>1, <3>2, <3>3
  <2>4. CASE OverlayStart(g)
    BY <2>4 DEF OverlayStart, At, world
  <2>5. CASE OverlayReturn(g)
    <3>1. overlay[g] = "serve" /\ doneCh[<<"overlay", g>>] = g
      BY <2>5 DEF OverlayReturn, At
    <3>2. closed' \subseteq closed \cup {<<"overlay", g>>}
      BY <2>5, <3>1 DEF OverlayReturn, CloseDone
    <3>3. overlay' = [overlay EXCEPT ![g] = "done"] /\ UNCHANGED <<local, doneCh>>
      BY <2>5 DEF OverlayReturn
    <3>4. QED
      BY <3>1, <3>2, <3>3
  <2>6. CASE \/ ImapListen(g) \/ ImapReturn(g) \/ ManagerEnds(g)
    BY <2>6 DEF ImapListen, world, ImapReturn, ManagerEnds, goroutines
  <2>7. QED
    BY <1>2, <2>1, <2>2, <2>3, <2>4, <2>5, <2>6 DEF Server
<1>3. ASSUME NEW k \in Ticking, NEW g \in Gen,
             TickStep(k, g) \/ TickFire(k, g) \/ TickStop(k, g)
      PROVE  ChannelsOK'
  BY <1>3 DEF TickStep, TickSelect, TickBody, TickFire, TickStop, Panic,
       world, goroutines
<1>4. CASE Migrate
  BY <1>4, MigrateFrame
<1>5. CASE UNCHANGED vars
  BY <1>5 DEF vars, world, goroutines
<1>6. QED
  BY <1>1, <1>2, <1>3, <1>4, <1>5 DEF Next

\* Initialize sets the fields together, and Close waits for the migration.
LEMMA StorageStep ==
    ASSUME {"slow", "init"} \cap Events = {}, TypeInv, StorageOK, [Next]_vars
    PROVE  StorageOK'
<1> USE ServiceAssumption DEF TypeInv, TypeOK, FieldType, WorldType,
        TickType, Db, StorageOK
<1>1. ASSUME NEW c \in Caller, Call(c) \/ InProgress(c)
      PROVE  StorageOK'
  <2>1. CASE Initialize(c)
    <3>1. nDb \in Nat /\ storage' = nDb + 1 /\ running' = running
      BY <2>1 DEF Initialize
    <3>2. config'
      BY <2>1 DEF Initialize
    <3>3. QED
      BY <3>1, <3>2
  <2>2. CASE Close(c)
    BY <2>2 DEF Close, Enter, Slow, goroutines
  <2>3. CASE Start(c) /\ ~Panic
    BY <2>3, StartEffect
  <2>4. CASE StopBegin(c)
    BY <2>4 DEF StopBegin, Enter, goroutines
  <2>5. CASE NetworkRenew(c) /\ ~Panic
    BY <2>5, RenewEffect
  <2>6. CASE Panic
    BY <2>6 DEF Panic, fields, goroutines
  <2>7. CASE \/ UpdatePeers(c) \/ NetworkCheck(c) \/ StopSleep(c)
            \/ StopImapClose(c) \/ StopImapWait(c) \/ StopServers(c)
            \/ StopReturn(c) \/ NetworkClose(c)
    BY <2>7 DEF UpdatePeers, goroutines, NetworkCheck, fields, StopSleep,
         StopImapClose, StopImapWait, StopServers, StopReturn, NetworkClose
  <2>8. QED
    BY <1>1, <2>1, <2>2, <2>3, <2>4, <2>5, <2>6, <2>7 DEF Call,
       InProgress
<1>2. ASSUME NEW g \in Gen, Server(g)
      PROVE  StorageOK'
  <2>1. CASE \/ LocalStart(g) \/ LocalListen(g) \/ LocalReturn(g)
            \/ OverlayStart(g) \/ OverlayReturn(g) \/ ImapListen(g)
            \/ ImapReturn(g) \/ ManagerEnds(g)
    BY <2>1 DEF LocalStart, LocalListen, fields, LocalReturn, OverlayStart,
         OverlayReturn, ImapListen, ImapReturn, ManagerEnds, goroutines
  <2>2. QED
    BY <1>2, <2>1 DEF Server
<1>3. ASSUME NEW k \in Ticking, NEW g \in Gen,
             TickStep(k, g) \/ TickFire(k, g) \/ TickStop(k, g)
      PROVE  StorageOK'
  BY <1>3 DEF TickStep, TickSelect, TickBody, TickFire, TickStop, Panic,
       fields, goroutines
<1>4. CASE Migrate
  BY <1>4, MigrateFrame
<1>5. CASE UNCHANGED vars
  BY <1>5 DEF vars, fields, goroutines
<1>6. QED
  BY <1>1, <1>2, <1>3, <1>4, <1>5 DEF Next

\* No server is left to be set up once Stop has slept.
LEMMA QuietInvariant ==
    ASSUME "slow" \notin Events
    PROVE  Spec => [](LockOK /\ YoungOK /\ QuietOK)
<1>1. Init => LockOK /\ YoungOK /\ QuietOK
  BY DEF Init, LockOK, YoungOK, QuietOK
<1>2. TypeInv /\ LockOK /\ YoungOK /\ QuietOK /\ [Next]_vars
      => (LockOK /\ YoungOK /\ QuietOK)'
  BY LockStep, YoungStep, QuietStep
<1>3. QED
  BY <1>1, <1>2, TypeInvariant, PTL DEF Spec

\* Every dereference finds its field set and every close an open channel.
LEMMA NoPanicStep ==
    ASSUME {"slow", "init", "peers"} \cap Events = {}, PanicInv, [Next]_vars
    PROVE  up'
<1> USE DEF PanicInv, NoPanic
<1>1. ASSUME NEW c \in Caller, Call(c) \/ InProgress(c)
      PROVE  up'
  <2>1. CASE Start(c)
    BY <2>1, StorageOK DEF Start, StorageOK, Rejections
  <2>2. CASE NetworkRenew(c)
    BY <2>2 DEF NetworkRenew, Rejections
  <2>3. CASE Initialize(c) \/ Close(c)
    BY <2>3, DbFrame
  <2>4. CASE \/ StopBegin(c) \/ UpdatePeers(c) \/ NetworkCheck(c)
             \/ StopSleep(c) \/ StopImapClose(c) \/ StopImapWait(c)
             \/ StopServers(c) \/ StopReturn(c) \/ NetworkClose(c)
    BY <2>4 DEF StopBegin, UpdatePeers, NetworkCheck, StopSleep, StopImapClose,
         StopImapWait, StopServers, StopReturn, NetworkClose
  <2>5. QED
    BY <1>1, <2>1, <2>2, <2>3, <2>4 DEF Call, InProgress
<1>2. ASSUME NEW g \in Gen, Server(g)
      PROVE  up'
  <2>1. CASE LocalReturn(g)
    <3>1. <<"smtp", doneCh[<<"smtp", g>>]>> \notin closed
      BY <2>1 DEF LocalReturn, At, ChannelsOK
    <3>2. QED
      BY <2>1, <3>1 DEF LocalReturn, CloseDone
  <2>2. CASE OverlayReturn(g)
    <3>1. <<"overlay", doneCh[<<"overlay", g>>]>> \notin closed
      BY <2>2 DEF OverlayReturn, At, ChannelsOK
    <3>2. QED
      BY <2>2, <3>1 DEF OverlayReturn, CloseDone
  <2>3. CASE \/ LocalStart(g) \/ LocalListen(g) \/ OverlayStart(g)
             \/ ImapListen(g) \/ ImapReturn(g) \/ ManagerEnds(g)
    BY <2>3 DEF LocalStart, LocalListen, OverlayStart, ImapListen, ImapReturn,
         ManagerEnds
  <2>4. QED
    BY <1>2, <2>1, <2>2, <2>3 DEF Server
<1>3. ASSUME NEW k \in Ticking, NEW g \in Gen,
             TickStep(k, g) \/ TickFire(k, g) \/ TickStop(k, g)
      PROVE  up'
  BY <1>3 DEF TickStep, TickSelect, TickBody, TickFire, TickStop, StorageOK
<1>4. CASE Migrate
  BY <1>4 DEF Migrate, StorageOK
<1>5. CASE UNCHANGED vars
  BY <1>5 DEF vars
<1>6. QED
  BY <1>1, <1>2, <1>3, <1>4, <1>5 DEF Next

\* The parts of PanicInv hold together.
LEMMA PanicInvariant ==
    ASSUME {"slow", "init", "peers"} \cap Events = {}
    PROVE  Spec => []PanicInv
<1>1. Init => PanicInv
  BY DEF Init, PanicInv, NoPanic, LockOK, YoungOK, QuietOK, ChannelsOK,
        StorageOK
<1>2. TypeInv /\ PanicInv /\ [Next]_vars => PanicInv'
  <2> SUFFICES ASSUME TypeInv, PanicInv, [Next]_vars
               PROVE  PanicInv'
    OBVIOUS
  <2>1. LockOK'
    BY LockStep DEF PanicInv
  <2>2. YoungOK'
    BY YoungStep DEF PanicInv
  <2>3. QuietOK'
    BY QuietStep DEF PanicInv
  <2>4. ChannelsOK'
    BY ChannelsStep DEF PanicInv
  <2>5. StorageOK'
    BY StorageStep DEF PanicInv
  <2>6. up'
    BY NoPanicStep
  <2>7. QED
    BY <2>1, <2>2, <2>3, <2>4, <2>5, <2>6 DEF PanicInv, NoPanic
<1>3. QED
  BY <1>1, <1>2, TypeInvariant, PTL DEF Spec

\* No call and no goroutine panics, for any threads calling in any order, as
\* long as goroutines are scheduled within the times Stop allows, Initialize
\* does not fail and yggdrasil accepts the peers: none finds s.config or
\* s.storage nil, and no channel is closed twice.
THEOREM PanicFree ==
    ASSUME {"slow", "init", "peers"} \cap Events = {}
    PROVE  Spec => []NoPanic
<1>1. PanicInv => NoPanic
  BY DEF PanicInv
<1>2. QED
  BY <1>1, PanicInvariant, PTL

-----------------------------------------------------------------------------
(* Silence.                                                                *)

Controls == {"Stop", "OnNetworkChange"}

\* One thread at most stops the service and reports changes of the network.
OneController ==
    \A c, d \in Caller :
      Controls \cap Calls[c] # {} /\ Controls \cap Calls[d] # {} => c = d

\* Who is in a call controls the service, and a change of the network is
\* handled while the service runs.
ControlOK ==
    \A c \in Caller :
      /\ pc[c] # "idle" => Controls \cap Calls[c] # {}
      /\ pc[c] \in {"netClose", "netRenew"} => running

\* OnNetworkChange replaces a transport that does not listen any more.
RenewOK == \A c \in Caller : pc[c] = "netRenew" => listening = {}

\* Everything that listens can be found by Stop.
FoundOK ==
    /\ listening \subseteq {transport}
    /\ \A g \in Gen :
         /\ local[g] \in {"bound", "listen"} => g = gen /\ localSMTP = g
         /\ imap[g] \in {"new", "listen"} => g = gen

\* Stop progresses: the IMAP server first, then the others.
SilentOK ==
    ~running =>
      /\ mu = NoOne \/ pc[mu] \in {"imapClose", "imapWait", "servers"} =>
           \A g \in Gen : imap[g] # "new"
      /\ mu = NoOne \/ pc[mu] \in {"imapWait", "servers"} =>
           \A g \in Gen : imap[g] # "listen"
      /\ mu = NoOne => listening = {} /\ \A g \in Gen : local[g] # "listen"

SilentInv == RenewOK /\ FoundOK /\ SilentOK
\* While its caller handles a change of the network nobody else stops the
\* service, and Start is refused.
LEMMA ControlStep ==
    ASSUME OneController, TypeInv, LockOK, ControlOK, [Next]_vars
    PROVE  ControlOK'
<1> USE ServiceAssumption DEF TypeInv, TypeOK, CallerType, ControlOK, LockOK,
        OneController, Controls
<1>1. ASSUME NEW c \in Caller, Call(c) \/ InProgress(c)
      PROVE  ControlOK'
  <2>1. CASE Start(c) /\ ~Panic
    BY <2>1, StartEffect
  <2>2. CASE StopBegin(c)
    BY <2>2 DEF StopBegin, Enter
  <2>3. CASE UpdatePeers(c)
    BY <2>3 DEF UpdatePeers, Enter, callers
  <2>4. CASE NetworkCheck(c)
    BY <2>4 DEF NetworkCheck, Enter, fields
  <2>5. CASE StopSleep(c)
    BY <2>5 DEF StopSleep, At, Slow, fields
  <2>6. CASE StopImapClose(c)
    BY <2>6 DEF StopImapClose, At, fields
  <2>7. CASE StopImapWait(c)
    BY <2>7 DEF StopImapWait, At, Slow, fields
  <2>8. CASE StopServers(c)
    BY <2>8 DEF StopServers, At, fields
  <2>9. CASE StopReturn(c)
    BY <2>9 DEF StopReturn, At, NoArg, Slow, fields
  <2>10. CASE NetworkClose(c)
    BY <2>10 DEF NetworkClose, At, fields
  <2>11. CASE NetworkRenew(c) /\ ~Panic
    BY <2>11, RenewEffect DEF NoArg
  <2>12. CASE Panic
    BY <2>12 DEF Panic, fields, callers
  <2>13. CASE \/ Initialize(c) \/ Close(c)
    BY <2>13, DbFrame
  <2>14. QED
    BY <1>1, <2>1, <2>2, <2>3, <2>4, <2>5, <2>6, <2>7, <2>8,
       <2>9, <2>10, <2>11, <2>12, <2>13 DEF Call, InProgress
<1>2. ASSUME NEW g \in Gen, Server(g)
      PROVE  ControlOK'
  <2>1. CASE \/ LocalStart(g) \/ LocalListen(g) \/ LocalReturn(g)
            \/ OverlayStart(g) \/ OverlayReturn(g) \/ ImapListen(g)
            \/ ImapReturn(g) \/ ManagerEnds(g)
    BY <2>1 DEF LocalStart, callers, LocalListen, fields, LocalReturn,
         OverlayStart, OverlayReturn, ImapListen, ImapReturn, ManagerEnds
  <2>2. QED
    BY <1>2, <2>1 DEF Server
<1>3. ASSUME NEW k \in Ticking, NEW g \in Gen,
             TickStep(k, g) \/ TickFire(k, g) \/ TickStop(k, g)
      PROVE  ControlOK'
  BY <1>3 DEF TickStep, TickSelect, TickBody, TickFire, TickStop, Panic,
       fields, callers
<1>4. CASE Migrate
  BY <1>4, MigrateFrame
<1>5. CASE UNCHANGED vars
  BY <1>5 DEF vars, fields, callers
<1>6. QED
  BY <1>1, <1>2, <1>3, <1>4, <1>5 DEF Next

\* NetworkClose closes the only listener, and no other is made before
\* NetworkRenew.
LEMMA RenewStep ==
    ASSUME OneController, TypeInv, FoundOK, ControlOK, RenewOK, [Next]_vars
    PROVE  RenewOK'
<1> USE ServiceAssumption DEF TypeInv, TypeOK, CallerType, RenewOK,
        ControlOK, FoundOK, OneController, Controls
<1>1. ASSUME NEW c \in Caller, Call(c) \/ InProgress(c)
      PROVE  RenewOK'
  <2>1. CASE Start(c) /\ ~Panic
    BY <2>1, StartEffect
  <2>2. CASE StopBegin(c)
    BY <2>2 DEF StopBegin, Enter
  <2>3. CASE NetworkCheck(c)
    BY <2>3 DEF NetworkCheck, Enter, world
  <2>4. CASE StopSleep(c)
    BY <2>4 DEF StopSleep, At, Slow, world
  <2>5. CASE StopImapClose(c)
    BY <2>5 DEF StopImapClose, At, world
  <2>6. CASE StopImapWait(c)
    BY <2>6 DEF StopImapWait, At, Slow, world
  <2>7. CASE StopServers(c)
    BY <2>7 DEF StopServers, At
  <2>8. CASE StopReturn(c)
    BY <2>8 DEF StopReturn, At, NoArg, Slow, world
  <2>9. CASE NetworkClose(c)
    BY <2>9 DEF NetworkClose, At
  <2>10. CASE NetworkRenew(c) /\ ~Panic
    BY <2>10, RenewEffect
  <2>11. CASE Panic
    BY <2>11 DEF Panic, world, callers
  <2>12. CASE \/ Initialize(c) \/ Close(c) \/ UpdatePeers(c)
    BY <2>12, DbFrame DEF UpdatePeers, callers
  <2>13. QED
    BY <1>1, <2>1, <2>2, <2>3, <2>4, <2>5, <2>6, <2>7, <2>8,
       <2>9, <2>10, <2>11, <2>12 DEF Call, InProgress
<1>2. ASSUME NEW g \in Gen, Server(g)
      PROVE  RenewOK'
  <2>1. CASE \/ LocalStart(g) \/ LocalListen(g) \/ LocalReturn(g)
            \/ OverlayStart(g) \/ OverlayReturn(g) \/ ImapListen(g)
            \/ ImapReturn(g) \/ ManagerEnds(g)
    BY <2>1 DEF LocalStart, world, callers, LocalListen, LocalReturn,
         OverlayStart, OverlayReturn, ImapListen, ImapReturn, ManagerEnds
  <2>2. QED
    BY <1>2, <2>1 DEF Server
<1>3. ASSUME NEW k \in Ticking, NEW g \in Gen,
             TickStep(k, g) \/ TickFire(k, g) \/ TickStop(k, g)
      PROVE  RenewOK'
  BY <1>3 DEF TickStep, TickSelect, TickBody, TickFire, TickStop, Panic,
       world, callers
<1>4. CASE Migrate
  BY <1>4, MigrateFrame
<1>5. CASE UNCHANGED vars
  BY <1>5 DEF vars, world, callers
<1>6. QED
  BY <1>1, <1>2, <1>3, <1>4, <1>5 DEF Next

\* A new server or transport finds nothing else listening.
LEMMA FoundStep ==
    ASSUME TypeInv, YoungOK, QuietOK, FoundOK, SilentOK, RenewOK, [Next]_vars
    PROVE  FoundOK'
<1> USE ServiceAssumption DEF TypeInv, TypeOK, ServerType, FoundOK, YoungOK,
        QuietOK, SilentOK, RenewOK
<1>1. ASSUME NEW c \in Caller, Call(c) \/ InProgress(c)
      PROVE  FoundOK'
  <2>1. CASE Start(c) /\ ~Panic
    BY <2>1, StartEffect
  <2>2. CASE StopImapClose(c)
    BY <2>2 DEF StopImapClose, At, fields, world
  <2>3. CASE StopServers(c)
    BY <2>3 DEF StopServers, At, fields
  <2>4. CASE NetworkClose(c)
    BY <2>4 DEF NetworkClose, At, fields, goroutines
  <2>5. CASE NetworkRenew(c) /\ ~Panic
    BY <2>5, RenewEffect
  <2>6. CASE Panic
    BY <2>6 DEF Panic, fields, world, goroutines
  <2>7. CASE \/ Initialize(c) \/ Close(c) \/ StopBegin(c) \/ UpdatePeers(c)
            \/ NetworkCheck(c) \/ StopSleep(c) \/ StopImapWait(c)
            \/ StopReturn(c)
    BY <2>7, DbFrame DEF StopBegin, goroutines, UpdatePeers, NetworkCheck,
         fields, world, StopSleep, StopImapWait, StopReturn
  <2>8. QED
    BY <1>1, <2>1, <2>2, <2>3, <2>4, <2>5, <2>6, <2>7 DEF Call,
       InProgress
<1>2. ASSUME NEW g \in Gen, Server(g)
      PROVE  FoundOK'
  <2>1. CASE LocalStart(g)
    BY <2>1 DEF LocalStart, At, world
  <2>2. CASE LocalListen(g)
    BY <2>2 DEF LocalListen, At, fields, world
  <2>3. CASE LocalReturn(g)
    BY <2>3 DEF LocalReturn, At, CloseDone, fields
  <2>4. CASE ImapListen(g)
    BY <2>4 DEF ImapListen, At, fields, world
  <2>5. CASE ImapReturn(g)
    BY <2>5 DEF ImapReturn, At, fields, world
  <2>6. CASE \/ OverlayStart(g) \/ OverlayReturn(g) \/ ManagerEnds(g)
    BY <2>6 DEF OverlayStart, world, OverlayReturn, fields, ManagerEnds,
         goroutines
  <2>7. QED
    BY <1>2, <2>1, <2>2, <2>3, <2>4, <2>5, <2>6 DEF Server
<1>3. ASSUME NEW k \in Ticking, NEW g \in Gen,
             TickStep(k, g) \/ TickFire(k, g) \/ TickStop(k, g)
      PROVE  FoundOK'
  BY <1>3 DEF TickStep, TickSelect, TickBody, TickFire, TickStop, Panic,
       fields, world, goroutines
<1>4. CASE Migrate
  BY <1>4, MigrateFrame
<1>5. CASE UNCHANGED vars
  BY <1>5 DEF vars, fields, world, goroutines
<1>6. QED
  BY <1>1, <1>2, <1>3, <1>4, <1>5 DEF Next

\* Each step of Stop silences what the one before has set up.
LEMMA SilentStep ==
    ASSUME "slow" \notin Events, TypeInv, LockOK, QuietOK, FoundOK, SilentOK,
           ControlOK, [Next]_vars
    PROVE  SilentOK'
<1> USE ServiceAssumption DEF TypeInv, TypeOK, ServerType, CallerType,
        FieldType, SilentOK, LockOK, QuietOK, FoundOK, ControlOK
<1>1. ASSUME NEW c \in Caller, Call(c) \/ InProgress(c)
      PROVE  SilentOK'
  <2>1. CASE Start(c) /\ ~Panic
    BY <2>1, StartEffect
  <2>2. CASE StopBegin(c)
    BY <2>2 DEF StopBegin, Enter, goroutines
  <2>3. CASE NetworkCheck(c)
    BY <2>3 DEF NetworkCheck, Enter, fields, world, goroutines
  <2>4. CASE StopSleep(c)
    BY <2>4 DEF StopSleep, At, Slow, fields, world, goroutines
  <2>5. CASE StopImapClose(c)
    BY <2>5 DEF StopImapClose, At, fields, world
  <2>6. CASE StopImapWait(c)
    BY <2>6 DEF StopImapWait, At, Slow, fields, world, goroutines
  <2>7. CASE StopServers(c)
    BY <2>7 DEF StopServers, At, fields
  <2>8. CASE StopReturn(c)
    BY <2>8 DEF StopReturn, At, NoArg, Slow, fields, world, goroutines
  <2>9. CASE NetworkClose(c)
    BY <2>9 DEF NetworkClose, At, fields, goroutines
  <2>10. CASE NetworkRenew(c) /\ ~Panic
    BY <2>10, RenewEffect
  <2>11. CASE Panic
    BY <2>11 DEF Panic, fields, world, goroutines, callers
  <2>12. CASE \/ Initialize(c) \/ Close(c) \/ UpdatePeers(c)
    BY <2>12, DbFrame DEF UpdatePeers, goroutines, callers
  <2>13. QED
    BY <1>1, <2>1, <2>2, <2>3, <2>4, <2>5, <2>6, <2>7, <2>8,
       <2>9, <2>10, <2>11, <2>12 DEF Call, InProgress
<1>2. ASSUME NEW g \in Gen, Server(g)
      PROVE  SilentOK'
  <2>1. CASE LocalStart(g)
    BY <2>1 DEF LocalStart, At, world, callers
  <2>2. CASE LocalListen(g)
    BY <2>2 DEF LocalListen, At, fields, world, callers
  <2>3. CASE LocalReturn(g)
    BY <2>3 DEF LocalReturn, At, CloseDone, fields, callers
  <2>4. CASE ImapListen(g)
    BY <2>4 DEF ImapListen, At, fields, world, callers
  <2>5. CASE ImapReturn(g)
    BY <2>5 DEF ImapReturn, At, fields, world, callers
  <2>6. CASE \/ OverlayStart(g) \/ OverlayReturn(g) \/ ManagerEnds(g)
    BY <2>6 DEF OverlayStart, world, callers, OverlayReturn, fields,
         ManagerEnds, goroutines
  <2>7. QED
    BY <1>2, <2>1, <2>2, <2>3, <2>4, <2>5, <2>6 DEF Server
<1>3. ASSUME NEW k \in Ticking, NEW g \in Gen,
             TickStep(k, g) \/ TickFire(k, g) \/ TickStop(k, g)
      PROVE  SilentOK'
  BY <1>3 DEF TickStep, TickSelect, TickBody, TickFire, TickStop, Panic,
       fields, world, goroutines, callers
<1>4. CASE Migrate
  BY <1>4, MigrateFrame
<1>5. CASE UNCHANGED vars
  BY <1>5 DEF vars, fields, world, goroutines, callers
<1>6. QED
  BY <1>1, <1>2, <1>3, <1>4, <1>5 DEF Next

\* Stop and OnNetworkChange are not disturbed by other threads.
LEMMA ControlInvariant ==
    ASSUME OneController
    PROVE  Spec => [](LockOK /\ ControlOK)
<1>1. Init => LockOK /\ ControlOK
  BY DEF Init, LockOK, ControlOK
<1>2. TypeInv /\ LockOK /\ ControlOK /\ [Next]_vars => (LockOK /\ ControlOK)'
  BY LockStep, ControlStep
<1>3. QED
  BY <1>1, <1>2, TypeInvariant, PTL DEF Spec

\* Nothing listens once Stop has closed the servers, when one thread at most
\* controls the service and goroutines are scheduled within the times Stop
\* allows: every server and listener there is can be found by it.
THEOREM Silent ==
    ASSUME OneController, "slow" \notin Events
    PROVE  Spec => []StoppedIsSilent
<1>1. Init => SilentInv
  BY DEF Init, SilentInv, RenewOK, FoundOK, SilentOK
<1>2. /\ TypeInv /\ LockOK /\ YoungOK /\ QuietOK /\ ControlOK /\ SilentInv
      /\ [Next]_vars
      => SilentInv'
  <2> SUFFICES ASSUME TypeInv, LockOK, YoungOK, QuietOK, ControlOK, SilentInv,
                      [Next]_vars
               PROVE  SilentInv'
    OBVIOUS
  <2>1. RenewOK'
    BY RenewStep DEF SilentInv
  <2>2. FoundOK'
    BY FoundStep DEF SilentInv
  <2>3. SilentOK'
    BY SilentStep DEF SilentInv
  <2>4. QED
    BY <2>1, <2>2, <2>3 DEF SilentInv
<1>3. SilentInv => StoppedIsSilent
  BY DEF SilentInv, SilentOK, StoppedIsSilent
<1>4. QED
  BY <1>1, <1>2, <1>3, TypeInvariant, QuietInvariant, ControlInvariant,
        PTL DEF Spec

=============================================================================
