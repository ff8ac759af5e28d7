-------------------------- MODULE MailServerProofs --------------------------
(***************************************************************************)
(* What the run mailserver checks on two mails, proved for any mailboxes,  *)
(* mails, connections and bounds, with every interleaving of the handlers  *)
(* and every failing call: the type invariant, that mails are kept as long *)
(* as nobody deletes anything, and what may take the last row of a mail.   *)
(*                                                                         *)
(* Handlers hold ids, flags and mails between the calls of the storage,    *)
(* and the ids may be other mails' by the time they are used.  So nothing  *)
(* is claimed about the rows these ids lead to, only about what a write    *)
(* can do to whatever row it finds: JobFits and Clean say what handlers    *)
(* can write, MoveOK that of a mail in the middle of a move there are two  *)
(* rows, which holds because all other writes wait for the Writer.         *)
(***************************************************************************)
EXTENDS MailServer, FiniteSetTheorems, SequenceTheorems, TLAPS

-----------------------------------------------------------------------------
(* Invariants.                                                             *)

\* A handler is at a place of its command and has what it needs there.
JobFits(u, j) ==
    /\ j.op = "none" <=> j.pc = "idle"
    /\ j.op # "none" => j.box \in Box
    /\ j.pc = "create" => j.op = "copy" /\ j.snap.msg \in Msg
    /\ j.pc \in {"insert", "delete"} => j.op = "move"
    /\ j.op = "append" => j.pc = "write" /\ j.list # <<>>
    /\ j.op = "store" => j.flag \in Flag
    /\ u \notin Client => j.op \in {"none", "store"}

\* A session that reads the row of its mail has an id.
HasId == \A m \in Msg : rpc[m] = "stored" => rid[m] \in Ids

TypeInv == TypeOK /\ HasId /\ \A u \in User : JobFits(u, job[u])

\* In the middle of a move its mail has two rows, and nobody else moves one.
MoveOK ==
    \A c \in Client : job[c].pc = "delete" =>
      LET s == RowOf(job[c])
          t == <<job[c].dest, job[c].id>>
      IN  /\ \A d \in Client : job[d].pc = "delete" => d = c
          /\ s \in Slot /\ t \in Slot /\ s # t
          /\ mail[s] \in Msg /\ mail[t] = mail[s]

\* A handler does not write "Deleted" to any row.
Clean(j) ==
    /\ "Deleted" \notin j.snap.flags
    /\ j.op = "store" /\ j.add => j.flag # "Deleted"
    /\ j.op = "append" => \A k \in DOMAIN j.list : j.list[k] # "Deleted"

\* As long as nobody has asked to delete anything, no row is flagged, nobody
\* is about to flag one, and no session expunges.
NothingDeleted ==
    ~deletion =>
      /\ \A s \in Slot : "Deleted" \notin flags[s]
      /\ \A u \in User : Clean(job[u])
      /\ \A m \in Msg : rpc[m] # "expunge"

\* StoredMailKept from the moment a mail is stored.
Keeping == {"stored", "check", "refuse", "count", "notify", "accepted", "appended"}

KeptOK == ~deletion => \A m \in Msg : rpc[m] \in Keeping => Stored(m)

AllInv == TypeInv /\ MoveOK /\ NothingDeleted /\ KeptOK

-----------------------------------------------------------------------------
(* Ids and sequence numbers.                                               *)

\* A mailbox has at most MaxId rows.
LEMMA CountType ==
    ASSUME NEW b \in Box
    PROVE  IsFiniteSet(Rows(b)) /\ MailCount(b) \in 0..MaxId
<1>1. IsFiniteSet(1..MaxId) /\ Cardinality(1..MaxId) = MaxId
  BY FS_Interval, MailServerAssumption
<1>2. Rows(b) \subseteq 1..MaxId
  BY DEF Rows, Ids
<1>3. IsFiniteSet(Rows(b)) /\ Cardinality(Rows(b)) <= MaxId
  BY <1>1, <1>2, FS_Subset
<1>4. QED
  BY <1>3, FS_CardinalityType, MailServerAssumption DEF MailCount

\* Every number from 1 to the number of its rows is the position of one id of
\* a mailbox.  (Positions grow with ids, so no two ids have the same one; they
\* are as many as the numbers, so none is left out.)
LEMMA Positions ==
    ASSUME NEW b \in Box, NEW n \in 1..MailCount(b)
    PROVE  \E id \in Rows(b) : Cardinality({j \in Rows(b) : j <= id}) = n
<1> DEFINE R == Rows(b)
           Upto(id) == {j \in R : j <= id}
           position == [id \in R |-> Cardinality(Upto(id))]
<1>1. /\ IsFiniteSet(R) /\ R \subseteq Int
      /\ Cardinality(R) \in Nat
  BY CountType, FS_CardinalityType DEF Rows, Ids
<1>2. ASSUME NEW i \in R
      PROVE  /\ IsFiniteSet(Upto(i))
             /\ position[i] \in 1..Cardinality(R)
  <2>1. Upto(i) \subseteq R /\ i \in Upto(i)
    BY <1>1
  <2>2. IsFiniteSet(Upto(i)) /\ Cardinality(Upto(i)) <= Cardinality(R)
    BY <1>1, <2>1, FS_Subset
  <2>3. Cardinality(Upto(i)) \in Nat /\ Cardinality(Upto(i)) # 0
    BY <2>1, <2>2, FS_CardinalityType, FS_EmptySet
  <2>4. QED
    BY <1>1, <2>2, <2>3
<1>3. ASSUME NEW i \in R, NEW j \in R, i < j
      PROVE  position[i] # position[j]
  <2>1. Upto(i) \subseteq Upto(j) /\ j \in Upto(j) /\ j \notin Upto(i)
    BY <1>1, <1>3
  <2>2. Upto(i) # Upto(j)
    BY <2>1
  <2>3. QED
    BY <1>2, <2>1, <2>2, FS_Subset
<1>4. position \in Injection(R, 1..Cardinality(R))
  <2>1. position \in [R -> 1..Cardinality(R)]
    BY <1>2
  <2>2. ASSUME NEW i \in R, NEW j \in R, position[i] = position[j] PROVE i = j
    <3>1. ~(i < j) /\ ~(j < i)
      BY <1>3, <2>2
    <3>2. QED
      BY <1>1, <3>1
  <2>3. QED
    BY <2>1, <2>2 DEF Injection, IsInjective
<1>5. position \in Surjection(R, 1..Cardinality(R))
  BY <1>1, <1>4, FS_Interval, FS_Injection
<1>6. QED
  BY <1>5 DEF Surjection, MailCount

\* The next id is one more than every id of the mailbox: no row has it.
LEMMA NextIdNew ==
    ASSUME NEW b \in Box
    PROVE  /\ MailNextID(b) \in Nat \ {0}
           /\ \A i \in Rows(b) : i < MailNextID(b)
           /\ MailNextID(b) - 1 \in Rows(b) \cup {0}
<1>1. CASE Rows(b) = {}
  BY <1>1 DEF MailNextID
<1>2. CASE Rows(b) # {}
  <2>1. IsFiniteSet(Rows(b)) /\ MailCount(b) \in Nat /\ MailCount(b) # 0
    BY <1>2, CountType, FS_EmptySet DEF MailCount
  <2>2. PICK id \in Rows(b) : Cardinality({j \in Rows(b) : j <= id}) = MailCount(b)
    BY <2>1, Positions
  <2>3. {j \in Rows(b) : j <= id} = Rows(b)
    BY <2>1, <2>2, FS_Subset DEF MailCount
  <2>4. \A j \in Rows(b) : id >= j
    BY <2>3 DEF Rows, Ids
  <2>5. /\ Max(Rows(b)) \in Rows(b)
        /\ \A j \in Rows(b) : Max(Rows(b)) >= j
    BY <2>2, <2>4 DEF Max
  <2>6. QED
    <3>1. Rows(b) \subseteq Nat \ {0} /\ MailNextID(b) = Max(Rows(b)) + 1
      BY <1>2, MailServerAssumption DEF MailNextID, Rows, Ids
    <3>2. QED
      BY <2>5, <3>1
<1>3. QED
  BY <1>1, <1>2

-----------------------------------------------------------------------------
(* The statements of the tables and the steps of handlers.                 *)

\* INSERT: a row more, at the next id.
LEMMA CreateRow ==
    ASSUME TableType, UNCHANGED <<boxes, limit>>, NEW b \in boxes, NEW m \in Msg,
           NEW f \in SUBSET Flag, MailCreate(b, m, f)
    PROVE  /\ TableType' /\ MailNextID(b) \in Ids
           /\ <<b, MailNextID(b)>> \in Slot /\ mail[<<b, MailNextID(b)>>] = NoMsg
           /\ \A s \in Slot :
                /\ mail'[s] = IF s = <<b, MailNextID(b)>> THEN m ELSE mail[s]
                /\ flags'[s] = IF s = <<b, MailNextID(b)>> THEN f ELSE flags[s]
<1> DEFINE id == MailNextID(b)
<1>1. b \in Box /\ id \in Ids /\ <<b, id>> \in Slot
  BY DEF MailCreate, TableType, Slot
<1>2. mail[<<b, id>>] = NoMsg
  <2>1. id \notin Rows(b)
    BY <1>1, NextIdNew
  <2>2. QED
    BY <1>1, <2>1 DEF Rows
<1>3. \A s \in Slot :
        /\ mail'[s] = IF s = <<b, id>> THEN m ELSE mail[s]
        /\ flags'[s] = IF s = <<b, id>> THEN f ELSE flags[s]
  BY <1>1 DEF MailCreate, TableType
<1>4. mail' \in [Slot -> Msg \cup {NoMsg}] /\ flags' \in [Slot -> SUBSET Flag]
  BY <1>1 DEF MailCreate, TableType
<1>5. TableType'
  BY <1>1, <1>3, <1>4, MailServerAssumption DEF TableType
<1>6. QED
  BY <1>1, <1>2, <1>3, <1>5

LEMMA NewRow ==
    ASSUME TableType, UNCHANGED <<boxes, limit>>, NEW b \in boxes, NEW m \in Msg,
           MailCreate(b, m, {})
    PROVE  \E t \in Slot :
             /\ t = <<b, MailNextID(b)>> /\ mail[t] = NoMsg /\ MailNextID(b) \in Ids
             /\ \A s \in Slot : /\ mail'[s] = IF s = t THEN m ELSE mail[s]
                                /\ flags'[s] = IF s = t THEN {} ELSE flags[s]
<1> DEFINE t == <<b, MailNextID(b)>>
<1>1. PICK f \in SUBSET Flag : f = {}
  OBVIOUS
<1>2. /\ t \in Slot /\ mail[t] = NoMsg /\ MailNextID(b) \in Ids
      /\ \A s \in Slot : /\ mail'[s] = IF s = t THEN m ELSE mail[s]
                         /\ flags'[s] = IF s = t THEN f ELSE flags[s]
  BY <1>1, CreateRow
<1>3. t = <<b, MailNextID(b)>>
  OBVIOUS
<1> HIDE DEF t
<1>4. QED
  BY <1>1, <1>2, <1>3

\* UPDATE: an existing row gets the flags.
LEMMA UpdateRow ==
    ASSUME TableType, UNCHANGED <<boxes, mail, limit>>, NEW b, NEW i,
           NEW f \in SUBSET Flag,
           MailUpdateFlags(b, i, f) \/ (MailDelete(b, i) /\ "Deleted" \in f)
    PROVE  /\ TableType'
           /\ \A s \in Slot : s # <<b, i>> => flags'[s] = flags[s]
           /\ \A s \in Slot : s = <<b, i>> /\ mail[s] # NoMsg =>
                flags'[s] = f \/ flags'[s] = flags[s] \cup {"Deleted"}
<1>1. CASE MailUpdateFlags(b, i, f)
  BY <1>1 DEF MailUpdateFlags, TableType
<1>2. CASE MailDelete(b, i)
  BY <1>2, MailServerAssumption DEF MailDelete, TableType
<1>3. QED
  BY <1>1, <1>2

\* DELETE
LEMMA RemoveRowsType ==
    ASSUME TableType, UNCHANGED <<boxes, limit>>, NEW gone, RemoveRows(gone)
    PROVE  TableType'
  BY DEF TableType, RemoveRows

-----------------------------------------------------------------------------
(* What handlers hold.                                                     *)

LEMMA NoJobFits ==
    NoJob \in Job /\ NoJob.pc = "idle" /\ Clean(NoJob) /\ \A u \in User : JobFits(u, NoJob)
  BY MailServerAssumption DEF NoJob, NoSnap, Job, JobFits, Clean

LEMMA FlagListsType ==
    ASSUME NEW list \in FlagLists
    PROVE  list \in Seq(Flag) /\ {list[k] : k \in DOMAIN list} \subseteq Flag
<1>1. CASE list = <<>>
  BY <1>1
<1>2. ASSUME NEW f \in Flag, list = <<f>>
      PROVE  list \in Seq(Flag) /\ DOMAIN list = {1} /\ list[1] \in Flag
  BY <1>2
<1>3. ASSUME NEW f \in Flag, NEW g \in Flag, list = <<f, g>>
      PROVE  list \in Seq(Flag) /\ DOMAIN list = 1..2 /\ list[1] \in Flag /\ list[2] \in Flag
  BY <1>3
<1>4. QED
  BY <1>1, <1>2, <1>3 DEF FlagLists

\* The handler of u may go from j to k.
GoesOn(u, j, k) ==
    k \in Job /\ JobFits(u, k) /\ k.pc # "delete" /\ (Clean(j) => Clean(k))

\* A handler that has a sequence set to resolve.
Resolves(j) ==
    /\ j \in Job /\ j.op \in {"store", "copy", "move"} /\ j.box \in Box
    /\ j.op = "store" => j.flag \in Flag

LEMMA EndFits ==
    ASSUME NEW u \in User, NEW j
    PROVE  GoesOn(u, j, NoJob)
  BY NoJobFits DEF GoesOn

LEMMA ResolvedFits ==
    ASSUME NEW c \in Client, NEW j, Resolves(j)
    PROVE  GoesOn(c, j, Resolved(j))
<1> c \in User
  BY DEF User
<1>1. CASE j.todo = <<>>
  BY <1>1, EndFits DEF Resolved
<1>2. CASE j.todo # <<>>
  <2> DEFINE k == [j EXCEPT !.uid = FALSE, !.lo = 0, !.hi = 0,
                            !.pc = IF j.op = "move" THEN "insert" ELSE "select"]
  <2>1. Resolved(j) = k
    BY <1>2 DEF Resolved
  <2>2. /\ k \in Job /\ k.op = j.op /\ k.box = j.box /\ k.flag = j.flag /\ k.add = j.add
        /\ k.snap = j.snap /\ k.list = j.list
        /\ k.pc = IF j.op = "move" THEN "insert" ELSE "select"
    BY DEF Resolves, Job
  <2> HIDE DEF k
  <2>3. JobFits(c, k)
    BY <2>2 DEF JobFits, Resolves
  <2>4. QED
    BY <2>1, <2>2, <2>3 DEF GoesOn, Clean
<1>3. QED
  BY <1>1, <1>2

\* The numbers of a range are natural, also of an empty one.
LEMMA RangeType ==
    ASSUME NEW lo \in Nat, NEW hi \in Nat
    PROVE  [k \in 1..(hi - lo + 1) |-> lo + k - 1] \in Seq(Nat)
<1> DEFINE n == hi - lo + 1
<1>1. [k \in 1..n |-> lo + k - 1] \in [1..n -> Nat]
  OBVIOUS
<1>2. \A f : f \in [1..n -> Nat] => f \in Seq(Nat)
  <2>1. CASE n < 0
    BY <2>1
  <2>2. CASE n >= 0
    BY <2>2
  <2>3. QED
    BY <2>1, <2>2
<1>3. QED
  BY <1>1, <1>2

LEMMA WithStopFits ==
    ASSUME NEW c \in Client, NEW j, Resolves(j), NEW hi \in Nat
    PROVE  GoesOn(c, j, WithStop(j, hi))
<1>1. CASE j.uid \/ j.lo > hi
  <2> DEFINE r == [n \in 1..(hi - j.lo + 1) |-> j.lo + n - 1]
             k == [j EXCEPT !.todo = r]
  <2>1. r \in Seq(Nat)
    BY RangeType DEF Resolves, Job
  <2> HIDE DEF r
  <2>2. /\ Resolves(k) /\ k.op = j.op /\ k.flag = j.flag /\ k.add = j.add
        /\ k.snap = j.snap /\ k.list = j.list
    BY <2>1 DEF Resolves, Job
  <2>3. WithStop(j, hi) = Resolved(k)
    BY <1>1 DEF WithStop, r
  <2> HIDE DEF k
  <2>4. GoesOn(c, k, Resolved(k)) /\ (Clean(j) => Clean(k))
    BY <2>2, ResolvedFits DEF Clean
  <2>5. QED
    BY <2>3, <2>4 DEF GoesOn
<1>2. CASE ~(j.uid \/ j.lo > hi)
  <2> DEFINE k == [j EXCEPT !.hi = hi, !.pc = "seq"]
  <2>1. /\ k \in Job /\ k.op = j.op /\ k.box = j.box /\ k.flag = j.flag /\ k.add = j.add
        /\ k.snap = j.snap /\ k.list = j.list /\ k.pc = "seq"
    BY DEF Resolves, Job
  <2>2. WithStop(j, hi) = k
    BY <1>2 DEF WithStop
  <2> HIDE DEF k
  <2>3. JobFits(c, k)
    BY <2>1 DEF JobFits, Resolves
  <2>4. QED
    BY <2>1, <2>2, <2>3 DEF GoesOn, Clean
<1>3. QED
  BY <1>1, <1>2

LEMMA BeginFits ==
    ASSUME NEW c \in Client, NEW j, Resolves(j)
    PROVE  GoesOn(c, j, Begin(j))
<1>1. CASE j.hi = 0
  <2> DEFINE k == [j EXCEPT !.pc = "star"]
  <2>1. /\ k \in Job /\ k.op = j.op /\ k.box = j.box /\ k.flag = j.flag /\ k.add = j.add
        /\ k.snap = j.snap /\ k.list = j.list /\ k.pc = "star"
    BY DEF Resolves, Job
  <2>2. Begin(j) = k
    BY <1>1 DEF Begin
  <2> HIDE DEF k
  <2>3. JobFits(c, k)
    BY <2>1 DEF JobFits, Resolves
  <2>4. QED
    BY <2>1, <2>2, <2>3 DEF GoesOn, Clean
<1>2. CASE j.hi # 0
  BY <1>2, WithStopFits DEF Begin, Resolves, Job
<1>3. QED
  BY <1>1, <1>2

\* The handler goes on with the next id.
LEMMA NextOfFits ==
    ASSUME NEW u \in User, NEW j \in Job, JobFits(u, j), j.op \in {"store", "copy", "move"}
    PROVE  GoesOn(u, j, NextOf(j))
<1>1. CASE Len(j.todo) <= 1
  BY <1>1, EndFits DEF NextOf
<1>2. CASE ~(Len(j.todo) <= 1)
  <2> DEFINE place == IF j.op = "move" THEN "insert" ELSE "select"
             k == [j EXCEPT !.todo = Tail(j.todo), !.snap = NoSnap, !.id = 0, !.pc = place]
  <2>1. Tail(j.todo) \in Seq(Nat) /\ NextOf(j) = k
    BY <1>2 DEF NextOf, Job
  <2>2. NoSnap \in [msg: Msg \cup {NoMsg}, flags: SUBSET Flag] /\ NoSnap.flags = {}
    BY DEF NoSnap
  <2>3. place \in {"insert", "select"}
    OBVIOUS
  <2>4. /\ k \in Job /\ k.op = j.op /\ k.box = j.box /\ k.flag = j.flag /\ k.add = j.add
        /\ k.snap = NoSnap /\ k.list = j.list /\ k.pc = place
    BY <2>1, <2>2, <2>3 DEF Job
  <2> HIDE DEF k
  <2>5. JobFits(u, k)
    BY <2>4 DEF JobFits
  <2>6. QED
    BY <2>1, <2>2, <2>4, <2>5 DEF GoesOn, Clean
<1>3. QED
  BY <1>1, <1>2

-----------------------------------------------------------------------------
(* What steps make of the handlers.                                        *)

Fits(u, k) ==
    k \in Job /\ JobFits(u, k) /\ (NothingDeleted /\ ~deletion' => Clean(k))

\* The step changes the handler of u only, to one that fits ...
Changes(u) == \E k : job' = [job EXCEPT ![u] = k] /\ Fits(u, k)

\* ... and that is not in the middle of a move.
Continues(u) == \E k : job' = [job EXCEPT ![u] = k] /\ Fits(u, k) /\ k.pc # "delete"

LEMMA GoesOnContinues ==
    ASSUME TypeInv, NEW u \in User, NEW k, GoesOn(u, job[u], k),
           UNCHANGED deletion, job' = [job EXCEPT ![u] = k]
    PROVE  Continues(u)
<1>1. NothingDeleted /\ ~deletion' => Clean(k)
  <2>1. SUFFICES ASSUME NothingDeleted, ~deletion' PROVE Clean(k)
    OBVIOUS
  <2>2. ~deletion
    BY <2>1
  <2>3. Clean(job[u])
    BY <2>1, <2>2 DEF NothingDeleted
  <2>4. QED
    BY <2>3 DEF GoesOn
<1>2. QED
  BY <1>1 DEF Continues, Fits, GoesOn

LEMMA StoreBegins ==
    ASSUME TypeInv, NEW c \in Client, StoreBegin(c)
    PROVE  Continues(c)
<1> USE MailServerAssumption DEF TypeInv, TypeOK
<1>1. PICK f \in Flag, add \in BOOLEAN, uid \in BOOLEAN, r \in Sets :
         /\ job' = [job EXCEPT ![c] =
              Begin([NoJob EXCEPT !.op = "store", !.box = sel[c], !.uid = uid,
                                  !.lo = r[1], !.hi = r[2], !.flag = f, !.add = add])]
         /\ deletion' = (deletion \/ (f = "Deleted" /\ add))
  BY DEF StoreBegin
<1> DEFINE j == [NoJob EXCEPT !.op = "store", !.box = sel[c], !.uid = uid,
                              !.lo = r[1], !.hi = r[2], !.flag = f, !.add = add]
<1>2. sel[c] \in Box /\ r[1] \in Nat /\ r[2] \in Nat
  BY DEF StoreBegin, UserType, Sets
<1>3. /\ j \in Job /\ j.op = "store" /\ j.box = sel[c] /\ j.flag = f /\ j.add = add
      /\ j.snap = NoSnap
  BY <1>2, NoJobFits DEF Job, NoJob
<1>4. job' = [job EXCEPT ![c] = Begin(j)]
  BY <1>1
<1> HIDE DEF j
<1>5. GoesOn(c, j, Begin(j))
  BY <1>2, <1>3, BeginFits DEF Resolves
<1>6. ~deletion' => Clean(j)
  <2>1. ~deletion' => ~(f = "Deleted" /\ add)
    BY <1>1, Zenon
  <2>2. QED
    BY <1>3, <2>1 DEF Clean, NoSnap
<1>7. QED
  BY <1>4, <1>5, <1>6 DEF Continues, Fits, GoesOn

LEMMA TransferBegins ==
    ASSUME TypeInv, NEW c \in Client, TransferBegin(c)
    PROVE  Continues(c)
<1> USE MailServerAssumption DEF TypeInv, TypeOK
<1>1. PICK op \in {"copy", "move"}, b \in Box \ {Outbox}, uid \in BOOLEAN, r \in Sets :
         job' = [job EXCEPT ![c] =
           Begin([NoJob EXCEPT !.op = op, !.box = sel[c], !.dest = b, !.uid = uid,
                               !.lo = r[1], !.hi = r[2]])]
  BY DEF TransferBegin
<1> DEFINE j == [NoJob EXCEPT !.op = op, !.box = sel[c], !.dest = b, !.uid = uid,
                              !.lo = r[1], !.hi = r[2]]
<1>2. sel[c] \in Box /\ r[1] \in Nat /\ r[2] \in Nat
  BY DEF TransferBegin, UserType, Sets
<1>3. j \in Job /\ j.op = op /\ j.box = sel[c] /\ j.snap = NoSnap
  BY <1>2, NoJobFits DEF Job, NoJob
<1>4. job' = [job EXCEPT ![c] = Begin(j)]
  BY <1>1
<1> HIDE DEF j
<1>5. GoesOn(c, j, Begin(j)) /\ Clean(j)
  BY <1>2, <1>3, BeginFits DEF Resolves, Clean, NoSnap
<1>6. QED
  BY <1>4, <1>5 DEF Continues, Fits, GoesOn

LEMMA AppendBegins ==
    ASSUME TypeInv, NEW c \in Client, AppendBegin(c)
    PROVE  Continues(c)
<1> USE MailServerAssumption DEF TypeInv, TypeOK
<1> c \in User
  BY DEF User
<1>1. PICK b \in boxes, m \in Msg, list \in FlagLists :
         /\ MailCreate(b, m, {})
         /\ job' = [job EXCEPT ![c] =
              IF list = <<>> THEN NoJob
              ELSE [NoJob EXCEPT !.op = "append", !.pc = "write", !.box = b,
                                 !.list = list, !.id = MailNextID(b)]]
         /\ deletion' = (deletion \/ \E k \in DOMAIN list : list[k] = "Deleted")
  BY DEF AppendBegin
<1>2. CASE list = <<>>
  <2>1. job' = [job EXCEPT ![c] = NoJob]
    BY <1>1, <1>2
  <2>2. QED
    BY <2>1, NoJobFits DEF Continues, Fits
<1>3. CASE list # <<>>
  <2> DEFINE j == [NoJob EXCEPT !.op = "append", !.pc = "write", !.box = b,
                                !.list = list, !.id = MailNextID(b)]
  <2>1. MailNextID(b) \in Ids /\ b \in Box /\ list \in Seq(Flag)
    BY <1>1, FlagListsType DEF MailCreate, TableType
  <2>2. /\ j \in Job /\ j.op = "append" /\ j.pc = "write" /\ j.box = b
        /\ j.snap = NoSnap /\ j.list = list
    BY <2>1, NoJobFits DEF Job, NoJob
  <2>3. job' = [job EXCEPT ![c] = j]
    BY <1>1, <1>3
  <2> HIDE DEF j
  <2>4. JobFits(c, j) /\ j.pc # "delete"
    BY <1>3, <2>1, <2>2 DEF JobFits
  <2>5. ~deletion' => Clean(j)
    <3>1. ~deletion' => \A k \in DOMAIN list : list[k] # "Deleted"
      BY <1>1, Zenon
    <3>2. QED
      BY <2>2, <3>1 DEF Clean, NoSnap
  <2>6. QED
    BY <2>2, <2>3, <2>4, <2>5 DEF Continues, Fits
<1>4. QED
  BY <1>2, <1>3

LEMMA MarkBegins ==
    ASSUME TypeInv, MarkMail
    PROVE  Continues(App)
<1> USE MailServerAssumption DEF TypeInv, TypeOK
<1>1. PICK s \in Slot, f \in Flag \cap {"Seen", "Flagged"}, add \in BOOLEAN :
         job' = [job EXCEPT ![App] =
           [NoJob EXCEPT !.op = "store", !.pc = "select", !.box = s[1],
                         !.todo = <<s[2]>>, !.flag = f, !.add = add]]
  BY DEF MarkMail
<1> DEFINE j == [NoJob EXCEPT !.op = "store", !.pc = "select", !.box = s[1],
                              !.todo = <<s[2]>>, !.flag = f, !.add = add]
<1>2. s[1] \in Box /\ <<s[2]>> \in Seq(Nat)
  BY DEF Slot, Ids
<1>3. /\ j \in Job /\ j.op = "store" /\ j.pc = "select" /\ j.box = s[1] /\ j.flag = f
      /\ j.snap = NoSnap
  BY <1>2, NoJobFits DEF Job, NoJob
<1>4. job' = [job EXCEPT ![App] = j]
  BY <1>1
<1> HIDE DEF j
<1>5. JobFits(App, j) /\ Clean(j)
  BY <1>2, <1>3 DEF JobFits, Clean, NoSnap
<1>6. QED
  BY <1>3, <1>4, <1>5 DEF Continues, Fits

LEMMA SelectContinues ==
    ASSUME TypeInv, NEW u \in User, HandlerSelect(u)
    PROVE  Continues(u)
<1> USE MailServerAssumption DEF TypeInv, TypeOK
<1> DEFINE j == job[u]
           s == RowOf(j)
<1>0. j \in Job /\ JobFits(u, j) /\ j.pc = "select" /\ UNCHANGED deletion
  BY DEF UserType, HandlerSelect, history
<1>1. CASE ~Exists(s)
  <2>1. job' = [job EXCEPT ![u] = NoJob]
    BY <1>1 DEF HandlerSelect
  <2>2. QED
    BY <2>1, NoJobFits DEF Continues, Fits
<1>2. CASE Exists(s)
  <2> DEFINE place == IF j.op = "copy" THEN "create" ELSE "write"
             k == [j EXCEPT !.snap = [msg |-> mail[s], flags |-> flags[s]], !.pc = place]
  <2>1. s \in Slot /\ mail[s] \in Msg /\ flags[s] \in SUBSET Flag
    BY <1>2 DEF Exists, TableType
  <2>2. place \in {"create", "write"} /\ (place = "create" <=> j.op = "copy")
    OBVIOUS
  <2>3. /\ k \in Job /\ k.op = j.op /\ k.box = j.box /\ k.flag = j.flag /\ k.add = j.add
        /\ k.list = j.list /\ k.pc = place
        /\ k.snap.msg = mail[s] /\ k.snap.flags = flags[s]
    BY <1>0, <2>1, <2>2 DEF Job
  <2>4. job' = [job EXCEPT ![u] = k]
    BY <1>2 DEF HandlerSelect
  <2> HIDE DEF k, place
  <2>5. JobFits(u, k) /\ k.pc # "delete"
    BY <1>0, <2>1, <2>2, <2>3 DEF JobFits
  <2>6. NothingDeleted /\ ~deletion' => Clean(k)
    <3>1. SUFFICES ASSUME NothingDeleted, ~deletion' PROVE Clean(k)
      OBVIOUS
    <3>2. ~deletion
      BY <1>0, <3>1
    <3>3. Clean(j) /\ "Deleted" \notin flags[s]
      BY <2>1, <3>1, <3>2 DEF NothingDeleted
    <3>4. QED
      BY <2>3, <3>3 DEF Clean
  <2>7. QED
    BY <2>3, <2>4, <2>5, <2>6 DEF Continues, Fits
<1>3. QED
  BY <1>1, <1>2

LEMMA AppendContinues ==
    ASSUME TypeInv, NEW u \in User, AppendWrite(u)
    PROVE  Continues(u)
<1> USE MailServerAssumption DEF TypeInv, TypeOK
<1> DEFINE j == job[u]
           k == [j EXCEPT !.list = Tail(j.list)]
<1>0. j \in Job /\ JobFits(u, j) /\ j.op = "append" /\ UNCHANGED deletion
  BY DEF UserType, AppendWrite, history
<1>1. j.list \in Seq(Flag) /\ j.list # <<>>
  BY <1>0 DEF JobFits, Job
<1>2. CASE Len(j.list) = 1
  <2>1. job' = [job EXCEPT ![u] = NoJob]
    BY <1>2 DEF AppendWrite
  <2>2. QED
    BY <2>1, NoJobFits DEF Continues, Fits
<1>3. CASE Len(j.list) # 1
  <2>1. /\ Tail(j.list) \in Seq(Flag) /\ Len(Tail(j.list)) = Len(j.list) - 1
        /\ \A n \in 1..Len(Tail(j.list)) : Tail(j.list)[n] = j.list[n + 1]
    BY <1>1, HeadTailProperties
  <2>2. Tail(j.list) # <<>>
    <3>1. SUFFICES ASSUME Tail(j.list) = <<>> PROVE FALSE
      OBVIOUS
    <3>2. Len(j.list) \in Nat /\ Len(<<>>) = 0
      BY <1>1, EmptySeq
    <3>3. Len(Tail(j.list)) = 0
      BY <3>1, <3>2
    <3>4. QED
      BY <1>3, <2>1, <3>2, <3>3
  <2>3. /\ k \in Job /\ k.op = j.op /\ k.box = j.box /\ k.pc = j.pc /\ k.snap = j.snap
        /\ k.flag = j.flag /\ k.add = j.add /\ k.list = Tail(j.list)
    BY <1>0, <2>1 DEF Job
  <2>4. job' = [job EXCEPT ![u] = k]
    BY <1>3 DEF AppendWrite
  <2> HIDE DEF k
  <2>5. GoesOn(u, j, k)
    <3>1. JobFits(u, k) /\ k.pc # "delete"
      BY <1>0, <2>2, <2>3 DEF JobFits
    <3>2. Clean(j) => Clean(k)
      <4>1. SUFFICES ASSUME Clean(j) PROVE \A n \in DOMAIN k.list : k.list[n] # "Deleted"
        BY <1>0, <2>3 DEF Clean
      <4>2. TAKE n \in DOMAIN k.list
      <4>3. DOMAIN k.list = 1..Len(k.list) /\ DOMAIN j.list = 1..Len(j.list)
        BY <1>1, <2>1, <2>3
      <4>4. n + 1 \in DOMAIN j.list /\ k.list[n] = j.list[n + 1]
        BY <1>1, <2>1, <2>3, <4>3, LenProperties
      <4>5. QED
        BY <1>0, <4>1, <4>4 DEF Clean
    <3>3. QED
      BY <2>3, <3>1, <3>2 DEF GoesOn
  <2>6. QED
    BY <1>0, <2>4, <2>5, GoesOnContinues
<1>4. QED
  BY <1>2, <1>3

LEMMA ResolveContinues ==
    ASSUME TypeInv, NEW c \in Client, ResolveStar(c) \/ ResolveSeq(c)
    PROVE  Continues(c)
<1> USE MailServerAssumption DEF TypeInv, TypeOK
<1> c \in User
  BY DEF User
<1> DEFINE j == job[c]
<1>0. j \in Job /\ JobFits(c, j) /\ Resolves(j) /\ UNCHANGED deletion
  <2>1. j \in Job /\ JobFits(c, j) /\ j.pc \in {"star", "seq"} /\ UNCHANGED deletion
    BY DEF UserType, ResolveStar, ResolveSeq, history
  <2>2. QED
    BY <2>1 DEF Resolves, JobFits, Job
<1>1. j.box \in Box /\ MailCount(j.box) \in 0..MaxId
  BY <1>0, CountType DEF Resolves
<1>2. CASE ResolveStar(c)
  <2>1. MailNextID(j.box) - 1 \in Nat
    BY <1>1, NextIdNew
  <2>2. job' = [job EXCEPT ![c] = WithStop(j, MailNextID(j.box) - 1)]
    BY <1>2 DEF ResolveStar
  <2>3. QED
    BY <1>0, <2>1, <2>2, WithStopFits, GoesOnContinues
<1>3. CASE ResolveSeq(c)
  <2> DEFINE found == [j EXCEPT !.todo = Append(@, MailIDForSeq(j.box, j.lo)), !.lo = @ + 1]
  <2>1. CASE j.lo \notin 1..MailCount(j.box)
    <3>1. job' = [job EXCEPT ![c] = NoJob]
      BY <1>3, <2>1 DEF ResolveSeq
    <3>2. QED
      BY <3>1, NoJobFits DEF Continues, Fits
  <2>2. CASE j.lo \in 1..MailCount(j.box)
    <3>1. MailIDForSeq(j.box, j.lo) \in Nat
      <4>1. \E id \in Rows(j.box) : Cardinality({i \in Rows(j.box) : i <= id}) = j.lo
        BY <1>1, <2>2, Positions
      <4>2. MailIDForSeq(j.box, j.lo) \in Rows(j.box)
        BY <4>1 DEF MailIDForSeq
      <4>3. QED
        BY <4>2 DEF Rows, Ids
    <3>2. /\ Resolves(found) /\ found.op = j.op /\ found.flag = j.flag
          /\ found.add = j.add /\ found.snap = j.snap /\ found.list = j.list
          /\ found.pc = j.pc
      <4>1. Append(j.todo, MailIDForSeq(j.box, j.lo)) \in Seq(Nat) /\ j.lo + 1 \in Nat
        BY <1>0, <3>1, AppendProperties DEF Resolves, Job
      <4>2. \A todo \in Seq(Nat), lo \in Nat :
              LET k == [j EXCEPT !.todo = todo, !.lo = lo] IN
              /\ k \in Job /\ k.op = j.op /\ k.box = j.box /\ k.flag = j.flag
              /\ k.add = j.add /\ k.snap = j.snap /\ k.list = j.list /\ k.pc = j.pc
        BY <1>0 DEF Resolves, Job
      <4>3. QED
        BY <1>0, <4>1, <4>2 DEF Resolves
    <3>3. job' = [job EXCEPT ![c] = IF j.lo = j.hi THEN Resolved(found) ELSE found]
      BY <1>3, <2>2 DEF ResolveSeq
    <3> HIDE DEF found
    <3>4. GoesOn(c, found, Resolved(found)) /\ (Clean(j) => Clean(found))
      BY <3>2, ResolvedFits DEF Clean
    <3>5. GoesOn(c, found, found)
      <4>1. j.pc = "seq" /\ JobFits(c, j)
        BY <1>0, <1>3 DEF ResolveSeq
      <4>2. QED
        BY <3>2, <4>1 DEF GoesOn, JobFits, Resolves
    <3>6. GoesOn(c, j, IF j.lo = j.hi THEN Resolved(found) ELSE found)
      BY <3>4, <3>5 DEF GoesOn
    <3>7. QED
      BY <1>0, <3>3, <3>6, GoesOnContinues
  <2>3. QED
    BY <2>1, <2>2
<1>4. QED
  BY <1>2, <1>3

\* Steps after which the handler ends or takes the next id.
LEMMA WriteContinues ==
    ASSUME TypeInv, NEW u \in User,
           StoreWrite(u) \/ CopyWrite(u) \/ MoveDelete(u) \/ HandlerFails(u)
    PROVE  Continues(u)
<1> USE MailServerAssumption DEF TypeInv, TypeOK
<1>0. /\ job[u] \in Job /\ JobFits(u, job[u]) /\ UNCHANGED deletion
  BY DEF UserType, StoreWrite, CopyWrite, MoveDelete, HandlerFails, history
<1>1. CASE HandlerFails(u)
  BY <1>1, NoJobFits DEF HandlerFails, Continues, Fits
<1>2. CASE StoreWrite(u) \/ CopyWrite(u) \/ MoveDelete(u)
  <2>1. job[u].op \in {"store", "copy", "move"} /\ job' = [job EXCEPT ![u] = NextOf(job[u])]
    BY <1>0, <1>2 DEF StoreWrite, CopyWrite, MoveDelete, JobFits
  <2>2. QED
    BY <1>0, <2>1, NextOfFits, GoesOnContinues
<1>3. QED
  BY <1>1, <1>2

LEMMA CopyContinues ==
    ASSUME TypeInv, NEW u \in User, CopyCreate(u)
    PROVE  Continues(u)
<1> USE MailServerAssumption DEF TypeInv, TypeOK
<1> DEFINE j == job[u]
           id == MailNextID(j.dest)
           k == [j EXCEPT !.id = id, !.pc = "write"]
<1>0. j \in Job /\ JobFits(u, j) /\ j.pc = "create" /\ UNCHANGED deletion
  BY DEF UserType, CopyCreate, history
<1>1. CASE j.dest \notin boxes
  BY <1>1, NoJobFits DEF CopyCreate, Continues, Fits
<1>2. CASE j.dest \in boxes
  <2>1. id \in Ids /\ job' = [job EXCEPT ![u] = k]
    BY <1>2 DEF CopyCreate, MailCreate, UserType
  <2>2. /\ k \in Job /\ k.op = j.op /\ k.box = j.box /\ k.flag = j.flag /\ k.add = j.add
        /\ k.snap = j.snap /\ k.list = j.list /\ k.pc = "write"
    BY <1>0, <2>1 DEF Job
  <2> HIDE DEF k
  <2>3. GoesOn(u, j, k)
    BY <1>0, <2>2 DEF GoesOn, JobFits, Clean
  <2>4. QED
    BY <1>0, <2>1, <2>3, GoesOnContinues
<1>3. QED
  BY <1>1, <1>2

\* MoveInsert: the handler ends, or there is a second row of the mail.
MoveStarts(c) ==
    /\ WriterFree /\ Exists(RowOf(job[c])) /\ job[c].dest \in boxes
    /\ LET s == RowOf(job[c])  id == MailNextID(job[c].dest) IN
       /\ MailCreate(job[c].dest, mail[s], flags[s])
       /\ job' = [job EXCEPT ![c] = [job[c] EXCEPT !.id = id, !.pc = "delete"]]

LEMMA MoveCases ==
    ASSUME TypeInv, NEW c \in Client, MoveInsert(c)
    PROVE  /\ job[c].pc = "insert" /\ UNCHANGED <<boxes, limit, session, beat, imap, history>>
           /\ \/ MoveStarts(c)
              \/ UNCHANGED <<mail, flags>> /\ Continues(c)
<1> USE MailServerAssumption DEF TypeInv, TypeOK
<1> c \in User
  BY DEF User
<1> DEFINE s == RowOf(job[c])
           possible == Exists(s) /\ job[c].dest \in boxes /\ ~IsLarge(mail[s])
<1>1. CASE possible
  <2>1. MoveStarts(c)
    BY <1>1 DEF MoveInsert, MoveStarts, UserType
  <2>2. QED
    BY <2>1 DEF MoveInsert
<1>2. CASE ~possible
  <2>1. UNCHANGED <<mail, flags>> /\ job' = [job EXCEPT ![c] = NoJob]
    BY <1>2 DEF MoveInsert
  <2>2. Continues(c)
    BY <2>1, NoJobFits DEF Continues, Fits
  <2>3. QED
    BY <2>1, <2>2 DEF MoveInsert
<1>3. QED
  BY <1>1, <1>2

LEMMA MoveChanges ==
    ASSUME TypeInv, NEW c \in Client, MoveInsert(c)
    PROVE  Changes(c)
<1> USE MailServerAssumption DEF TypeInv, TypeOK
<1> c \in User
  BY DEF User
<1>1. CASE Continues(c)
  BY <1>1 DEF Continues, Changes
<1>2. CASE MoveStarts(c)
  <2> DEFINE j == job[c]
             id == MailNextID(j.dest)
             k == [j EXCEPT !.id = id, !.pc = "delete"]
  <2>0. j \in Job /\ JobFits(c, j) /\ j.pc = "insert" /\ UNCHANGED deletion
    BY MoveCases DEF UserType, history
  <2>1. id \in Ids /\ job' = [job EXCEPT ![c] = k]
    BY <1>2 DEF MoveStarts, MailCreate
  <2>2. /\ k \in Job /\ k.op = j.op /\ k.box = j.box /\ k.flag = j.flag /\ k.add = j.add
        /\ k.snap = j.snap /\ k.list = j.list /\ k.pc = "delete"
    BY <2>0, <2>1 DEF Job
  <2> HIDE DEF k
  <2>3. JobFits(c, k) /\ (Clean(j) => Clean(k))
    BY <2>0, <2>2 DEF JobFits, Clean
  <2>4. NothingDeleted /\ ~deletion' => Clean(j)
    BY <2>0 DEF NothingDeleted
  <2>5. QED
    BY <2>1, <2>2, <2>3, <2>4 DEF Changes, Fits
<1>3. QED
  BY <1>1, <1>2, MoveCases

\* Every step of a handler, and every step that begins one.
LEMMA StepChanges ==
    ASSUME TypeInv, NEW u \in User, HandlerStep(u) \/ (u \in Client /\ ClientStep(u))
    PROVE  Changes(u) /\ (Continues(u) \/ (u \in Client /\ MoveStarts(u)))
<1>1. Continues(u) => Changes(u)
  BY DEF Continues, Changes
<1>2. CASE u \in Client /\ MoveInsert(u)
  BY <1>2, MoveCases, MoveChanges
<1>3. CASE ~(u \in Client /\ MoveInsert(u))
  BY <1>1, <1>3, SelectContinues, AppendContinues, ResolveContinues, WriteContinues,
     CopyContinues DEF HandlerStep, ClientStep
<1>4. QED
  BY <1>2, <1>3

LEMMA BeginContinues ==
    ASSUME TypeInv, NEW c \in Client, StoreBegin(c) \/ TransferBegin(c) \/ AppendBegin(c)
    PROVE  Continues(c) /\ Changes(c)
<1> c \in User
  BY DEF User
<1>1. QED
  BY StoreBegins, TransferBegins, AppendBegins DEF Continues, Changes

LEMMA JobsType ==
    ASSUME TypeInv, NEW u \in User, Changes(u)
    PROVE  job' \in [User -> Job] /\ \A v \in User : JobFits(v, job'[v])
  BY DEF TypeInv, TypeOK, UserType, Changes, Fits

-----------------------------------------------------------------------------
(* What steps make of the tables.                                          *)

\* Mailboxes may be created.
NoRowChanges == boxes \subseteq boxes' /\ boxes' \subseteq Box /\ UNCHANGED <<mail, flags>>

FlagsWritten ==
    /\ WriterFree /\ UNCHANGED <<boxes, mail>>
    /\ flags' \in [Slot -> SUBSET Flag]
    /\ \A s \in Slot : mail[s] = NoMsg => flags'[s] = {}
    /\ NothingDeleted /\ ~deletion' => \A s \in Slot : "Deleted" \notin flags'[s]

RowCreated ==
    /\ WriterFree /\ UNCHANGED boxes
    /\ \E t \in Slot, m \in Msg, f \in SUBSET Flag :
         /\ t[1] \in boxes /\ mail[t] = NoMsg
         /\ mail' = [mail EXCEPT ![t] = m] /\ flags' = [flags EXCEPT ![t] = f]
         /\ NothingDeleted /\ ~deletion' => "Deleted" \notin f

FlaggedRemoved ==
    /\ WriterFree /\ UNCHANGED boxes
    /\ \E gone \in SUBSET Slot : RemoveRows(gone) /\ \A s \in gone : "Deleted" \in flags[s]

BoxRemoved ==
    /\ WriterFree /\ deletion'
    /\ \E b \in boxes : boxes' = boxes \ {b} /\ RemoveRows({s \in Slot : s[1] = b})

BoxRenamed ==
    /\ WriterFree
    /\ \E old \in Box, new \in Box :
         /\ new \in boxes /\ old \notin boxes
         /\ boxes' = (boxes \ {new}) \cup {old}
         /\ mail' = [s \in Slot |-> IF s[1] = new THEN NoMsg
                       ELSE mail[IF s[1] = old THEN <<new, s[2]>> ELSE s]]
         /\ flags' = [s \in Slot |-> IF s[1] = new THEN {}
                       ELSE flags[IF s[1] = old THEN <<new, s[2]>> ELSE s]]

RowMoved ==
    /\ UNCHANGED boxes
    /\ \E c \in Client : job[c].pc = "delete" /\ RemoveRows({RowOf(job[c])}) /\ Continues(c)

TableStep ==
    /\ limit' \in Limits \cup {Default}
    /\ \/ NoRowChanges \/ FlagsWritten \/ RowCreated \/ FlaggedRemoved
       \/ BoxRemoved \/ BoxRenamed \/ RowMoved

LEMMA NothingWritten ==
    ASSUME TypeInv, UNCHANGED <<boxes, mail, flags>>, limit' \in Limits \cup {Default}
    PROVE  TableStep
  BY DEF TableStep, NoRowChanges, TypeInv, TypeOK, TableType

\* INSERT
LEMMA CreateStep ==
    ASSUME TypeInv, UNCHANGED <<boxes, limit>>, NEW b \in boxes, NEW m \in Msg,
           NEW f \in SUBSET Flag, MailCreate(b, m, f),
           NothingDeleted /\ ~deletion' => "Deleted" \notin f
    PROVE  TableStep /\ RowCreated
<1> DEFINE t == <<b, MailNextID(b)>>
<1>1. t \in Slot /\ mail[t] = NoMsg /\ t[1] \in boxes
  BY CreateRow DEF TypeInv, TypeOK
<1>2. WriterFree /\ mail' = [mail EXCEPT ![t] = m] /\ flags' = [flags EXCEPT ![t] = f]
  BY DEF MailCreate
<1> HIDE DEF t
<1>3. RowCreated
  BY <1>1, <1>2 DEF RowCreated
<1>4. QED
  BY <1>3 DEF TableStep, TypeInv, TypeOK, TableType

\* UPDATE
LEMMA UpdateStep ==
    ASSUME TypeInv, UNCHANGED <<boxes, mail, limit>>, NEW b, NEW i,
           \/ \E f \in SUBSET Flag :
                /\ MailUpdateFlags(b, i, f)
                /\ NothingDeleted /\ ~deletion' => ~deletion /\ "Deleted" \notin f
           \/ MailDelete(b, i) /\ deletion'
    PROVE  TableStep
<1> USE MailServerAssumption DEF TypeInv, TypeOK, TableType
<1>1. FlagsWritten
  <2>1. WriterFree
    BY DEF MailUpdateFlags, MailDelete
  <2>2. flags' \in [Slot -> SUBSET Flag]
    BY DEF MailUpdateFlags, MailDelete
  <2>3. \A s \in Slot : mail[s] = NoMsg => flags'[s] = {}
    BY DEF MailUpdateFlags, MailDelete
  <2>4. ASSUME NothingDeleted, ~deletion' PROVE \A s \in Slot : "Deleted" \notin flags'[s]
    <3>1. PICK f \in SUBSET Flag : /\ MailUpdateFlags(b, i, f)
                                   /\ ~deletion /\ "Deleted" \notin f
      BY <2>4
    <3>2. \A s \in Slot : "Deleted" \notin flags[s]
      BY <2>4, <3>1 DEF NothingDeleted
    <3>3. QED
      BY <3>1, <3>2 DEF MailUpdateFlags
  <2>5. QED
    BY <2>1, <2>2, <2>3, <2>4 DEF FlagsWritten
<1>2. QED
  BY <1>1 DEF TableStep

\* DELETE
LEMMA ExpungeStep ==
    ASSUME TypeInv, UNCHANGED <<boxes, limit>>, NEW b, MailExpunge(b)
    PROVE  TableStep
<1>1. FlaggedRemoved
  BY DEF MailExpunge, FlaggedRemoved
<1>2. QED
  BY <1>1 DEF TableStep, TypeInv, TypeOK, TableType

LEMMA SessionTables ==
    ASSUME TypeInv, NEW m \in Msg, Session(m)
    PROVE  TableStep
<1> USE MailServerAssumption DEF TypeInv, TypeOK
<1>0. UNCHANGED <<boxes, limit>> /\ limit \in Limits \cup {Default}
  BY DEF Session, SessionMail, SessionData, SessionStore, SessionSelect, SessionCheck,
     SessionRefuse, SessionExpunge, SessionCount, SessionNotify, tables, TableType
<1>1. CASE SessionStore(m)
  <2>1. CASE Inbox \in boxes /\ MailCreate(Inbox, m, {})
    <3>1. PICK b \in boxes, f \in SUBSET Flag : b = Inbox /\ f = {}
      BY <2>1
    <3>2. QED
      BY <1>0, <2>1, <3>1, CreateStep
  <2>2. QED
    BY <1>0, <1>1, <2>1, NothingWritten DEF SessionStore
<1>2. CASE SessionRefuse(m)
  <2>1. UNCHANGED mail /\ deletion' /\ (MailDelete(Inbox, rid[m]) \/ UNCHANGED flags)
    BY <1>2 DEF SessionRefuse
  <2>2. QED
    BY <1>0, <2>1, UpdateStep, NothingWritten
<1>3. CASE SessionExpunge(m)
  <2>1. MailExpunge(Inbox) \/ UNCHANGED <<mail, flags>>
    BY <1>3 DEF SessionExpunge
  <2>2. QED
    BY <1>0, <2>1, ExpungeStep, NothingWritten
<1>4. CASE ~(SessionStore(m) \/ SessionRefuse(m) \/ SessionExpunge(m))
  <2>1. UNCHANGED tables
    BY <1>4 DEF Session, SessionMail, SessionData, SessionSelect, SessionCheck,
       SessionCount, SessionNotify
  <2>2. QED
    BY <1>0, <2>1, NothingWritten DEF tables
<1>5. QED
  BY <1>1, <1>2, <1>3, <1>4

LEMMA CommandTables ==
    ASSUME TypeInv, NEW c \in Client, ClientCommand(c)
    PROVE  TableStep
<1> USE MailServerAssumption DEF TypeInv, TypeOK
<1>1. CASE Expunge(c)
  BY <1>1, ExpungeStep DEF Expunge
<1>2. CASE AppendBegin(c)
  <2>1. PICK b \in boxes, m \in Msg : MailCreate(b, m, {}) /\ UNCHANGED <<boxes, limit>>
    BY <1>2 DEF AppendBegin
  <2>2. PICK f \in SUBSET Flag : f = {}
    OBVIOUS
  <2>3. QED
    BY <2>1, <2>2, CreateStep
<1>3. CASE Select(c) \/ StoreBegin(c) \/ StoreReplace(c) \/ TransferBegin(c)
  BY <1>3, NothingWritten DEF Select, StoreBegin, StoreReplace, TransferBegin, tables, TableType
<1>4. QED
  BY <1>1, <1>2, <1>3 DEF ClientCommand

\* A handler writes flags: those it has, if it is clean.
LEMMA HandlerUpdate ==
    ASSUME TypeInv, NEW u \in User, UNCHANGED <<boxes, mail, limit, deletion>>,
           NEW b, NEW i, NEW f \in SUBSET Flag, MailUpdateFlags(b, i, f),
           Clean(job[u]) => "Deleted" \notin f
    PROVE  TableStep
<1>1. NothingDeleted /\ ~deletion' => ~deletion /\ Clean(job[u])
  BY DEF NothingDeleted
<1>2. QED
  BY <1>1, UpdateStep

LEMMA StepTables ==
    ASSUME TypeInv, NEW u \in User, HandlerStep(u) \/ (u \in Client /\ ClientStep(u))
    PROVE  TableStep
<1> USE MailServerAssumption DEF TypeInv, TypeOK
<1> DEFINE j == job[u]
<1>0. j \in Job /\ JobFits(u, j) /\ limit \in Limits \cup {Default}
  BY DEF UserType, TableType
<1>1. CASE StoreWrite(u)
  <2>1. /\ MailUpdateFlags(j.box, Head(j.todo), NewFlags(j)) /\ j.op = "store"
        /\ UNCHANGED <<boxes, mail, limit, deletion>>
    BY <1>1 DEF StoreWrite, history
  <2>2. NewFlags(j) \in SUBSET Flag /\ (Clean(j) => "Deleted" \notin NewFlags(j))
    BY <1>0, <2>1 DEF NewFlags, Job, JobFits, Clean
  <2>3. QED
    BY <2>1, <2>2, HandlerUpdate
<1>2. CASE CopyWrite(u)
  <2>1. /\ MailUpdateFlags(j.dest, j.id, j.snap.flags)
        /\ UNCHANGED <<boxes, mail, limit, deletion>>
    BY <1>2 DEF CopyWrite, history
  <2>2. j.snap.flags \in SUBSET Flag /\ (Clean(j) => "Deleted" \notin j.snap.flags)
    BY <1>0 DEF Job, Clean
  <2>3. QED
    BY <2>1, <2>2, HandlerUpdate
<1>3. CASE AppendWrite(u)
  <2>1. /\ MailUpdateFlags(j.box, j.id, {Head(j.list)}) /\ j.op = "append"
        /\ UNCHANGED <<boxes, mail, limit, deletion>>
    BY <1>3 DEF AppendWrite, history
  <2>2. j.list \in Seq(Flag) /\ j.list # <<>>
    BY <1>0, <2>1 DEF Job, JobFits
  <2>3. Head(j.list) \in Flag /\ Head(j.list) = j.list[1] /\ 1 \in DOMAIN j.list
    BY <2>2
  <2>4. {Head(j.list)} \in SUBSET Flag /\ (Clean(j) => "Deleted" \notin {Head(j.list)})
    BY <2>1, <2>3 DEF Clean
  <2>5. QED
    BY <2>1, <2>4, HandlerUpdate
<1>4. CASE CopyCreate(u)
  <2>1. CASE j.dest \in boxes
    <3>1. /\ MailCreate(j.dest, j.snap.msg, {}) /\ j.snap.msg \in Msg
          /\ UNCHANGED <<boxes, limit>>
      BY <1>0, <1>4, <2>1 DEF CopyCreate, JobFits
    <3>2. PICK b \in boxes, m \in Msg, f \in SUBSET Flag : b = j.dest /\ m = j.snap.msg /\ f = {}
      BY <2>1, <3>1
    <3>3. QED
      BY <3>1, <3>2, CreateStep
  <2>2. QED
    BY <1>0, <1>4, <2>1, NothingWritten DEF CopyCreate
<1>5. CASE u \in Client /\ MoveInsert(u)
  <2>1. CASE MoveStarts(u)
    <3>1. UNCHANGED <<boxes, limit, deletion>>
      BY <1>5, MoveCases DEF history
    <3>2. mail[RowOf(j)] \in Msg /\ flags[RowOf(j)] \in SUBSET Flag /\ RowOf(j) \in Slot
      BY <2>1 DEF MoveStarts, Exists, TableType
    <3>3. NothingDeleted /\ ~deletion' => "Deleted" \notin flags[RowOf(j)]
      BY <3>1, <3>2 DEF NothingDeleted
    <3>4. PICK b \in boxes, m \in Msg, f \in SUBSET Flag :
            b = j.dest /\ m = mail[RowOf(j)] /\ f = flags[RowOf(j)]
      BY <2>1, <3>2 DEF MoveStarts
    <3>5. MailCreate(b, m, f)
      BY <2>1, <3>4 DEF MoveStarts
    <3>6. QED
      BY <3>1, <3>3, <3>4, <3>5, CreateStep
  <2>2. CASE UNCHANGED <<mail, flags>>
    BY <1>0, <1>5, <2>2, MoveCases, NothingWritten
  <2>3. QED
    BY <1>5, <2>1, <2>2, MoveCases
<1>6. CASE u \in Client /\ MoveDelete(u)
  <2>1. RowMoved
    BY <1>6, WriteContinues DEF MoveDelete, RowMoved
  <2>2. QED
    BY <1>0, <1>6, <2>1 DEF MoveDelete, TableStep
<1>7. CASE HandlerSelect(u) \/ HandlerFails(u) \/ ResolveStar(u) \/ ResolveSeq(u)
  BY <1>0, <1>7, NothingWritten DEF HandlerSelect, HandlerFails, ResolveStar, ResolveSeq, tables
<1>8. QED
  BY <1>1, <1>2, <1>3, <1>4, <1>5, <1>6, <1>7 DEF HandlerStep, ClientStep

LEMMA CallTables ==
    ASSUME TypeInv,
           Application \/ \E u \in User : MailboxCall(u)
    PROVE  TableStep
<1> USE MailServerAssumption DEF TypeInv, TypeOK
<1>0. limit \in Limits \cup {Default}
  BY DEF TableType
<1>1. ASSUME NEW u \in User, MailboxCall(u) PROVE TableStep
  <2>1. CASE MailboxCreate(u)
    <3>1. NoRowChanges /\ UNCHANGED limit
      BY <2>1 DEF MailboxCreate, NoRowChanges, TableType
    <3>2. QED
      BY <1>0, <3>1 DEF TableStep
  <2>2. CASE MailboxDelete(u)
    <3>1. BoxRemoved /\ UNCHANGED limit
      BY <2>2 DEF MailboxDelete, BoxRemoved, Cascade
    <3>2. QED
      BY <1>0, <3>1 DEF TableStep
  <2>3. CASE MailboxRename(u)
    <3>1. BoxRenamed /\ UNCHANGED limit
      BY <2>3 DEF MailboxRename, BoxRenamed
    <3>2. QED
      BY <1>0, <3>1 DEF TableStep
  <2>4. QED
    BY <1>1, <2>1, <2>2, <2>3 DEF MailboxCall
<1>2. CASE DeleteMail
  <2>1. PICK s \in Slot : MailDelete(s[1], s[2])
    BY <1>2 DEF DeleteMail
  <2>2. deletion' /\ UNCHANGED <<boxes, mail, limit>>
    BY <1>2 DEF DeleteMail
  <2>3. QED
    BY <2>1, <2>2, UpdateStep
<1>3. CASE ExpungeMailbox
  BY <1>3, ExpungeStep DEF ExpungeMailbox
<1>4. CASE MarkMail \/ SetMaxMessageSizeMB
  BY <1>0, <1>4, NothingWritten DEF MarkMail, SetMaxMessageSizeMB, tables
<1>5. QED
  BY <1>1, <1>2, <1>3, <1>4 DEF Application

LEMMA NextTables ==
    ASSUME TypeInv, [Next]_vars
    PROVE  TableStep
<1> USE MailServerAssumption DEF TypeInv, TypeOK
<1>1. CASE HeartbeatCount \/ HeartbeatNotify \/ UNCHANGED vars
  BY <1>1, NothingWritten DEF HeartbeatCount, HeartbeatNotify, vars, tables, TableType
<1>2. CASE Crash
  BY <1>2 DEF Crash, TableStep, NoRowChanges, TableType
<1>3. QED
  BY <1>1, <1>2, SessionTables, CommandTables, StepTables, CallTables DEF Next, User

-----------------------------------------------------------------------------
(* Types.                                                                  *)

LEMMA TablesType ==
    ASSUME TypeInv, TableStep
    PROVE  TableType'
<1> USE MailServerAssumption DEF TypeInv, TypeOK, TableStep
<1>1. CASE NoRowChanges
  BY <1>1 DEF NoRowChanges, TableType
<1>2. CASE FlagsWritten
  BY <1>2 DEF FlagsWritten, TableType
<1>3. CASE RowCreated
  <2>1. PICK t \in Slot, m \in Msg, f \in SUBSET Flag :
          /\ t[1] \in boxes /\ mail[t] = NoMsg
          /\ mail' = [mail EXCEPT ![t] = m] /\ flags' = [flags EXCEPT ![t] = f]
    BY <1>3 DEF RowCreated
  <2>2. UNCHANGED boxes
    BY <1>3 DEF RowCreated
  <2>3. QED
    BY <2>1, <2>2 DEF TableType
<1>4. CASE FlaggedRemoved
  BY <1>4 DEF FlaggedRemoved, RemoveRows, TableType
<1>5. CASE BoxRemoved
  <2>1. PICK b \in boxes : boxes' = boxes \ {b} /\ RemoveRows({s \in Slot : s[1] = b})
    BY <1>5 DEF BoxRemoved
  <2>2. QED
    BY <2>1 DEF RemoveRows, TableType
<1>6. CASE BoxRenamed
  <2>1. PICK old \in Box, new \in Box :
         /\ new \in boxes /\ old \notin boxes
         /\ boxes' = (boxes \ {new}) \cup {old}
         /\ mail' = [s \in Slot |-> IF s[1] = new THEN NoMsg
                       ELSE mail[IF s[1] = old THEN <<new, s[2]>> ELSE s]]
         /\ flags' = [s \in Slot |-> IF s[1] = new THEN {}
                       ELSE flags[IF s[1] = old THEN <<new, s[2]>> ELSE s]]
    BY <1>6 DEF BoxRenamed
  <2>2. \A s \in Slot : (IF s[1] = old THEN <<new, s[2]>> ELSE s) \in Slot
    BY DEF Slot
  <2>3. mail' \in [Slot -> Msg \cup {NoMsg}] /\ flags' \in [Slot -> SUBSET Flag]
    BY <2>1, <2>2 DEF TableType
  <2>4. \A s \in Slot : mail'[s] # NoMsg => s[1] \in boxes'
    BY <2>1, <2>2 DEF TableType, Slot
  <2>5. \A s \in Slot : mail'[s] = NoMsg => flags'[s] = {}
    BY <2>1, <2>2 DEF TableType
  <2>6. QED
    BY <2>1, <2>3, <2>4, <2>5 DEF TableType
<1>7. CASE RowMoved
  BY <1>7 DEF RowMoved, RemoveRows, TableType
<1>8. QED
  BY <1>1, <1>2, <1>3, <1>4, <1>5, <1>6, <1>7

LEMMA TypeInit == Init => TypeInv
<1> SUFFICES ASSUME Init PROVE TypeInv
  OBVIOUS
<1> USE MailServerAssumption
<1>1. TableType
  BY DEF TableType, Init
<1>2. SessionType
  BY DEF SessionType, Init
<1>3. UserType
  <2>1. job \in [User -> Job]
    BY NoJobFits DEF Init
  <2>2. deletion \in BOOLEAN
    BY Zenon DEF Init
  <2>3. ops \in 0..MaxOps
    BY DEF Init
  <2>4. QED
    BY <2>1, <2>2, <2>3 DEF UserType, Init
<1>4. HasId /\ \A u \in User : JobFits(u, job[u])
  BY NoJobFits DEF HasId, Init
<1>5. QED
  BY <1>1, <1>2, <1>3, <1>4 DEF TypeInv, TypeOK

\* What the steps of a session do to its variables.
LEMMA SessionCases ==
    ASSUME TypeInv, NEW m \in Msg, Session(m)
    PROVE  /\ \E r : rpc' = [rpc EXCEPT ![m] = r]
           /\ rpc'[m] = "stored" => rid'[m] \in Ids
           /\ \E i \in Ids \cup {0} : rid' = [rid EXCEPT ![m] = i]
           /\ \E n \in Nat : read' = [read EXCEPT ![m] = n]
<1> USE MailServerAssumption DEF TypeInv, TypeOK
<1>0. /\ rpc \in [Msg -> {"new", "data", "store", "stored", "check", "refuse", "expunge",
                          "count", "notify", "accepted", "refused", "appended"}]
      /\ rid \in [Msg -> Ids \cup {0}] /\ read \in [Msg -> Nat]
      /\ rid = [rid EXCEPT ![m] = rid[m]] /\ read = [read EXCEPT ![m] = read[m]]
  BY DEF SessionType
<1>1. CASE SessionMail(m) \/ SessionData(m)
  BY <1>0, <1>1 DEF SessionMail, SessionData
<1>2. CASE SessionStore(m)
  <2>1. Size[m] + Header \in Nat
    OBVIOUS
  <2>2. MailCreate(Inbox, m, {}) => MailNextID(Inbox) \in Ids
    BY DEF MailCreate
  <2>3. QED
    BY <1>0, <1>2, <2>1, <2>2 DEF SessionStore
<1>3. CASE SessionSelect(m)
  <2> DEFINE s == <<Inbox, rid[m]>>
  <2>1. rpc[m] = "stored" /\ UNCHANGED rid
    BY <1>3 DEF SessionSelect
  <2>2. s \in Slot
    BY <2>1 DEF HasId, Slot
  <2>3. mail[s] # NoMsg => RowSize(s) \in Nat
    <3>1. mail[s] # NoMsg => mail[s] \in Msg
      BY <2>2 DEF TableType
    <3>2. QED
      BY <3>1 DEF RowSize
  <2> HIDE DEF s
  <2>4. /\ rpc' = [rpc EXCEPT ![m] = "check"] \/ rpc' = [rpc EXCEPT ![m] = "refused"]
        /\ UNCHANGED read \/ (mail[s] # NoMsg /\ read' = [read EXCEPT ![m] = RowSize(s)])
    BY <1>3 DEF SessionSelect, s
  <2>5. QED
    BY <1>0, <2>1, <2>3, <2>4
<1>4. CASE SessionCheck(m)
  BY <1>0, <1>4 DEF SessionCheck
<1>5. CASE SessionRefuse(m) \/ SessionExpunge(m)
  BY <1>0, <1>5 DEF SessionRefuse, SessionExpunge
<1>6. CASE SessionCount(m)
  <2>1. MailCount(Inbox) \in Nat
    BY CountType
  <2>2. QED
    BY <1>0, <1>6, <2>1 DEF SessionCount
<1>7. CASE SessionNotify(m)
  BY <1>0, <1>7 DEF SessionNotify
<1>8. QED
  BY <1>1, <1>2, <1>3, <1>4, <1>5, <1>6, <1>7 DEF Session

LEMMA TypeSession ==
    ASSUME TypeInv, NEW m \in Msg, Session(m)
    PROVE  SessionType' /\ UserType' /\ HasId' /\ UNCHANGED job
<1> USE MailServerAssumption DEF TypeInv, TypeOK
<1>1. UNCHANGED <<beat, sel, job, ops>>
  BY DEF Session, SessionMail, SessionData, SessionStore, SessionSelect, SessionCheck,
     SessionRefuse, SessionExpunge, SessionCount, SessionNotify, imap, history
<1>2. rpc'[m] \in {"new", "data", "store", "stored", "check", "refuse", "expunge",
                   "count", "notify", "accepted", "refused", "appended"}
  BY DEF Session, SessionMail, SessionData, SessionStore, SessionSelect, SessionCheck,
     SessionRefuse, SessionExpunge, SessionCount, SessionNotify, SessionType
<1>3. SessionType'
  BY <1>1, <1>2, SessionCases DEF SessionType
<1>4. HasId'
  BY SessionCases DEF HasId, SessionType
<1>5. told' \in [Client -> Nat]
  <2>1. \/ UNCHANGED told
        \/ told' = [c \in Client |-> IF sel[c] = Inbox THEN read[m] ELSE told[c]]
    BY DEF Session, SessionMail, SessionData, SessionStore, SessionSelect, SessionCheck,
       SessionRefuse, SessionExpunge, SessionCount, SessionNotify, NotifyNew, imap
  <2>2. QED
    BY <2>1 DEF SessionType, UserType
<1>6. deletion' \in BOOLEAN
  BY DEF Session, SessionMail, SessionData, SessionStore, SessionSelect, SessionCheck,
     SessionRefuse, SessionExpunge, SessionCount, SessionNotify, UserType, history
<1>7. QED
  BY <1>1, <1>3, <1>4, <1>5, <1>6 DEF UserType

\* The types of everything but the tables.
Typed ==
    /\ SessionType' /\ UserType' /\ HasId'
    /\ \A u \in User : JobFits(u, job'[u])

LEMMA CountsCommand ==
    ASSUME TypeInv, NEW u, Command(u)
    PROVE  ops' \in 0..MaxOps
  BY MailServerAssumption DEF TypeInv, TypeOK, UserType, Command

\* A command or a step that leaves the sessions alone.
LEMMA TypedHandler ==
    ASSUME TypeInv, UNCHANGED <<session, beat, sel, told>>, ops' \in 0..MaxOps,
           deletion' \in BOOLEAN, UNCHANGED job \/ \E u \in User : Changes(u)
    PROVE  Typed
<1>1. job' \in [User -> Job] /\ \A u \in User : JobFits(u, job'[u])
  <2>1. CASE UNCHANGED job
    BY <2>1 DEF TypeInv, TypeOK, UserType
  <2>2. QED
    BY <2>1, JobsType
<1>2. SessionType' /\ HasId'
  BY DEF TypeInv, TypeOK, SessionType, HasId, session
<1>3. UserType'
  BY <1>1 DEF TypeInv, TypeOK, UserType
<1>4. QED
  BY <1>1, <1>2, <1>3 DEF Typed

LEMMA TypeCommand ==
    ASSUME TypeInv, NEW c \in Client, ClientCommand(c)
    PROVE  Typed
<1> USE MailServerAssumption DEF TypeInv, TypeOK
<1> c \in User
  BY DEF User
<1>1. CASE Select(c)
  <2>1. \A b \in boxes : MailCount(b) \in Nat
    BY CountType DEF TableType
  <2>2. sel' \in [Client -> Box \cup {NoBox}] /\ told' \in [Client -> Nat]
    BY <1>1, <2>1 DEF Select, UserType, TableType
  <2>3. UNCHANGED <<session, beat, job, history>>
    BY <1>1 DEF Select
  <2>4. SessionType' /\ HasId' /\ UserType'
    BY <2>2, <2>3 DEF SessionType, HasId, UserType, session, history
  <2>5. QED
    BY <2>3, <2>4 DEF Typed
<1>2. CASE Expunge(c)
  <2>1. UNCHANGED <<session, beat, sel, told, job>> /\ deletion' \in BOOLEAN /\ Command(c)
    BY <1>2 DEF Expunge, imap, UserType
  <2>2. QED
    BY <2>1, CountsCommand, TypedHandler
<1>3. CASE StoreReplace(c)
  <2>1. UNCHANGED <<session, beat, job, deletion>> /\ ops' \in 0..MaxOps
    BY <1>3, CountsCommand DEF StoreReplace
  <2>2. sel' \in [Client -> Box \cup {NoBox}] /\ told' \in [Client -> Nat]
    BY <1>3 DEF StoreReplace, UserType
  <2>3. SessionType' /\ HasId' /\ UserType'
    BY <2>1, <2>2 DEF SessionType, HasId, UserType, session
  <2>4. QED
    BY <2>1, <2>3 DEF Typed
<1>4. CASE StoreBegin(c) \/ TransferBegin(c)
  <2>1. UNCHANGED <<session, beat, sel, told>> /\ Command(c)
    BY <1>4 DEF StoreBegin, TransferBegin, imap
  <2>2. deletion' \in BOOLEAN
    <3>1. CASE TransferBegin(c)
      BY <3>1 DEF TransferBegin, UserType
    <3>2. CASE StoreBegin(c)
      <4>1. PICK f, add : deletion' = (deletion \/ (f = "Deleted" /\ add))
        BY <3>2 DEF StoreBegin
      <4>2. QED
        BY <4>1, Zenon
    <3>3. QED
      BY <1>4, <3>1, <3>2
  <2>3. QED
    BY <1>4, <2>1, <2>2, BeginContinues, CountsCommand, TypedHandler
<1>5. CASE AppendBegin(c)
  <2>1. PICK b \in boxes, m \in Msg, list \in FlagLists :
          /\ rpc' = [rpc EXCEPT ![m] = "appended"]
          /\ deletion' = (deletion \/ \E k \in DOMAIN list : list[k] = "Deleted")
    BY <1>5 DEF AppendBegin
  <2>2. UNCHANGED <<rid, read, beat, sel, told>> /\ ops' \in 0..MaxOps
    BY <1>5, CountsCommand DEF AppendBegin, imap
  <2>3. deletion' \in BOOLEAN
    BY <2>1, Zenon
  <2>4. job' \in [User -> Job] /\ \A u \in User : JobFits(u, job'[u])
    BY <1>5, BeginContinues, JobsType
  <2>5. SessionType' /\ HasId'
    BY <2>1, <2>2 DEF SessionType, HasId
  <2>6. UserType'
    BY <2>2, <2>3, <2>4 DEF UserType
  <2>7. QED
    BY <2>4, <2>5, <2>6 DEF Typed
<1>6. QED
  BY <1>1, <1>2, <1>3, <1>4, <1>5 DEF ClientCommand

LEMMA StepFrame ==
    ASSUME NEW u, HandlerStep(u) \/ ClientStep(u)
    PROVE  UNCHANGED <<session, beat, sel, told, deletion, ops>>
<1>1. CASE HandlerSelect(u) \/ StoreWrite(u) \/ HandlerFails(u)
  BY <1>1 DEF HandlerSelect, StoreWrite, HandlerFails, imap, history
<1>2. CASE ResolveStar(u) \/ ResolveSeq(u) \/ AppendWrite(u)
  BY <1>2 DEF ResolveStar, ResolveSeq, AppendWrite, imap, history
<1>3. CASE CopyCreate(u) \/ CopyWrite(u) \/ MoveInsert(u) \/ MoveDelete(u)
  BY <1>3 DEF CopyCreate, CopyWrite, MoveInsert, MoveDelete, imap, history
<1>4. QED
  BY <1>1, <1>2, <1>3 DEF HandlerStep, ClientStep

LEMMA TypeStep ==
    ASSUME TypeInv, NEW u \in User, HandlerStep(u) \/ (u \in Client /\ ClientStep(u))
    PROVE  Typed
<1>1. UNCHANGED <<session, beat, sel, told, deletion, ops>>
  BY StepFrame
<1>2. deletion' \in BOOLEAN /\ ops' \in 0..MaxOps
  BY <1>1 DEF TypeInv, TypeOK, UserType
<1>3. QED
  BY <1>1, <1>2, StepChanges, TypedHandler

LEMMA TypeCall ==
    ASSUME TypeInv, Application \/ \E u \in User : MailboxCall(u)
    PROVE  Typed
<1> USE MailServerAssumption DEF TypeInv, TypeOK
<1> App \in User
  BY DEF User
<1>1. UNCHANGED <<session, beat, sel, told>> /\ ops' \in 0..MaxOps
  <2>1. CASE Application
    BY <2>1, CountsCommand DEF Application, MarkMail, DeleteMail, ExpungeMailbox,
       SetMaxMessageSizeMB, imap
  <2>2. ASSUME NEW u \in User, MailboxCall(u)
        PROVE  UNCHANGED <<session, beat, sel, told>> /\ ops' \in 0..MaxOps
    BY <2>2, CountsCommand DEF MailboxCall, MailboxCreate, MailboxDelete, MailboxRename, imap
  <2>3. QED
    BY <2>1, <2>2
<1>2. deletion' \in BOOLEAN
  <2>1. deletion' = TRUE \/ UNCHANGED deletion
    BY DEF Application, MarkMail, DeleteMail, ExpungeMailbox, SetMaxMessageSizeMB,
       MailboxCall, MailboxCreate, MailboxDelete, MailboxRename
  <2>2. QED
    BY <2>1 DEF UserType
<1>3. UNCHANGED job \/ Changes(App)
  <2>1. MarkMail => Changes(App)
    BY MarkBegins DEF Continues, Changes
  <2>2. QED
    BY <2>1 DEF Application, DeleteMail, ExpungeMailbox, SetMaxMessageSizeMB,
       MailboxCall, MailboxCreate, MailboxDelete, MailboxRename
<1>4. QED
  BY <1>1, <1>2, <1>3, TypedHandler

LEMMA TypeInvariant ==
    ASSUME TypeInv, [Next]_vars
    PROVE  TypeInv'
<1> USE MailServerAssumption
<1>1. TableType'
  BY NextTables, TablesType
<1>2. Typed
  <2>1. CASE HeartbeatCount \/ HeartbeatNotify
    <3>1. MailCount(Inbox) \in 0..MaxId
      BY CountType
    <3>2. UNCHANGED <<session, sel, job, history>>
      BY <2>1 DEF HeartbeatCount, HeartbeatNotify, imap
    <3>3. beat' \in (0..MaxId) \cup {NoCount} /\ told' \in [Client -> Nat]
      BY <2>1, <3>1 DEF HeartbeatCount, HeartbeatNotify, NotifyNew, imap, TypeInv, TypeOK,
         SessionType, UserType
    <3>4. SessionType' /\ HasId' /\ UserType'
      BY <3>2, <3>3 DEF TypeInv, TypeOK, SessionType, HasId, UserType, session, history
    <3>5. QED
      BY <3>2, <3>4 DEF TypeInv, Typed
  <2>2. CASE Crash
    <3>1. SessionType' /\ HasId'
      BY <2>2 DEF Crash, SessionType, HasId, TypeInv, TypeOK
    <3>2. job' \in [User -> Job] /\ \A u \in User : JobFits(u, job'[u])
      BY <2>2, NoJobFits DEF Crash
    <3>3. UserType'
      BY <2>2, <3>2 DEF Crash, UserType, TypeInv, TypeOK, history
    <3>4. QED
      BY <3>1, <3>2, <3>3 DEF Typed
  <2>3. CASE UNCHANGED vars
    BY <2>3, TypedHandler DEF vars, imap, history, TypeInv, TypeOK, UserType
  <2>4. ASSUME NEW m \in Msg, Session(m) PROVE Typed
    BY <2>4, TypeSession DEF TypeInv, Typed
  <2>5. QED
    BY <2>1, <2>2, <2>3, <2>4, TypeCommand, TypeStep, TypeCall DEF Next, User
<1>3. QED
  BY <1>1, <1>2 DEF Typed, TypeInv, TypeOK

\* The tables, sessions, connections and handlers have the types their
\* declarations promise: in particular every mail belongs to a mailbox that
\* exists (the foreign key of mails), although mailboxes are deleted and
\* renamed while sessions and handlers hold ids of their mails.
THEOREM TypeCorrect == Spec => []TypeOK
<1>1. TypeInv /\ [Next]_vars => TypeInv'
  BY TypeInvariant
<1>2. TypeInv => TypeOK
  BY DEF TypeInv
<1>3. QED
  BY <1>1, <1>2, TypeInit, PTL DEF Spec

-----------------------------------------------------------------------------
(* A mail in the middle of a move has two rows.                            *)

\* A client in the middle of a move has just begun it or stays there.
LEMMA DeleteCases ==
    ASSUME TypeInv, [Next]_vars
    PROVE  \/ \E u \in Client : MoveStarts(u) /\ UNCHANGED <<boxes, limit>>
           \/ \A c \in Client : job'[c].pc = "delete" => job'[c] = job[c]
<1> DEFINE Stays == \A c \in Client : job'[c].pc = "delete" => job'[c] = job[c]
<1> USE MailServerAssumption
<1>1. UNCHANGED job => Stays
  OBVIOUS
<1>2. ASSUME NEW u \in User, Continues(u) PROVE Stays
  <2>1. PICK k : job' = [job EXCEPT ![u] = k] /\ k.pc # "delete"
    BY <1>2 DEF Continues
  <2>2. job \in [User -> Job] /\ Client \subseteq User
    BY DEF TypeInv, TypeOK, UserType, User
  <2>3. QED
    BY <2>1, <2>2
<1>3. ASSUME NEW m \in Msg, Session(m) PROVE Stays
  BY <1>1, <1>3, TypeSession
<1>4. ASSUME NEW c \in Client, ClientCommand(c) PROVE Stays
  <2>1. UNCHANGED job \/ Continues(c)
    BY <1>4, BeginContinues DEF ClientCommand, Select, Expunge, StoreReplace
  <2>2. QED
    BY <1>1, <1>2, <2>1 DEF User
<1>5. ASSUME NEW u \in User, HandlerStep(u) \/ (u \in Client /\ ClientStep(u))
      PROVE  Stays \/ (u \in Client /\ MoveStarts(u) /\ UNCHANGED <<boxes, limit>>)
  <2>1. CASE u \in Client /\ MoveInsert(u)
    BY <1>2, <2>1, MoveCases
  <2>2. CASE ~(u \in Client /\ MoveInsert(u))
    <3>1. Continues(u)
      BY <1>5, <2>2, SelectContinues, AppendContinues, ResolveContinues, WriteContinues,
         CopyContinues DEF HandlerStep, ClientStep
    <3>2. QED
      BY <1>2, <3>1
  <2>3. QED
    BY <2>1, <2>2
<1>6. ASSUME Application \/ \E u \in User : MailboxCall(u) PROVE Stays
  <2>1. App \in User
    BY DEF User
  <2>2. UNCHANGED job \/ Continues(App)
    BY <1>6, MarkBegins DEF Application, DeleteMail, ExpungeMailbox,
       SetMaxMessageSizeMB, MailboxCall, MailboxCreate, MailboxDelete, MailboxRename
  <2>3. QED
    BY <1>1, <1>2, <2>1, <2>2
<1>7. CASE HeartbeatCount \/ HeartbeatNotify \/ UNCHANGED vars
  BY <1>1, <1>7 DEF HeartbeatCount, HeartbeatNotify, vars
<1>8. CASE Crash
  BY <1>8, NoJobFits DEF Crash, User
<1>9. QED
  BY <1>3, <1>4, <1>5, <1>6, <1>7, <1>8 DEF Next, User

\* The second row of a mail, and nobody else's.
LEMMA MoveBegun ==
    ASSUME TypeInv, NEW u \in Client, MoveStarts(u), UNCHANGED <<boxes, limit>>
    PROVE  MoveOK'
<1> USE DEF TypeInv, TypeOK
<1> DEFINE s == RowOf(job[u])
           id == MailNextID(job[u].dest)
           t == <<job[u].dest, id>>
           k == [job[u] EXCEPT !.id = id, !.pc = "delete"]
<1>1. job[u] \in Job /\ job \in [User -> Job] /\ Client \subseteq User
  BY DEF UserType, User
<1>2. s \in Slot /\ mail[s] \in Msg /\ flags[s] \in SUBSET Flag
  BY DEF MoveStarts, Exists, TableType
<1>3. /\ t \in Slot /\ mail[t] = NoMsg
      /\ \A x \in Slot : mail'[x] = IF x = t THEN mail[s] ELSE mail[x]
  <2>1. PICK b \in boxes, m \in Msg, f \in SUBSET Flag :
          b = job[u].dest /\ m = mail[s] /\ f = flags[s]
    BY <1>2 DEF MoveStarts
  <2>2. MailCreate(b, m, f)
    BY <2>1 DEF MoveStarts
  <2>3. QED
    BY <2>1, <2>2, CreateRow
<1>4. s # t
  BY <1>2, <1>3, MailServerAssumption
<1>5. /\ job' = [job EXCEPT ![u] = k]
      /\ RowOf(k) = s /\ <<k.dest, k.id>> = t
  BY <1>1 DEF MoveStarts, RowOf, Job
<1>6. \A d \in Client : job'[d].pc = "delete" => d = u
  BY <1>1, <1>5 DEF MoveStarts, WriterFree
<1>7. job'[u] = k /\ mail'[s] \in Msg /\ mail'[t] = mail'[s]
  BY <1>1, <1>2, <1>3, <1>4, <1>5
<1> HIDE DEF s, t, k, id
<1>8. SUFFICES ASSUME NEW c \in Client, job'[c].pc = "delete"
               PROVE  /\ \A d \in Client : job'[d].pc = "delete" => d = c
                      /\ RowOf(job'[c]) \in Slot /\ <<job'[c].dest, job'[c].id>> \in Slot
                      /\ RowOf(job'[c]) # <<job'[c].dest, job'[c].id>>
                      /\ mail'[RowOf(job'[c])] \in Msg
                      /\ mail'[<<job'[c].dest, job'[c].id>>] = mail'[RowOf(job'[c])]
  BY DEF MoveOK, RowOf
<1>9. c = u
  BY <1>6, <1>8
<1>10. QED
  BY <1>2, <1>3, <1>4, <1>5, <1>6, <1>7, <1>9

LEMMA MoveKept ==
    ASSUME TypeInv, MoveOK, [Next]_vars
    PROVE  MoveOK'
<1>1. CASE \E u \in Client : MoveStarts(u) /\ UNCHANGED <<boxes, limit>>
  BY <1>1, MoveBegun
<1>2. CASE \A c \in Client : job'[c].pc = "delete" => job'[c] = job[c]
  <2>1. SUFFICES ASSUME NEW c \in Client, job'[c].pc = "delete"
                 PROVE  UNCHANGED mail
    BY <1>2 DEF MoveOK, RowOf
  <2>2. job[c].pc = "delete" /\ ~WriterFree
    BY <1>2, <2>1 DEF WriterFree
  <2>3. NoRowChanges \/ RowMoved
    BY <2>2, NextTables DEF TableStep, FlagsWritten, RowCreated, FlaggedRemoved,
       BoxRemoved, BoxRenamed
  <2>4. ~RowMoved
    <3>1. SUFFICES ASSUME RowMoved PROVE FALSE
      OBVIOUS
    <3>2. PICK d \in Client : job[d].pc = "delete" /\ Continues(d)
      BY <3>1 DEF RowMoved
    <3>3. d = c
      BY <2>2, <3>2 DEF MoveOK
    <3>4. PICK k : job' = [job EXCEPT ![c] = k] /\ k.pc # "delete"
      BY <3>2, <3>3 DEF Continues
    <3>5. job'[c] = k
      BY <3>4 DEF TypeInv, TypeOK, UserType, User
    <3>6. QED
      BY <2>1, <3>4, <3>5
  <2>5. QED
    BY <2>3, <2>4 DEF NoRowChanges
<1>3. QED
  BY <1>1, <1>2, DeleteCases

-----------------------------------------------------------------------------
(* What may take the last row of a mail.                                   *)

Loses(m) ==
    \A s \in Slot : mail[s] = m =>
      "Deleted" \in flags[s] \/ (boxes' = boxes \ {s[1]} /\ deletion')

LEMMA OnlyLosses ==
    ASSUME TypeInv, MoveOK, [Next]_vars, NEW m \in Msg, Stored(m), ~Stored(m)'
    PROVE  Loses(m)
<1> USE MailServerAssumption DEF TypeInv, TypeOK
<1>0. PICK x \in Slot : mail[x] = m
  BY DEF Stored
<1>1. CASE NoRowChanges \/ FlagsWritten
  BY <1>0, <1>1 DEF NoRowChanges, FlagsWritten, Stored
<1>2. CASE RowCreated
  <2>1. PICK t \in Slot, n \in Msg : mail[t] = NoMsg /\ mail' = [mail EXCEPT ![t] = n]
    BY <1>2 DEF RowCreated
  <2>2. mail'[x] = m
    BY <1>0, <2>1 DEF TableType
  <2>3. QED
    BY <2>2 DEF Stored
<1>3. CASE FlaggedRemoved
  <2>1. PICK gone \in SUBSET Slot : RemoveRows(gone) /\ \A s \in gone : "Deleted" \in flags[s]
    BY <1>3 DEF FlaggedRemoved
  <2>2. \A s \in Slot : mail[s] = m => s \in gone
    BY <2>1 DEF RemoveRows, Stored
  <2>3. QED
    BY <2>1, <2>2 DEF Loses
<1>4. CASE BoxRemoved
  <2>1. PICK b \in boxes : /\ boxes' = boxes \ {b} /\ deletion'
                           /\ RemoveRows({s \in Slot : s[1] = b})
    BY <1>4 DEF BoxRemoved
  <2>2. \A s \in Slot : mail[s] = m => s[1] = b
    BY <2>1 DEF RemoveRows, Stored
  <2>3. QED
    BY <2>1, <2>2 DEF Loses
<1>5. CASE BoxRenamed
  <2>1. PICK old \in Box, new \in Box :
         /\ new \in boxes /\ old \notin boxes
         /\ mail' = [s \in Slot |-> IF s[1] = new THEN NoMsg
                       ELSE mail[IF s[1] = old THEN <<new, s[2]>> ELSE s]]
    BY <1>5 DEF BoxRenamed
  <2>2. x[1] # old /\ x = <<x[1], x[2]>> /\ <<old, x[2]>> \in Slot
    BY <1>0, <2>1 DEF TableType, Slot
  <2>3. CASE x[1] = new
    <3>1. mail'[<<old, x[2]>>] = mail[<<new, x[2]>>]
      BY <2>1, <2>2
    <3>2. QED
      BY <1>0, <2>2, <2>3, <3>1 DEF Stored
  <2>4. CASE x[1] # new
    <3>1. mail'[x] = mail[x]
      BY <2>1, <2>2, <2>4
    <3>2. QED
      BY <1>0, <3>1 DEF Stored
  <2>5. QED
    BY <2>3, <2>4
<1>6. CASE RowMoved
  <2>1. PICK c \in Client : job[c].pc = "delete" /\ RemoveRows({RowOf(job[c])})
    BY <1>6 DEF RowMoved
  <2>2. PICK s \in Slot, t \in Slot : s = RowOf(job[c]) /\ s # t /\ mail[t] = mail[s]
    BY <2>1 DEF MoveOK
  <2>3. \A y \in Slot : y # s => mail'[y] = mail[y]
    BY <2>1, <2>2 DEF RemoveRows
  <2>4. QED
    BY <1>0, <2>2, <2>3 DEF Stored
<1>7. QED
  BY <1>1, <1>2, <1>3, <1>4, <1>5, <1>6, NextTables DEF TableStep

LEMMA MoveInit == Init => MoveOK
  BY DEF Init, NoJob, MoveOK, User

\* The last row of a mail goes only if an expunge finds it flagged or its
\* mailbox is deleted: not with a move, of which another commit comes between
\* the INSERT and the DELETE, not with a rename, a copy or a crash, whatever
\* stale ids the handlers use.
THEOREM OnlyFlaggedMailGoesCorrect == Spec => OnlyFlaggedMailGoes
<1> DEFINE Goes == \A m \in Msg : Stored(m) /\ ~Stored(m)' =>
                     \A s \in Slot : mail[s] = m =>
                       "Deleted" \in flags[s] \/ boxes' = boxes \ {s[1]}
<1>1. Init => TypeInv /\ MoveOK
  BY TypeInit, MoveInit
<1>2. TypeInv /\ MoveOK /\ [Next]_vars => TypeInv' /\ MoveOK'
  BY TypeInvariant, MoveKept
<1>3. TypeInv /\ MoveOK /\ [Next]_vars => [Goes]_vars
  BY OnlyLosses DEF Loses
<1>4. QED
  BY <1>1, <1>2, <1>3, PTL DEF Spec, OnlyFlaggedMailGoes

-----------------------------------------------------------------------------
(* Mails are kept as long as nobody deletes anything.                      *)

LEMMA DeletionStays ==
    ASSUME TypeInv, [Next]_vars, ~deletion'
    PROVE  ~deletion
<1>1. ASSUME NEW m \in Msg, Session(m) PROVE ~deletion
  BY <1>1 DEF Session, SessionMail, SessionData, SessionStore, SessionSelect, SessionCheck,
     SessionRefuse, SessionExpunge, SessionCount, SessionNotify, history
<1>2. ASSUME NEW c \in Client, ClientCommand(c) PROVE ~deletion
  <2>1. CASE StoreBegin(c) \/ AppendBegin(c)
    <3>1. PICK some : deletion' = (deletion \/ some)
      BY <2>1 DEF StoreBegin, AppendBegin
    <3>2. QED
      BY <3>1, Zenon
  <2>2. CASE Select(c) \/ Expunge(c) \/ StoreReplace(c) \/ TransferBegin(c)
    BY <2>2 DEF Select, Expunge, StoreReplace, TransferBegin, history
  <2>3. QED
    BY <1>2, <2>1, <2>2 DEF ClientCommand
<1>3. ASSUME NEW u \in User, HandlerStep(u) \/ ClientStep(u) PROVE ~deletion
  BY <1>3, StepFrame
<1>4. ASSUME Application \/ \E u \in User : MailboxCall(u) PROVE ~deletion
  BY <1>4 DEF Application, MarkMail, DeleteMail, ExpungeMailbox, SetMaxMessageSizeMB,
     MailboxCall, MailboxCreate, MailboxDelete, MailboxRename
<1>5. CASE HeartbeatCount \/ HeartbeatNotify \/ Crash \/ UNCHANGED vars
  BY <1>5 DEF HeartbeatCount, HeartbeatNotify, Crash, vars, history
<1>6. QED
  BY <1>1, <1>2, <1>3, <1>4, <1>5 DEF Next, User

\* Handlers stay clean.
LEMMA HandlersClean ==
    ASSUME TypeInv, NothingDeleted, [Next]_vars, ~deletion'
    PROVE  \A u \in User : Clean(job'[u])
<1>0. \A u \in User : Clean(job[u])
  BY DeletionStays DEF NothingDeleted
<1>1. UNCHANGED job => \A u \in User : Clean(job'[u])
  BY <1>0
<1>2. ASSUME NEW u \in User, Changes(u) PROVE \A v \in User : Clean(job'[v])
  <2>1. PICK k : job' = [job EXCEPT ![u] = k] /\ Clean(k)
    BY <1>2 DEF Changes, Fits
  <2>2. QED
    BY <1>0, <2>1 DEF TypeInv, TypeOK, UserType
<1>3. ASSUME NEW m \in Msg, Session(m) PROVE UNCHANGED job
  BY <1>3, TypeSession
<1>4. ASSUME NEW c \in Client, ClientCommand(c) PROVE UNCHANGED job \/ Changes(c)
  BY <1>4, BeginContinues DEF ClientCommand, Select, Expunge, StoreReplace
<1>5. ASSUME Application \/ \E u \in User : MailboxCall(u)
      PROVE  UNCHANGED job \/ Changes(App)
  <2>1. MarkMail => Changes(App)
    BY MarkBegins DEF Continues, Changes
  <2>2. QED
    BY <1>5, <2>1 DEF Application, DeleteMail, ExpungeMailbox, SetMaxMessageSizeMB,
       MailboxCall, MailboxCreate, MailboxDelete, MailboxRename
<1>6. CASE HeartbeatCount \/ HeartbeatNotify \/ UNCHANGED vars
  BY <1>1, <1>6 DEF HeartbeatCount, HeartbeatNotify, vars
<1>7. CASE Crash
  BY <1>7, NoJobFits DEF Crash
<1>8. QED
  BY <1>1, <1>2, <1>3, <1>4, <1>5, <1>6, <1>7, StepChanges DEF Next, User

\* Where the steps of sessions and an APPEND lead.
LEMMA RpcCases ==
    ASSUME TypeInv, [Next]_vars, NEW m \in Msg, rpc'[m] # rpc[m]
    PROVE  /\ rpc'[m] = "expunge" => deletion'
           /\ rpc'[m] \in Keeping => rpc[m] \in Keeping \/ Stored(m)'
<1> USE MailServerAssumption DEF TypeInv, TypeOK
<1>0. ASSUME NEW b \in boxes, MailCreate(b, m, {}) PROVE Stored(m)'
  <2>1. <<b, MailNextID(b)>> \in Slot
    BY <1>0 DEF MailCreate, TableType, Slot
  <2>2. mail'[<<b, MailNextID(b)>>] = m
    BY <1>0, <2>1 DEF MailCreate, TableType
  <2>3. QED
    BY <2>1, <2>2 DEF Stored
<1>1. ASSUME NEW n \in Msg, Session(n)
      PROVE  /\ rpc'[m] = "expunge" => deletion'
             /\ rpc'[m] \in Keeping => rpc[m] \in Keeping \/ Stored(m)'
  <2>1. n = m /\ rpc \in [Msg -> {"new", "data", "store", "stored", "check", "refuse",
                 "expunge", "count", "notify", "accepted", "refused", "appended"}]
    BY <1>1, SessionCases DEF SessionType
  <2>2. CASE SessionStore(m)
    <3>1. CASE Inbox \in boxes /\ MailCreate(Inbox, m, {})
      <4>1. Stored(m)'
        BY <1>0, <3>1
      <4>2. rpc'[m] # "expunge"
        BY <2>1, <2>2 DEF SessionStore
      <4>3. QED
        BY <4>1, <4>2
    <3>2. QED
      BY <2>1, <2>2, <3>1 DEF SessionStore, Keeping
  <2>3. CASE SessionMail(m) \/ SessionData(m)
    BY <2>1, <2>3 DEF SessionMail, SessionData, Keeping
  <2>4. CASE SessionSelect(m) \/ SessionCheck(m) \/ SessionCount(m) \/ SessionNotify(m)
    BY <2>1, <2>4 DEF SessionSelect, SessionCheck, SessionCount, SessionNotify, Keeping
  <2>5. CASE SessionRefuse(m) \/ SessionExpunge(m)
    BY <2>1, <2>5 DEF SessionRefuse, SessionExpunge, Keeping
  <2>6. QED
    BY <1>1, <2>1, <2>2, <2>3, <2>4, <2>5 DEF Session
<1>2. ASSUME NEW c \in Client, ClientCommand(c)
      PROVE  rpc'[m] = "appended" /\ Stored(m)'
  <2>1. AppendBegin(c)
    BY <1>2 DEF ClientCommand, Select, Expunge, StoreBegin, StoreReplace, TransferBegin,
       session
  <2>2. PICK b \in boxes, n \in Msg : /\ MailCreate(b, n, {})
                                      /\ rpc' = [rpc EXCEPT ![n] = "appended"]
    BY <2>1 DEF AppendBegin
  <2>3. n = m
    BY <2>2 DEF SessionType
  <2>4. QED
    BY <1>0, <2>2, <2>3 DEF SessionType
<1>3. ASSUME NEW u \in User, HandlerStep(u) \/ ClientStep(u) PROVE FALSE
  BY <1>3, StepFrame DEF session
<1>4. ASSUME Application \/ \E u \in User : MailboxCall(u) PROVE FALSE
  BY <1>4 DEF Application, MarkMail, DeleteMail, ExpungeMailbox, SetMaxMessageSizeMB,
     MailboxCall, MailboxCreate, MailboxDelete, MailboxRename, session
<1>5. CASE HeartbeatCount \/ HeartbeatNotify \/ UNCHANGED vars
  BY <1>5 DEF HeartbeatCount, HeartbeatNotify, vars, session
<1>6. CASE Crash
  BY <1>6 DEF Crash, Keeping, SessionType
<1>7. QED
  BY <1>1, <1>2, <1>3, <1>4, <1>5, <1>6 DEF Next, User

LEMMA NothingDeletedKept ==
    ASSUME TypeInv, NothingDeleted, [Next]_vars
    PROVE  NothingDeleted'
<1> USE MailServerAssumption DEF TypeInv, TypeOK
<1>1. SUFFICES ASSUME ~deletion'
               PROVE  /\ \A s \in Slot : "Deleted" \notin flags'[s]
                      /\ \A u \in User : Clean(job'[u])
                      /\ \A m \in Msg : rpc'[m] # "expunge"
  BY DEF NothingDeleted, Clean
<1>2. /\ \A s \in Slot : "Deleted" \notin flags[s]
      /\ \A m \in Msg : rpc[m] # "expunge"
  BY <1>1, DeletionStays DEF NothingDeleted
<1>3. \A s \in Slot : "Deleted" \notin flags'[s]
  <2>1. CASE NoRowChanges \/ FlagsWritten
    BY <1>1, <1>2, <2>1 DEF NoRowChanges, FlagsWritten
  <2>2. CASE RowCreated
    <3>1. PICK t \in Slot :
            \E f : flags' = [flags EXCEPT ![t] = f] /\ "Deleted" \notin f
      BY <1>1, <2>2 DEF RowCreated
    <3>2. PICK f : flags' = [flags EXCEPT ![t] = f] /\ "Deleted" \notin f
      BY <3>1
    <3>3. QED
      BY <1>2, <3>2 DEF TableType
  <2>3. CASE FlaggedRemoved \/ RowMoved
    <3>1. PICK gone : RemoveRows(gone)
      BY <2>3 DEF FlaggedRemoved, RowMoved
    <3>2. QED
      BY <1>2, <3>1 DEF RemoveRows
  <2>4. CASE BoxRenamed
    <3>1. PICK old \in Box, new \in Box :
            flags' = [s \in Slot |-> IF s[1] = new THEN {}
                        ELSE flags[IF s[1] = old THEN <<new, s[2]>> ELSE s]]
      BY <2>4 DEF BoxRenamed
    <3>2. \A s \in Slot : (IF s[1] = old THEN <<new, s[2]>> ELSE s) \in Slot
      BY DEF Slot
    <3>3. QED
      BY <1>2, <3>1, <3>2
  <2>5. QED
    BY <1>1, <2>1, <2>2, <2>3, <2>4, NextTables DEF TableStep, BoxRemoved
<1>4. QED
  BY <1>1, <1>2, <1>3, HandlersClean, RpcCases

LEMMA KeptKept ==
    ASSUME TypeInv, MoveOK, NothingDeleted, KeptOK, [Next]_vars
    PROVE  KeptOK'
<1>1. SUFFICES ASSUME ~deletion', NEW m \in Msg, rpc'[m] \in Keeping
               PROVE  Stored(m)'
  BY DEF KeptOK, Stored
<1>2. ~deletion
  BY <1>1, DeletionStays
<1>3. CASE rpc[m] \in Keeping
  <2>1. Stored(m)
    BY <1>2, <1>3 DEF KeptOK
  <2>2. SUFFICES ASSUME ~Stored(m)' PROVE FALSE
    OBVIOUS
  <2>3. PICK s \in Slot : mail[s] = m
    BY <2>1 DEF Stored
  <2>4. "Deleted" \in flags[s]
    BY <1>1, <2>1, <2>2, <2>3, OnlyLosses DEF Loses
  <2>5. QED
    BY <1>2, <2>4 DEF NothingDeleted
<1>4. CASE rpc[m] \notin Keeping
  BY <1>1, <1>4, RpcCases
<1>5. QED
  BY <1>3, <1>4

LEMMA InvariantInit == Init => AllInv
<1> SUFFICES ASSUME Init PROVE AllInv
  OBVIOUS
<1>1. NothingDeleted /\ KeptOK
  BY NoJobFits DEF Init, NothingDeleted, KeptOK, Keeping
<1>2. QED
  BY <1>1, TypeInit, MoveInit DEF AllInv

\* As long as nobody asks to delete a mail or a mailbox, and no session refuses
\* a mail that was stored, a mail that was accepted or appended is in some
\* mailbox, whatever copies, moves, renames, stale ids, failing calls and
\* crashes come between.
THEOREM StoredMailKeptCorrect == Spec => []StoredMailKept
<1>1. AllInv /\ [Next]_vars => AllInv'
  BY TypeInvariant, MoveKept, NothingDeletedKept, KeptKept DEF AllInv
<1>2. AllInv => StoredMailKept
  BY DEF AllInv, KeptOK, Keeping, StoredMailKept
<1>3. QED
  BY <1>1, <1>2, InvariantInit, PTL DEF Spec

=============================================================================
