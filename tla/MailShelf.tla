----------------------------- MODULE MailShelf -----------------------------
(***************************************************************************)
(* What the mail storage promises a reader, without rows, ids, files or    *)
(* transactions: a stored mail stays on a shelf until somebody asks to     *)
(* delete it or it is carried to another shelf, and what is gone is gone.  *)
(***************************************************************************)

CONSTANTS Mail, Box

VARIABLES
    stored,   \* mails that were ever put on a shelf
    held,     \* pairs <<box, mail>>: the mail can be read from the box
    carried,  \* the one pair on its way to another box, no box showing it
    asked,    \* mails somebody asked to delete
    lost      \* mails dropped on the way

vars == <<stored, held, carried, asked, lost>>

Init == stored = {} /\ held = {} /\ carried = {} /\ asked = {} /\ lost = {}

\* A mail is stored once.
Store(m, b) ==
    /\ m \notin stored
    /\ stored' = stored \cup {m}
    /\ held' = held \cup {<<b, m>>}
    /\ UNCHANGED <<carried, asked, lost>>

Ask(m) ==
    /\ m \in stored
    /\ asked' = asked \cup {m}
    /\ UNCHANGED <<stored, held, carried, lost>>

\* What disappears was to be deleted, or is still held somewhere.
Discard(D) ==
    /\ D \subseteq held
    /\ \A p \in D : p[2] \in asked \/ \E q \in held \ D : q[2] = p[2]
    /\ held' = held \ D
    /\ UNCHANGED <<stored, carried, asked, lost>>

\* Only what is held is copied, so nothing comes back.
Copy(p, b) ==
    /\ p \in held
    /\ held' = held \cup {<<b, p[2]>>}
    /\ UNCHANGED <<stored, carried, asked, lost>>

\* A box may hold a mail twice.
TakeUp(p) ==
    /\ p \in held /\ carried = {}
    /\ carried' = {p}
    /\ held' \in {held, held \ {p}}
    /\ UNCHANGED <<stored, asked, lost>>

\* At the destination, or where it came from.
PutDown(p, b) ==
    /\ p \in carried
    /\ carried' = {}
    /\ held' = held \cup {<<b, p[2]>>}
    /\ UNCHANGED <<stored, asked, lost>>

Drop(p) ==
    /\ p \in carried
    /\ carried' = {}
    /\ lost' = lost \cup {p[2]}
    /\ UNCHANGED <<stored, held, asked>>

Next ==
    \/ \E m \in Mail : Ask(m) \/ \E b \in Box : Store(m, b)
    \/ \E D \in SUBSET held : Discard(D)
    \/ \E p \in Box \X Mail :
         TakeUp(p) \/ Drop(p) \/ \E b \in Box : Copy(p, b) \/ PutDown(p, b)

Spec == Init /\ [][Next]_vars

=============================================================================
