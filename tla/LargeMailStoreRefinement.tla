---------------------- MODULE LargeMailStoreRefinement ----------------------
(***************************************************************************)
(* LargeMailStore as an implementation of MailShelf: a box holds the mails *)
(* it has a readable row of.                                               *)
(***************************************************************************)
EXTENDS LargeMailStore

Shown(s) == Present(s) /\ Readable(s)

Held == {<<s[1], mail[s]>> : s \in {x \in Slot : Shown(x)}}

\* The file a move has renamed, until its row is inserted.
Carried ==
    IF task.op = "insert" /\ task.path # NoPath
      THEN {<<task.from[1], m>> : m \in {mail[task.from]} \cap {files[task.path]}}
      ELSE {}

Stored == {m \in Msg : pc[m] = "done"}

Shelf == INSTANCE MailShelf WITH
    Mail <- Msg, stored <- Stored, held <- Held, carried <- Carried,
    asked <- everFlagged, lost <- stranded

\* Every statement, rename, removal, failure and crash of the storage and of
\* the migration is a step of MailShelf or changes nothing a reader sees: a
\* mail leaves a box only on request, with a readable copy elsewhere, or in
\* the hands of a move; and a mail that is gone, whatever files and ids are
\* left of it, is never shown again.
ImplementsShelf == Shelf!Spec

=============================================================================
