------------------------------ MODULE BlobRefs ------------------------------
(***************************************************************************)
(* What the body store promises about one body, whatever its processes do: *)
(* a row that points at the body is recorded only while the body is        *)
(* stored, and the last copy is given up only when no row points at it.    *)
(* BlobStore implements this with files, marks and renames.                *)
(***************************************************************************)
CONSTANT Refs     \* the rows (attachments, transcripts) that can point at the body

VARIABLES live,   \* the rows that point at it and are not purged
          stored  \* whether any copy of the content is left in the store

vars == <<live, stored>>

TypeOK == live \subseteq Refs /\ stored \in BOOLEAN

Init == live = {} /\ stored = FALSE

Store == stored' = TRUE /\ UNCHANGED live

Record(r) == stored /\ live' = live \cup {r} /\ UNCHANGED stored

Purge(S) == live' = live \ S /\ UNCHANGED stored

Discard == live = {} /\ stored' = FALSE /\ UNCHANGED live

Next == \/ Store
        \/ \E r \in Refs : Record(r)
        \/ \E S \in SUBSET Refs : Purge(S)
        \/ Discard

Spec == Init /\ [][Next]_vars
=============================================================================
