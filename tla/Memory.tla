------------------------------- MODULE Memory -------------------------------
(***************************************************************************)
(* One row of a project's memory (a handoff, a decision or a caveat), its  *)
(* history of versions, the bodies of these versions and the records of    *)
(* the bodies that were taken away.  Every action is one transaction,      *)
(* which begins by locking the memory's row (store.MemoryByKey with        *)
(* FOR UPDATE), so that they come one after the other.                     *)
(*                                                                         *)
(* A content is the sequence of the sections it consists of.  A draft row  *)
(* (version 0, deleted) and no row at all are the same to every reader.    *)
(***************************************************************************)
EXTENDS Naturals, Sequences, SequencesExt

CONSTANTS
  Texts,              \* the sections that are written
  NoText,
  Keys,               \* the idempotency keys of appends
  NoKey,
  MaxMemoryVersions,  \* how many versions keep their bodies
  MaxMemoryBytes      \* the longest content, in sections

ASSUME MemoryAssumption ==
  /\ MaxMemoryVersions \in Nat \ {0} /\ MaxMemoryBytes \in Nat
  /\ NoText \notin Texts /\ NoKey \notin Keys

VARIABLES
  memory,    \* the row: the current version, its content, whether it is marked deleted
  versions,  \* memory_versions: every version there was; text is the section it brought
  bodies,    \* memory_bodies: the contents of versions that were not taken away
  purges     \* memory_purges: the ranges of versions whose bodies were taken away

memoryVars == <<memory, versions, bodies, purges>>

Contents == Seq(Texts)
MemoryRow     == [version : Nat, content : Contents, deleted : BOOLEAN]
MemoryVersion == [version : Nat \ {0}, key : Keys \cup {NoKey}, text : Texts \cup {NoText}]
MemoryBody    == [version : Nat \ {0}, content : Contents]
MemoryPurge   == [from : Nat, through : Nat]

MemoryTypeOK ==
  /\ memory \in MemoryRow
  /\ versions \subseteq MemoryVersion
  /\ bodies \subseteq MemoryBody
  /\ purges \subseteq MemoryPurge

MemoryInit ==
  /\ memory = [version |-> 0, content |-> <<>>, deleted |-> TRUE]
  /\ versions = {} /\ bodies = {} /\ purges = {}

-----------------------------------------------------------------------------
(* Taking bodies away. *)

\* Faulty variant: one body too many stays.
BeyondNext(S) == {b \in S : Cardinality({c \in S : c.version > b.version}) > MaxMemoryVersions}

\* MemoryVersionsBeyond: the bodies of S that have MaxMemoryVersions newer ones.
Beyond(S) == {b \in S : Cardinality({c \in S : c.version > b.version}) >= MaxMemoryVersions}

\* first and last are the oldest and the newest of the bodies S.
Spans(first, last, S) == \A b \in S : first.version <= b.version /\ b.version <= last.version

\* thinMemoryBodies, on the bodies that the same transaction leaves behind
Thin(added) ==
  LET gone == Beyond(added) IN
  /\ bodies' = added \ gone
  /\ \/ gone = {} /\ UNCHANGED purges
     \/ \E first, last \in gone :
          /\ Spans(first, last, gone)
          /\ purges' = purges \cup {[from |-> first.version, through |-> last.version]}

\* Faulty variant: the row loses its content and keeps its version.
Emptied == [memory EXCEPT !.content = <<>>, !.deleted = TRUE]

\* ClearMemoryContent: a replacement that was prepared before the purge no longer fits.
Cleared == [version |-> memory.version + 1, content |-> <<>>, deleted |-> TRUE]

\* Faulty variant: the record ends with the last body.
ThroughBody(last) == last.version

\* The record of a purge of the current body covers the version without a body that follows.
ThroughVersion(last) == IF last.version = memory.version THEN memory.version + 1 ELSE last.version

\* applyMemoryPurge
ApplyPurge(chosen) ==
  \E first, last \in chosen :
    /\ Spans(first, last, chosen)
    /\ bodies' = bodies \ chosen
    /\ purges' = purges \cup {[from |-> first.version, through |-> ThroughVersion(last)]}
    /\ IF last.version = memory.version
       THEN /\ memory' = Cleared
            /\ versions' = versions \cup {[version |-> memory.version + 1,
                                           key |-> NoKey, text |-> NoText]}
       ELSE UNCHANGED <<memory, versions>>

Includes(content, text) == \E i, j \in 1..Len(content) : SubSeq(content, i, j) = text

\* pickMemoryBodies: a text that a later version repeats is not taken away.
TextRemains(b) ==
  /\ b.content # <<>>
  /\ \E later \in bodies : later.version > b.version /\ Includes(later.content, b.content)

PurgeMemoryVersion(n) ==
  \E b \in bodies : b.version = n /\ ~TextRemains(b) /\ ApplyPurge({b})

PurgeAllVersions == bodies # {} /\ ApplyPurge(bodies)

(***************************************************************************)
(* ExpiredMemoryVersions: the versions up to n are older than the          *)
(* retention period.  The current one goes only when it is marked deleted. *)
(***************************************************************************)
Expired(n) == {b \in bodies : b.version <= n /\ (b.version < memory.version \/ memory.deleted)}
PurgeExpiredMemories(n) == Expired(n) # {} /\ ApplyPurge(Expired(n))

-----------------------------------------------------------------------------
(* WriteMemory *)

Exists == memory.version > 0 /\ ~memory.deleted
Fits(content) == Len(content) <= MaxMemoryBytes

WriteMemory(deleted, key, text, content) ==
  LET n == memory.version + 1 IN
  /\ memory' = [version |-> n, content |-> content, deleted |-> deleted]
  /\ versions' = versions \cup {[version |-> n, key |-> key, text |-> text]}
  /\ Thin(bodies \cup {[version |-> n, content |-> content]})

\* MemoryVersionByIdempotencyKey finds a version, be its body there or not.
Written(key) == \E v \in versions : v.key = key /\ key # NoKey

\* Faulty variant: a version whose body was taken away is not found.
WrittenBody(key) == \E v \in versions : v.key = key /\ key # NoKey /\ \E b \in bodies : b.version = v.version

\* An append sent again with its key adds nothing and is answered like the first.
AppendedBefore(key) == Written(key)

Joined(text) == Append(IF Exists THEN memory.content ELSE <<>>, text)

AppendMemory(key, text) ==
  /\ ~AppendedBefore(key) /\ Fits(Joined(text))
  /\ WriteMemory(FALSE, key, text, Joined(text))

CreateMemory(text) ==
  /\ ~Exists /\ Fits(<<text>>)
  /\ WriteMemory(FALSE, NoKey, text, <<text>>)

ReplaceMemory(expected, kept, text) ==
  /\ memory.version = expected /\ Fits(Append(kept, text))
  /\ WriteMemory(FALSE, NoKey, text, Append(kept, text))

DeleteMemory ==
  /\ Exists
  /\ WriteMemory(TRUE, NoKey, NoText, memory.content)

MemoryNext ==
  \/ \E key \in Keys \cup {NoKey}, text \in Texts : AppendMemory(key, text)
  \/ \E text \in Texts : CreateMemory(text)
  \/ \E expected \in Nat, kept \in Contents, text \in Texts : ReplaceMemory(expected, kept, text)
  \/ DeleteMemory
  \/ \E n \in Nat : PurgeMemoryVersion(n) \/ PurgeExpiredMemories(n)
  \/ PurgeAllVersions

MemorySpec == MemoryInit /\ [][MemoryNext]_memoryVars

-----------------------------------------------------------------------------
(* What the history promises. *)

\* The versions are numbered 1, 2, 3, ... up to the current one, each once, and only they have bodies.
Numbered ==
  /\ IsFiniteSet(bodies)
  /\ \A n \in 1..memory.version : \E v \in versions : v.version = n
  /\ \A v \in versions \cup bodies : v.version <= memory.version
  /\ \A v, w \in versions : v.version = w.version => v = w
  /\ \A b, c \in bodies : b.version = c.version => b = c
  /\ \A p \in purges : p.through <= memory.version

HasBody(n) == \E b \in bodies : b.version = n

(***************************************************************************)
(* A version without a body is one that a record accounts for, and nothing *)
(* that a record covers can still be read: deletions, thinning, retention  *)
(* and purges of single versions in any order (memory_purge.go:118-152).   *)
(***************************************************************************)
Accounted ==
  \A v \in versions :
    ~HasBody(v.version) <=> \E p \in purges : p.from <= v.version /\ v.version <= p.through

\* The row and the body of its version never disagree; without a body the row is empty.
RowIsBody ==
  IF HasBody(memory.version)
  THEN \A b \in bodies : b.version = memory.version => b.content = memory.content
  ELSE memory.deleted /\ memory.content = <<>>

\* A key stands for one version, whatever is sent again and in whatever order.
KeyOnce == \A v, w \in versions : v.key = w.key /\ v.key # NoKey => v = w

History == INSTANCE MemoryHistory WITH last <- memory.version, shown <- bodies, Kept <- MaxMemoryVersions

(***************************************************************************)
(* To its readers the memory is a MemoryHistory: what a version says never *)
(* changes, what was taken away stays away, only the oldest give way to    *)
(* new ones, and an edit of a content that was purged no longer fits.      *)
(***************************************************************************)
ImplementsHistory == History!Spec

\* The inductive invariant of MemoryProofs.
MemoryInv == MemoryTypeOK /\ Numbered /\ Accounted /\ RowIsBody /\ KeyOnce
=============================================================================
