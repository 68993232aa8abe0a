---------------------------- MODULE MemoryProofs ----------------------------
(***************************************************************************)
(* The history of a memory is whole, and every body that is missing is     *)
(* accounted for, whatever is written and purged and for any limits.       *)
(***************************************************************************)
EXTENDS Memory, FiniteSetTheorems, WellFoundedInduction, TLAPS

-----------------------------------------------------------------------------
(* Which bodies go. *)

\* What is removed lies between two bodies without anything else between them.
Closed(chosen) ==
  \A b \in bodies, first, last \in chosen :
    first.version <= b.version /\ b.version <= last.version => b \in chosen

\* Thinning keeps the newest body, and takes with a body all that are older.
LEMMA BeyondIsOldest ==
  ASSUME MemoryAssumption, NEW S \in SUBSET MemoryBody, IsFiniteSet(S)
  PROVE  /\ \A b \in S : (\A c \in S : c.version <= b.version) => b \notin Beyond(S)
         /\ \A b \in S, last \in Beyond(S) : b.version <= last.version => b \in Beyond(S)
<1> DEFINE Newer(b) == {c \in S : c.version > b.version}
<1>1. \A b \in S : IsFiniteSet(Newer(b)) /\ Cardinality(Newer(b)) \in Nat
  BY FS_Subset, FS_CardinalityType
<1>2. ASSUME NEW b \in S, \A c \in S : c.version <= b.version
      PROVE  b \notin Beyond(S)
  <2>1. Newer(b) = {}
    BY <1>2 DEF MemoryBody
  <2>2. Cardinality(Newer(b)) = 0
    BY <2>1, FS_EmptySet
  <2> QED  BY <2>2 DEF Beyond, MemoryAssumption
<1>3. ASSUME NEW b \in S, NEW last \in Beyond(S), b.version <= last.version
      PROVE  b \in Beyond(S)
  <2>1. last \in S /\ Cardinality(Newer(last)) >= MaxMemoryVersions
    BY DEF Beyond
  <2>2. Newer(last) \in SUBSET Newer(b)
    BY <1>3, <2>1 DEF MemoryBody
  <2>3. Cardinality(Newer(last)) <= Cardinality(Newer(b))
    BY <1>1, <2>2, FS_Subset
  <2>4. Cardinality(Newer(b)) \in Nat /\ Cardinality(Newer(last)) \in Nat
    BY <1>1, <2>1
  <2> HIDE DEF Newer
  <2>5. Cardinality(Newer(b)) >= MaxMemoryVersions
    BY <2>1, <2>3, <2>4 DEF MemoryAssumption
  <2> QED  BY <2>5 DEF Beyond, Newer
<1> QED  BY <1>2, <1>3

\* The three selections of pickMemoryBodies and ExpiredMemoryVersions leave nothing between.
LEMMA Selections ==
  ASSUME MemoryInv
  PROVE  /\ \A b \in bodies : Closed({b})
         /\ Closed(bodies)
         /\ \A n \in Nat : Closed(Expired(n))
<1>1. \A b \in bodies : Closed({b})
  BY DEF Closed, MemoryInv, Numbered, MemoryTypeOK, MemoryBody
<1>2. Closed(bodies)
  BY DEF Closed
<1>3. ASSUME NEW n \in Nat, NEW b \in bodies, NEW first \in Expired(n), NEW last \in Expired(n),
             first.version <= b.version, b.version <= last.version
      PROVE  b \in Expired(n)
  <2>1. b.version \in Nat /\ last.version \in Nat /\ memory.version \in Nat /\ last \in bodies
    BY DEF MemoryInv, MemoryTypeOK, MemoryBody, MemoryRow, Expired
  <2>2. b.version <= n
    BY <1>3, <2>1 DEF Expired
  <2>3. last.version <= memory.version
    BY <2>1 DEF MemoryInv, Numbered
  <2>4. b.version < memory.version \/ memory.deleted
    BY <1>3, <2>1, <2>3 DEF Expired
  <2> QED  BY <2>2, <2>4 DEF Expired
<1> QED  BY <1>1, <1>2, <1>3 DEF Closed

-----------------------------------------------------------------------------
(* The steps. *)

\* Every write leaves a whole history.
LEMMA WriteStep ==
  ASSUME MemoryAssumption, MemoryInv,
         NEW deleted \in BOOLEAN, NEW key \in Keys \cup {NoKey}, NEW text \in Texts \cup {NoText},
         NEW content \in Contents, ~Written(key), WriteMemory(deleted, key, text, content)
  PROVE  MemoryInv'
<1> DEFINE n == memory.version + 1
           body == [version |-> n, content |-> content]
           version == [version |-> n, key |-> key, text |-> text]
           added == bodies \cup {body}
           gone == Beyond(added)
<1>1. /\ memory' = [version |-> n, content |-> content, deleted |-> deleted]
      /\ versions' = versions \cup {version}
      /\ bodies' = added \ gone
  BY DEF WriteMemory, Thin
<1>2. memory.version \in Nat /\ n \in Nat \ {0} /\ n > memory.version
  BY DEF MemoryInv, MemoryTypeOK, MemoryRow
<1>3. added \in SUBSET MemoryBody /\ IsFiniteSet(added)
  <2>1. IsFiniteSet(added)
    BY FS_AddElement DEF MemoryInv, Numbered
  <2> QED  BY <1>2, <2>1 DEF MemoryInv, MemoryTypeOK, MemoryBody
<1>4. \A v \in versions \cup bodies : v.version \in Nat /\ v.version <= memory.version
  BY DEF MemoryInv, MemoryTypeOK, Numbered, MemoryVersion, MemoryBody
<1>5. \A b \in added : b.version \in Nat /\ b.version <= n
  BY <1>2, <1>4
<1>6. body \in bodies'
  BY <1>1, <1>3, <1>5, BeyondIsOldest
<1>7. /\ purges' \subseteq MemoryPurge
      /\ \A p \in purges' : p.through <= n
      /\ \A p \in purges : p \in purges'
      /\ \A p \in purges' \ purges : \E first, last \in gone :
            p.from = first.version /\ p.through = last.version
  <2>1. \A b \in gone : b \in added
    BY DEF Beyond
  <2>2. \A p \in purges : p \in MemoryPurge /\ p.through <= n
    BY <1>2 DEF MemoryInv, MemoryTypeOK, Numbered, MemoryPurge
  <2>3. CASE UNCHANGED purges
    BY <2>2, <2>3
  <2>4. CASE \E first, last \in gone :
               Spans(first, last, gone) /\ purges' = purges \cup {[from |-> first.version, through |-> last.version]}
    <3>1. PICK first \in gone, last \in gone :
             Spans(first, last, gone) /\ purges' = purges \cup {[from |-> first.version, through |-> last.version]}
      BY <2>4
    <3>2. first.version \in Nat /\ last.version \in Nat /\ last.version <= n
      BY <1>5, <2>1
    <3> DEFINE record == [from |-> first.version, through |-> last.version]
    <3>3. record \in MemoryPurge /\ record.through <= n /\ record.from = first.version /\ record.through = last.version
      BY <3>2 DEF MemoryPurge
    <3>4. purges' = purges \cup {record}
      BY <3>1
    <3> HIDE DEF record, gone
    <3> QED  BY <2>2, <3>3, <3>4
  <2> QED  BY <2>3, <2>4 DEF WriteMemory, Thin
<1>8. gone # {} => \E p \in purges' : \A b \in gone : p.from <= b.version /\ b.version <= p.through
  <2>1. gone # {} => \E first, last \in gone :
           Spans(first, last, gone) /\ purges' = purges \cup {[from |-> first.version, through |-> last.version]}
    BY DEF WriteMemory, Thin
  <2> SUFFICES ASSUME gone # {}
               PROVE  \E p \in purges' : \A b \in gone : p.from <= b.version /\ b.version <= p.through
    OBVIOUS
  <2>2. PICK first \in gone, last \in gone :
           Spans(first, last, gone) /\ purges' = purges \cup {[from |-> first.version, through |-> last.version]}
    BY <2>1
  <2> DEFINE record == [from |-> first.version, through |-> last.version]
  <2>3. record \in purges' /\ record.from = first.version /\ record.through = last.version
    BY <2>2
  <2> HIDE DEF gone, record
  <2> QED  BY <2>2, <2>3 DEF Spans
<1>9. MemoryTypeOK'
  BY <1>1, <1>2, <1>3, <1>7 DEF MemoryInv, MemoryTypeOK, MemoryRow, MemoryVersion
<1>14. /\ version.version = n /\ body.version = n /\ body.content = content
       /\ body \in added /\ \A b \in gone : b \in added
       /\ \A b \in added : b \in bodies \/ b = body
       /\ \A b \in bodies : b \in added
  BY DEF Beyond
<1>15. memory'.version = n /\ memory'.content = content
  BY <1>1
<1>16. \A b \in added, last \in gone : b.version <= last.version => b \in gone
  BY <1>3, BeyondIsOldest
<1> HIDE DEF version, body, added, gone
<1>10. Numbered'
  <2>1. IsFiniteSet(bodies')
    BY <1>1, <1>3, FS_Subset
  <2>2. \A m \in 1..n : \E v \in versions' : v.version = m
    <3>1. \A m \in 1..n : m \in 1..memory.version \/ m = n
      BY <1>2
    <3> QED  BY <1>1, <1>14, <3>1 DEF MemoryInv, Numbered
  <2>3. \A v \in versions' \cup bodies' : v.version <= n
    BY <1>1, <1>2, <1>4, <1>5, <1>14
  <2>4. \A v, w \in versions' : v.version = w.version => v = w
    BY <1>1, <1>2, <1>4, <1>14 DEF MemoryInv, Numbered
  <2>5. \A b, c \in bodies' : b.version = c.version => b = c
    BY <1>1, <1>2, <1>4, <1>14 DEF MemoryInv, Numbered
  <2> QED  BY <1>7, <1>15, <2>1, <2>2, <2>3, <2>4, <2>5 DEF Numbered
<1>11. Accounted'
  <2> SUFFICES ASSUME NEW v \in versions'
               PROVE  ~HasBody(v.version)' <=> \E p \in purges' : p.from <= v.version /\ v.version <= p.through
    BY DEF Accounted
  <2>1. CASE v = version
    <3>1. HasBody(v.version)'
      BY <1>6, <1>14, <2>1 DEF HasBody
    <3>2. \A p \in purges : ~(v.version <= p.through)
      BY <1>2, <1>14, <2>1 DEF MemoryInv, Numbered, MemoryTypeOK, MemoryPurge
    <3>3. ASSUME NEW p \in purges' \ purges, p.from <= v.version, v.version <= p.through
          PROVE  FALSE
      <4>1. PICK last \in gone : p.through = last.version
        BY <1>7
      <4>2. body.version <= last.version
        BY <1>14, <2>1, <3>3, <4>1
      <4>3. body \in gone
        BY <1>14, <1>16, <4>2
      <4> QED  BY <1>1, <1>6, <4>3
    <3> QED  BY <3>1, <3>2, <3>3
  <2>2. CASE v \in versions
    <3>1. v.version # n
      BY <1>2, <1>4, <2>2
    <3>2. HasBody(v.version)' => HasBody(v.version)
      BY <1>1, <1>14, <3>1 DEF HasBody
    <3>3. CASE ~HasBody(v.version)
      BY <1>7, <2>2, <3>2, <3>3 DEF MemoryInv, Accounted
    <3>4. CASE HasBody(v.version)
      <4>1. PICK b \in bodies : b.version = v.version
        BY <3>4 DEF HasBody
      <4>2. \A p \in purges : ~(p.from <= v.version /\ v.version <= p.through)
        BY <2>2, <3>4 DEF MemoryInv, Accounted
      <4>3. CASE b \in gone
        <5>1. ~HasBody(v.version)'
          BY <1>1, <1>14, <3>1, <4>1, <4>3 DEF HasBody, MemoryInv, Numbered
        <5> QED  BY <1>8, <4>1, <4>3, <5>1
      <4>4. CASE b \notin gone
        <5>1. HasBody(v.version)'
          BY <1>1, <1>14, <4>1, <4>4 DEF HasBody
        <5>2. ASSUME NEW p \in purges' \ purges, p.from <= v.version, v.version <= p.through
              PROVE  FALSE
          <6>1. PICK last \in gone : p.through = last.version
            BY <1>7
          <6> QED  BY <1>14, <1>16, <4>1, <4>4, <5>2, <6>1
        <5> QED  BY <4>2, <5>1, <5>2
      <4> QED  BY <4>3, <4>4
    <3> QED  BY <3>3, <3>4
  <2> QED  BY <1>1, <2>1, <2>2
<1>12. RowIsBody'
  <2>1. \A b \in bodies' : b.version = n => b = body
    BY <1>6, <1>10, <1>14 DEF Numbered
  <2> QED  BY <1>6, <1>14, <1>15, <2>1 DEF RowIsBody, HasBody
<1>13. KeyOnce'
  BY <1>1 DEF MemoryInv, KeyOnce, Written, version
<1> QED  BY <1>9, <1>10, <1>11, <1>12, <1>13 DEF MemoryInv

\* Every purge leaves a whole history.
LEMMA PurgeStep ==
  ASSUME MemoryInv, NEW chosen \in SUBSET bodies, Closed(chosen), ApplyPurge(chosen)
  PROVE  MemoryInv'
<1>1. PICK first \in chosen, last \in chosen :
         /\ Spans(first, last, chosen)
         /\ bodies' = bodies \ chosen
         /\ purges' = purges \cup {[from |-> first.version, through |-> ThroughVersion(last)]}
         /\ IF last.version = memory.version
            THEN /\ memory' = Cleared
                 /\ versions' = versions \cup {[version |-> memory.version + 1, key |-> NoKey, text |-> NoText]}
            ELSE UNCHANGED <<memory, versions>>
  BY DEF ApplyPurge
<1> DEFINE n == memory.version + 1
           record == [from |-> first.version, through |-> ThroughVersion(last)]
<1>2. \A v \in versions \cup bodies : v.version \in Nat /\ v.version <= memory.version
  BY DEF MemoryInv, MemoryTypeOK, Numbered, MemoryVersion, MemoryBody
<1>3. /\ memory.version \in Nat /\ n \in Nat /\ n > memory.version
      /\ first.version \in Nat /\ last.version \in Nat /\ last.version <= memory.version
  BY <1>2 DEF MemoryInv, MemoryTypeOK, MemoryRow
<1>4. /\ ThroughVersion(last) \in Nat /\ ThroughVersion(last) <= memory'.version
      /\ memory'.version \in {memory.version, n}
  BY <1>1, <1>3 DEF ThroughVersion, Cleared
<1>5. MemoryTypeOK'
  <2>1. record \in MemoryPurge
    BY <1>3, <1>4 DEF MemoryPurge
  <2>2. memory' \in MemoryRow
    <3>1. <<>> \in Contents
      BY DEF Contents
    <3>2. Cleared \in MemoryRow
      BY <1>3, <3>1 DEF MemoryRow, Cleared
    <3> QED  BY <1>1, <3>2 DEF MemoryInv, MemoryTypeOK
  <2>3. versions' \subseteq MemoryVersion
    BY <1>1, <1>3 DEF MemoryInv, MemoryTypeOK, MemoryVersion
  <2> QED  BY <1>1, <2>1, <2>2, <2>3 DEF MemoryInv, MemoryTypeOK
<1>6. Numbered'
  <2>1. IsFiniteSet(bodies')
    BY <1>1, FS_Subset DEF MemoryInv, Numbered
  <2>2. \A p \in purges' : p.through <= memory'.version
    BY <1>1, <1>3, <1>4 DEF MemoryInv, Numbered, MemoryTypeOK, MemoryPurge
  <2>3. \A b, c \in bodies' : b.version = c.version => b = c
    BY <1>1 DEF MemoryInv, Numbered
  <2>4. CASE last.version = memory.version
    <3>1. \A m \in 1..n : m \in 1..memory.version \/ m = n
      BY <1>3
    <3> DEFINE empty == [version |-> memory.version + 1, key |-> NoKey, text |-> NoText]
    <3>5. versions' = versions \cup {empty} /\ empty.version = n
      BY <1>1, <2>4
    <3> HIDE DEF empty
    <3>2. \A m \in 1..n : \E v \in versions' : v.version = m
      BY <3>1, <3>5 DEF MemoryInv, Numbered
    <3>3. \A v \in versions' \cup bodies' : v.version <= n
      BY <1>1, <1>2, <1>3, <2>4
    <3>4. \A v, w \in versions' : v.version = w.version => v = w
      BY <1>1, <1>2, <1>3, <2>4 DEF MemoryInv, Numbered
    <3> QED  BY <1>1, <2>1, <2>2, <2>3, <2>4, <3>2, <3>3, <3>4 DEF Numbered, Cleared
  <2>5. CASE last.version # memory.version
    BY <1>1, <2>1, <2>2, <2>3, <2>5 DEF MemoryInv, Numbered
  <2> QED  BY <2>4, <2>5
<1>7. Accounted'
  <2> SUFFICES ASSUME NEW v \in versions'
               PROVE  ~HasBody(v.version)' <=> \E p \in purges' : p.from <= v.version /\ v.version <= p.through
    BY DEF Accounted
  <2>1. CASE v \notin versions
    <3>1. v.version = n /\ last.version = memory.version
      BY <1>1, <2>1
    <3>2. ~HasBody(v.version)'
      BY <1>1, <1>2, <1>3, <3>1 DEF HasBody
    <3>3. first.version <= v.version /\ v.version <= ThroughVersion(last)
      BY <1>1, <1>3, <3>1 DEF Spans, ThroughVersion
    <3>4. record \in purges' /\ record.from = first.version /\ record.through = ThroughVersion(last)
      BY <1>1
    <3> HIDE DEF record
    <3> QED  BY <3>2, <3>3, <3>4
  <2>2. CASE v \in versions
    <3>1. v.version \in Nat /\ v.version <= memory.version
      BY <1>2, <2>2
    <3>2. v.version <= ThroughVersion(last) => v.version <= last.version
      BY <1>3, <3>1 DEF ThroughVersion
    <3>3. last.version <= ThroughVersion(last)
      BY <1>3 DEF ThroughVersion
    <3>4. CASE ~HasBody(v.version)
      BY <1>1, <2>2, <3>4 DEF MemoryInv, Accounted, HasBody
    <3>5. CASE HasBody(v.version)
      <4>1. PICK b \in bodies : b.version = v.version
        BY <3>5 DEF HasBody
      <4>2. HasBody(v.version)' <=> b \notin chosen
        BY <1>1, <4>1 DEF HasBody, MemoryInv, Numbered
      <4>3. b \in chosen <=> first.version <= v.version /\ v.version <= ThroughVersion(last)
        <5>1. b \in chosen => first.version <= b.version /\ b.version <= last.version
          BY <1>1 DEF Spans
        <5>2. first.version <= b.version /\ b.version <= last.version => b \in chosen
          BY DEF Closed
        <5> QED  BY <1>3, <1>4, <3>1, <3>2, <3>3, <4>1, <5>1, <5>2
      <4>4. /\ purges' = purges \cup {record}
            /\ record.from = first.version /\ record.through = ThroughVersion(last)
        BY <1>1
      <4>5. \A p \in purges : ~(p.from <= v.version /\ v.version <= p.through)
        BY <2>2, <3>5 DEF MemoryInv, Accounted
      <4> HIDE DEF record
      <4> QED  BY <4>2, <4>3, <4>4, <4>5
    <3> QED  BY <3>4, <3>5
  <2> QED  BY <2>1, <2>2
<1>8. RowIsBody'
  <2>1. CASE last.version = memory.version
    BY <1>1, <1>2, <1>3, <2>1 DEF RowIsBody, HasBody, Cleared
  <2>2. CASE last.version # memory.version
    <3>1. \A b \in chosen : b.version # memory.version
      BY <1>1, <1>2, <1>3, <2>2 DEF Spans
    <3> QED  BY <1>1, <2>2, <3>1 DEF MemoryInv, RowIsBody, HasBody
  <2> QED  BY <2>1, <2>2
<1>9. KeyOnce'
  BY <1>1 DEF MemoryInv, KeyOnce
<1> QED  BY <1>5, <1>6, <1>7, <1>8, <1>9 DEF MemoryInv

\* Which write and which purge a step is.
LEMMA MemoryStep ==
  ASSUME MemoryAssumption, MemoryInv, [MemoryNext]_memoryVars
  PROVE  MemoryInv'
<1>1. memory.content \in Contents
  BY DEF MemoryInv, MemoryTypeOK, MemoryRow
<1>2. ~Written(NoKey)
  BY DEF Written
<1>3. ASSUME NEW key \in Keys \cup {NoKey}, NEW text \in Texts, AppendMemory(key, text)
      PROVE  MemoryInv'
  <2>1. Joined(text) \in Contents
    BY <1>1 DEF Joined, Contents
  <2> QED  BY <1>3, <2>1, WriteStep DEF AppendMemory, AppendedBefore
<1>4. ASSUME NEW text \in Texts, CreateMemory(text)
      PROVE  MemoryInv'
  <2>1. <<text>> \in Contents
    BY DEF Contents
  <2> QED  BY <1>2, <1>4, <2>1, WriteStep DEF CreateMemory
<1>5. ASSUME NEW expected \in Nat, NEW kept \in Contents, NEW text \in Texts, ReplaceMemory(expected, kept, text)
      PROVE  MemoryInv'
  <2>1. Append(kept, text) \in Contents
    BY DEF Contents
  <2> QED  BY <1>2, <1>5, <2>1, WriteStep DEF ReplaceMemory
<1>6. CASE DeleteMemory
  BY <1>1, <1>2, <1>6, WriteStep DEF DeleteMemory
<1>7. ASSUME NEW n \in Nat, PurgeMemoryVersion(n)
      PROVE  MemoryInv'
  BY <1>7, Selections, PurgeStep DEF PurgeMemoryVersion
<1>8. ASSUME NEW n \in Nat, PurgeExpiredMemories(n)
      PROVE  MemoryInv'
  <2>1. Expired(n) \subseteq bodies
    BY DEF Expired
  <2> QED  BY <1>8, <2>1, Selections, PurgeStep DEF PurgeExpiredMemories
<1>9. CASE PurgeAllVersions
  BY <1>9, Selections, PurgeStep DEF PurgeAllVersions
<1>10. CASE UNCHANGED memoryVars
  BY <1>10 DEF memoryVars, MemoryInv, MemoryTypeOK, Numbered, Accounted, RowIsBody, HasBody, KeyOnce
<1> QED  BY <1>3, <1>4, <1>5, <1>6, <1>7, <1>8, <1>9, <1>10 DEF MemoryNext

\* No version, no body, no record.
LEMMA MemoryStart == MemoryInit => MemoryInv
<1> SUFFICES ASSUME MemoryInit PROVE MemoryInv
  OBVIOUS
<1>1. MemoryTypeOK
  BY DEF MemoryInit, MemoryTypeOK, MemoryRow, Contents
<1>2. Numbered
  BY FS_EmptySet DEF MemoryInit, Numbered
<1> QED  BY <1>1, <1>2 DEF MemoryInit, MemoryInv, Accounted, RowIsBody, HasBody, KeyOnce

(***************************************************************************)
(* For any limits and any order of writes, thinning, retention and purges: *)
(* versions are numbered without a gap, the row agrees with its body, and  *)
(* a body is missing if and only if a record of a purge covers it.         *)
(***************************************************************************)
THEOREM MemoryAccounted == MemorySpec => []MemoryInv
<1>1. MemoryInv /\ [MemoryNext]_memoryVars => MemoryInv'
  BY MemoryStep, MemoryAssumption
<1> QED  BY <1>1, MemoryStart, PTL DEF MemorySpec

-----------------------------------------------------------------------------
(* The memory is a history. *)

\* A set of natural numbers has a smallest one.
LEMMA Smallest ==
  ASSUME NEW S \in SUBSET Nat, S # {}
  PROVE  \E m \in S : \A n \in S : m <= n
<1> DEFINE R == {ss \in Nat \X Nat : ss[1] < ss[2]}
<1>1. OpToRel(<, Nat) = R
  BY Zenon DEF OpToRel
<1>2. IsWellFoundedOn(R, Nat)
  BY <1>1, NatLessThanWellFounded, Zenon
<1>3. PICK m \in S : \A n \in S : <<n, m>> \notin R
  <2> HIDE DEF R
  <2> QED  BY <1>2, WFMin
<1>4. ASSUME NEW n \in S
      PROVE  m <= n
  <2>1. ~(n < m)
    BY <1>3
  <2> QED  BY <2>1
<1> QED  BY <1>4

\* Thinning leaves at most MaxMemoryVersions bodies, ...
LEMMA BeyondLeavesFew ==
  ASSUME MemoryAssumption, NEW S \in SUBSET MemoryBody, IsFiniteSet(S),
         \A b, c \in S : b.version = c.version => b = c
  PROVE  Cardinality(S \ Beyond(S)) <= MaxMemoryVersions
<1> DEFINE rest == S \ Beyond(S)
<1>1. MaxMemoryVersions \in Nat \ {0}
  BY DEF MemoryAssumption
<1>2. IsFiniteSet(rest) /\ Cardinality(rest) \in Nat
  BY FS_Subset, FS_CardinalityType
<1>3. CASE rest = {}
  BY <1>1, <1>3, FS_EmptySet
<1>4. CASE rest # {}
  <2>1. \A b \in S : b.version \in Nat
    BY DEF MemoryBody
  <2>2. PICK o \in rest : \A b \in rest : o.version <= b.version
    <3>1. {b.version : b \in rest} \in SUBSET Nat /\ {b.version : b \in rest} # {}
      BY <1>4, <2>1
    <3>2. \E m \in {b.version : b \in rest} : \A n \in {b.version : b \in rest} : m <= n
      <4> HIDE DEF rest
      <4> QED  BY <3>1, Smallest
    <3> QED  BY <3>2
  <2> DEFINE newer == {c \in S : c.version > o.version}
  <2>3. rest \ {o} \subseteq newer
    <3> SUFFICES ASSUME NEW b \in rest, b # o
                 PROVE  b.version > o.version
      OBVIOUS
    <3>1. o.version <= b.version /\ b.version # o.version /\ b \in S /\ o \in S
      BY <2>2
    <3> QED  BY <2>1, <3>1
  <2>4. IsFiniteSet(newer) /\ Cardinality(newer) \in Nat /\ Cardinality(newer) < MaxMemoryVersions
    <3>1. IsFiniteSet(newer) /\ Cardinality(newer) \in Nat
      BY FS_Subset, FS_CardinalityType
    <3>2. ~(Cardinality(newer) >= MaxMemoryVersions)
      BY DEF Beyond
    <3> QED  BY <1>1, <3>1, <3>2
  <2> HIDE DEF newer, rest
  <2>5. Cardinality(rest \ {o}) = Cardinality(rest) - 1
    BY <1>2, <2>2, FS_RemoveElement
  <2>6. Cardinality(rest \ {o}) <= Cardinality(newer)
    BY <2>3, <2>4, FS_Subset
  <2>7. Cardinality(rest) <= MaxMemoryVersions
    BY <1>1, <1>2, <2>4, <2>5, <2>6
  <2> QED  BY <2>7 DEF rest
<1> QED  BY <1>3, <1>4

\* ... and no fewer when it takes one.
LEMMA BeyondLeavesEnough ==
  ASSUME MemoryAssumption, NEW S \in SUBSET MemoryBody, IsFiniteSet(S),
         NEW newest \in Beyond(S), \A b \in Beyond(S) : b.version <= newest.version
  PROVE  Cardinality(S \ Beyond(S)) >= MaxMemoryVersions
<1> DEFINE newer == {c \in S : c.version > newest.version}
           rest == S \ Beyond(S)
<1>1. \A b \in S : b.version \in Nat
  BY DEF MemoryBody
<1>2. newest \in S /\ Cardinality(newer) >= MaxMemoryVersions
  BY DEF Beyond
<1>3. newer \subseteq rest
  BY <1>1, <1>2
<1>4. IsFiniteSet(rest) /\ Cardinality(rest) \in Nat /\ IsFiniteSet(newer) /\ Cardinality(newer) \in Nat
  BY FS_Subset, FS_CardinalityType
<1> HIDE DEF newer, rest
<1>5. Cardinality(newer) <= Cardinality(rest)
  BY <1>3, <1>4, FS_Subset
<1>6. Cardinality(rest) >= MaxMemoryVersions
  BY <1>2, <1>4, <1>5 DEF MemoryAssumption
<1> QED  BY <1>6 DEF rest

\* The sizes that MemoryHistory counts are those of the sets of this module.
LEMMA SameSize ==
  ASSUME NEW S
  PROVE  History!Cardinality(S) = Cardinality(S) /\ (History!IsFiniteSet(S) <=> IsFiniteSet(S))
<1>1. History!Cardinality(S) = Cardinality(S)
  BY Zenon DEF History!Cardinality, Cardinality
<1>2. History!IsFiniteSet(S) <=> IsFiniteSet(S)
  BY Zenon DEF History!IsFiniteSet, IsFiniteSet
<1> QED  BY <1>1, <1>2

\* A write is a write of the history.
LEMMA WriteIsHistory ==
  ASSUME MemoryAssumption, MemoryInv,
         NEW deleted, NEW key, NEW text, NEW content \in Contents, WriteMemory(deleted, key, text, content)
  PROVE  History!Write
<1>0. PICK n : n = memory.version + 1
  OBVIOUS
<1>1. PICK new : new = [version |-> n, content |-> content]
  OBVIOUS
<1>2. PICK added : added = bodies \cup {new}
  OBVIOUS
<1>3. memory'.version = n /\ bodies' = added \ Beyond(added)
  BY <1>0, <1>1, <1>2 DEF WriteMemory, Thin
<1>4. n \in Nat \ {0} /\ \A b \in bodies : b.version \in Nat /\ b.version < n
  BY <1>0 DEF MemoryInv, Numbered, MemoryTypeOK, MemoryRow, MemoryBody
<1>5. added \in SUBSET MemoryBody /\ IsFiniteSet(added) /\ new \in MemoryBody /\ new.version = n
  <2>1. IsFiniteSet(added)
    BY <1>2, FS_AddElement DEF MemoryInv, Numbered
  <2>2. new \in MemoryBody /\ new.version = n
    BY <1>1, <1>4 DEF MemoryBody
  <2> QED  BY <1>2, <2>1, <2>2 DEF MemoryInv, MemoryTypeOK
<1>6. \A b, c \in added : b.version = c.version => b = c
  BY <1>2, <1>4, <1>5 DEF MemoryInv, Numbered
<1>7. new \notin Beyond(added)
  <2>1. \A c \in added : c.version <= new.version
    BY <1>2, <1>4, <1>5
  <2> QED  BY <1>2, <1>5, <2>1, BeyondIsOldest
<1>8. PICK gone : gone = Beyond(added)
  OBVIOUS
<1>9. gone \subseteq bodies /\ bodies' = (bodies \ gone) \cup {new} /\ new \in bodies'
  <2>1. gone \subseteq added
    BY <1>8 DEF Beyond
  <2> QED  BY <1>2, <1>3, <1>7, <1>8, <2>1
<1>10. ASSUME NEW b \in gone, NEW c \in bodies \ gone
       PROVE  b.version < c.version
  <2>1. ~(c.version <= b.version)
    BY <1>2, <1>5, <1>8, BeyondIsOldest
  <2> QED  BY <1>4, <1>9, <2>1
<1>11. Cardinality(bodies') <= MaxMemoryVersions
  BY <1>3, <1>5, <1>6, BeyondLeavesFew
<1>12. gone # {} => Cardinality(bodies') = MaxMemoryVersions
  <2> SUFFICES ASSUME gone # {}
               PROVE  Cardinality(bodies') = MaxMemoryVersions
    OBVIOUS
  <2>1. PICK newest \in gone : \A b \in gone : b.version <= newest.version
    BY <1>0, <1>1, <1>2, <1>8 DEF WriteMemory, Thin, Spans
  <2>2. Cardinality(bodies') >= MaxMemoryVersions
    BY <1>3, <1>5, <1>8, <2>1, BeyondLeavesEnough
  <2>3. Cardinality(bodies') \in Nat
    <3>1. IsFiniteSet(bodies')
      BY <1>3, <1>5, FS_Subset
    <3> QED  BY <3>1, FS_CardinalityType
  <2> QED  BY <1>11, <2>2, <2>3 DEF MemoryAssumption
<1> QED  BY <1>0, <1>3, <1>5, <1>9, <1>10, <1>11, <1>12, SameSize DEF History!Write, History!Older

\* A purge takes away all between two versions, and passes over a number when it takes the current one.
LEMMA PurgeIsHistory ==
  ASSUME MemoryInv, NEW chosen \in SUBSET bodies, Closed(chosen), ApplyPurge(chosen)
  PROVE  History!TakeAway(chosen)
<1>1. PICK first \in chosen, newest \in chosen :
         /\ Spans(first, newest, chosen)
         /\ bodies' = bodies \ chosen
         /\ memory' = IF newest.version = memory.version THEN Cleared ELSE memory
  BY DEF ApplyPurge
<1>2. \A b \in bodies : b.version \in Nat /\ b.version <= memory.version
  BY DEF MemoryInv, MemoryTypeOK, Numbered, MemoryBody
<1>3. memory.version \in Nat
  BY DEF MemoryInv, MemoryTypeOK, MemoryRow
<1>4. (\E b \in chosen : b.version = memory.version) <=> newest.version = memory.version
  BY <1>1, <1>2, <1>3 DEF Spans
<1>5. memory'.version = IF \E b \in chosen : b.version = memory.version THEN memory.version + 1 ELSE memory.version
  BY <1>1, <1>4 DEF Cleared
<1>6. \A b \in bodies \ chosen, c, d \in chosen : ~(c.version < b.version /\ b.version < d.version)
  BY <1>2 DEF Closed
<1> QED  BY <1>1, <1>5, <1>6 DEF History!TakeAway, History!Older

\* Every step of the memory is one of the history.
LEMMA MemoryIsHistory ==
  ASSUME MemoryAssumption, MemoryInv, [MemoryNext]_memoryVars
  PROVE  [History!Next]_(History!vars)
<1>1. memory.content \in Contents
  BY DEF MemoryInv, MemoryTypeOK, MemoryRow
<1>2. ASSUME \E deleted, key, text : \E content \in Contents : WriteMemory(deleted, key, text, content)
      PROVE  History!Next
  BY <1>2, WriteIsHistory DEF History!Next
<1>3. ASSUME NEW chosen \in SUBSET bodies, Closed(chosen), ApplyPurge(chosen)
      PROVE  History!Next
  BY <1>3, PurgeIsHistory DEF History!Next
<1>4. ASSUME NEW key \in Keys \cup {NoKey}, NEW text \in Texts, AppendMemory(key, text)
      PROVE  History!Next
  <2>1. Joined(text) \in Contents
    BY <1>1 DEF Joined, Contents
  <2> QED  BY <1>2, <1>4, <2>1 DEF AppendMemory
<1>5. ASSUME NEW text \in Texts, CreateMemory(text)
      PROVE  History!Next
  <2>1. <<text>> \in Contents
    BY DEF Contents
  <2> QED  BY <1>2, <1>5, <2>1 DEF CreateMemory
<1>6. ASSUME NEW expected \in Nat, NEW kept \in Contents, NEW text \in Texts, ReplaceMemory(expected, kept, text)
      PROVE  History!Next
  <2>1. Append(kept, text) \in Contents
    BY DEF Contents
  <2> QED  BY <1>2, <1>6, <2>1 DEF ReplaceMemory
<1>7. CASE DeleteMemory
  BY <1>1, <1>2, <1>7 DEF DeleteMemory
<1>8. ASSUME NEW n \in Nat, PurgeMemoryVersion(n) \/ PurgeExpiredMemories(n)
      PROVE  History!Next
  <2>1. Expired(n) \subseteq bodies
    BY DEF Expired
  <2> QED  BY <1>3, <1>8, <2>1, Selections DEF PurgeMemoryVersion, PurgeExpiredMemories
<1>9. CASE PurgeAllVersions
  BY <1>3, <1>9, Selections DEF PurgeAllVersions
<1>10. CASE UNCHANGED memoryVars
  BY <1>10 DEF memoryVars, History!vars
<1> QED  BY <1>4, <1>5, <1>6, <1>7, <1>8, <1>9, <1>10 DEF MemoryNext

\* Rows, versions, bodies and records implement the history of MemoryHistory (WriteMemory, thinMemoryBodies, applyMemoryPurge).
THEOREM MemoryImplementsHistory == MemorySpec => ImplementsHistory
<1>1. MemoryInit => History!Init
  BY DEF MemoryInit, History!Init
<1>2. MemoryInv /\ [MemoryNext]_memoryVars => [History!Next]_(History!vars)
  BY MemoryIsHistory, MemoryAssumption
<1> QED  BY <1>1, <1>2, MemoryAccounted, PTL DEF MemorySpec, ImplementsHistory, History!Spec

\* At every moment at most MaxMemoryVersions contents can be read, one of each version (thinMemoryBodies).
THEOREM MemoryReadable == MemorySpec => []History!Readable
<1> DEFINE HInv == memory.version \in Nat /\ History!Readable
<1>1. History!Init => HInv
  BY FS_EmptySet, SameSize, MemoryAssumption DEF History!Init, History!Readable
<1>2. HInv /\ [History!Next]_(History!vars) => HInv'
  <2> SUFFICES ASSUME HInv, [History!Next]_(History!vars)
               PROVE  HInv'
    OBVIOUS
  <2>1. CASE UNCHANGED History!vars
    BY <2>1 DEF History!vars, History!Readable
  <2>2. CASE History!Write
    <3>1. PICK gone \in SUBSET bodies, new \in bodies' :
            /\ memory'.version = memory.version + 1 /\ new.version = memory'.version
            /\ bodies' = (bodies \ gone) \cup {new}
            /\ Cardinality(bodies') <= MaxMemoryVersions
      BY <2>2, SameSize DEF History!Write
    <3>2. IsFiniteSet(bodies')
      <4>1. IsFiniteSet(bodies \ gone)
        BY FS_Subset, SameSize DEF History!Readable
      <4> QED  BY <3>1, <4>1, FS_AddElement
    <3>3. \A b \in bodies' : b = new \/ (b \in bodies /\ b.version \in 1 .. memory.version)
      BY <3>1 DEF History!Readable
    <3>4. \A b \in bodies' : b.version \in 1 .. memory'.version
      BY <3>1, <3>3
    <3>5. \A b, c \in bodies' : b.version = c.version => b = c
      BY <3>1, <3>3 DEF History!Readable
    <3> QED  BY <3>1, <3>2, <3>4, <3>5, SameSize DEF History!Readable
  <2>3. ASSUME NEW S \in SUBSET bodies, History!TakeAway(S)
        PROVE  HInv'
    <3>1. bodies' \subseteq bodies /\ memory'.version \in {memory.version, memory.version + 1}
      BY <2>3 DEF History!TakeAway
    <3>2. IsFiniteSet(bodies') /\ Cardinality(bodies') <= Cardinality(bodies)
      BY <3>1, FS_Subset, SameSize DEF History!Readable
    <3>3. Cardinality(bodies') \in Nat /\ Cardinality(bodies) \in Nat
      BY <3>2, FS_CardinalityType, SameSize DEF History!Readable
    <3>4. Cardinality(bodies') <= MaxMemoryVersions
      BY <3>2, <3>3, SameSize, MemoryAssumption DEF History!Readable
    <3>5. \A b \in bodies' : b.version \in 1 .. memory'.version
      BY <3>1 DEF History!Readable
    <3> QED  BY <3>1, <3>2, <3>4, <3>5, SameSize DEF History!Readable
  <2> QED  BY <2>1, <2>2, <2>3 DEF History!Next
<1> QED  BY <1>1, <1>2, MemoryImplementsHistory, PTL DEF ImplementsHistory, History!Spec
=============================================================================
