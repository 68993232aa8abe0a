------------------------- MODULE TranscriptsProofs -------------------------
(***************************************************************************)
(* Restorable, PurgeTakesAll, AckedIsStored and Quota hold for any         *)
(* transcripts, files, pushers and limits.                                 *)
(***************************************************************************)
EXTENDS Transcripts, FiniteSetTheorems, TLAPS

-----------------------------------------------------------------------------
(* MAX in the queries. *)

\* What MAX returns, when there is a largest number.
LEMMA GreatestIs ==
  ASSUME NEW S \in SUBSET Nat, HasGreatest(S)
  PROVE  Greatest(S) \in Nat /\ IsGreatest(Greatest(S), S)
<1>1. PICK n \in S \cup {0} : IsGreatest(n, S)
  BY DEF HasGreatest
<1>2. Greatest(S) \in S \cup {0} /\ IsGreatest(Greatest(S), S)
  BY <1>1 DEF Greatest
<1>3. S \cup {0} \subseteq Nat
  OBVIOUS
<1> QED  BY <1>2, <1>3

\* It is the only largest number.
LEMMA GreatestUnique ==
  ASSUME NEW S \in SUBSET Nat, NEW n \in Nat, IsGreatest(n, S)
  PROVE  HasGreatest(S) /\ Greatest(S) = n
<1>1. HasGreatest(S)
  BY DEF HasGreatest, IsGreatest
<1>2. Greatest(S) \in Nat /\ IsGreatest(Greatest(S), S)
  BY <1>1, GreatestIs
<1> QED  BY <1>1, <1>2 DEF IsGreatest

\* A number that is at least as large as the others becomes the largest.
LEMMA GreatestAdd ==
  ASSUME NEW S \in SUBSET Nat, HasGreatest(S), NEW n \in Nat, Greatest(S) <= n
  PROVE  HasGreatest(S \cup {n}) /\ Greatest(S \cup {n}) = n
<1>1. Greatest(S) \in Nat /\ IsGreatest(Greatest(S), S)
  BY GreatestIs
<1>2. IsGreatest(n, S \cup {n})
  BY <1>1 DEF IsGreatest
<1> QED  BY <1>2, GreatestUnique

\* COALESCE: there is a result for no rows.
LEMMA GreatestNone == HasGreatest({}) /\ Greatest({}) = 0
BY GreatestUnique DEF IsGreatest

-----------------------------------------------------------------------------
(* The tables. *)

\* The sets that the queries take the largest of are sets of numbers.
LEMMA Numbers ==
  ASSUME TypeOK, NEW t \in Transcripts
  PROVE  /\ {c.id : c \in ChunksOf(t)} \in SUBSET Nat
         /\ {c.seq : c \in ChunksOf(t)} \in SUBSET Nat
         /\ \A f \in Files : {c.to : c \in LiveIn(t, f)} \in SUBSET Nat
BY DEF TypeOK, Chunk, ChunksOf, LiveIn, Live

\* The results of the queries.
LEMMA Results ==
  ASSUME TypeOK, Keys, NEW t \in Transcripts
  PROVE  /\ Through(t) \in Nat /\ IsGreatest(Through(t), {c.id : c \in ChunksOf(t)})
         /\ TranscriptSeq(t) \in Nat /\ IsGreatest(TranscriptSeq(t), {c.seq : c \in ChunksOf(t)})
         /\ \A f \in Files :
              FileLength(t, f) \in Nat /\ IsGreatest(FileLength(t, f), {c.to : c \in LiveIn(t, f)})
BY Numbers, GreatestIs DEF Keys, Through, TranscriptSeq, FileLength

\* They are numbers in the next state too.
LEMMA ResultsAfter ==
  ASSUME TypeOK', Keys', NEW t \in Transcripts
  PROVE  \A f \in Files : FileLength(t, f)' \in Nat
<1> SUFFICES ASSUME NEW f \in Files
             PROVE  FileLength(t, f)' \in Nat
  OBVIOUS
<1>1. {c.to : c \in LiveIn(t, f)'} \in SUBSET Nat
  BY DEF TypeOK, Chunk, ChunksOf, LiveIn, Live
<1>2. HasGreatest({c.to : c \in LiveIn(t, f)'})
  BY DEF Keys
<1> QED  BY <1>1, <1>2, GreatestIs DEF FileLength

\* Nothing that is read from the tables changes while they do not.
LEMMA SameTables ==
  ASSUME UNCHANGED <<chunks, purges>>
  PROVE  /\ \A c : Purged(c)' <=> Purged(c)
         /\ \A t : ChunksOf(t)' = ChunksOf(t)
         /\ \A t : Live(t)' = Live(t)
         /\ \A t, f : LiveIn(t, f)' = LiveIn(t, f)
         /\ \A t : TranscriptSeq(t)' = TranscriptSeq(t)
         /\ \A t : Through(t)' = Through(t)
         /\ \A t, f : FileLength(t, f)' = FileLength(t, f)
         /\ UserBytes' = UserBytes
<1>1. /\ \A c : Purged(c)' <=> Purged(c)
      /\ \A t : ChunksOf(t)' = ChunksOf(t)
  BY DEF Purged, ChunksOf
<1>2. \A t : Live(t)' = Live(t)
  BY <1>1 DEF Live
<1>3. \A t, f : LiveIn(t, f)' = LiveIn(t, f)
  BY <1>2 DEF LiveIn
<1>4. /\ \A t : TranscriptSeq(t)' = TranscriptSeq(t)
      /\ \A t : Through(t)' = Through(t)
  BY <1>1 DEF TranscriptSeq, Through
<1>5. \A t, f : FileLength(t, f)' = FileLength(t, f)
  BY <1>3 DEF FileLength
<1>6. UserBytes' = UserBytes
  BY <1>1 DEF UserBytes, Stored
<1> QED  BY <1>1, <1>2, <1>3, <1>4, <1>5, <1>6

\* What is true of the tables stays true while they do not change.
LEMMA SameRows ==
  ASSUME UNCHANGED <<chunks, purges>>
  PROVE  /\ Numbered => Numbered'
         /\ Restorable => Restorable'
<1>1. Numbered => Numbered'
  BY DEF Numbered, ChunksOf
<1>2. \A t : PulledChunks(t)' = PulledChunks(t)
  BY SameTables DEF PulledChunks
<1>3. Restorable => Restorable'
  BY <1>2, SameTables DEF Restorable
<1> QED  BY <1>1, <1>3

-----------------------------------------------------------------------------
(* The types. *)

\* A process that asks anew has a type.
LEMMA IdleType == Idle \in Pushing
BY CutAssumption DEF Idle, Pushing, Nothing

\* The request of a process that has chosen a file.
LEMMA RequestType ==
  ASSUME TypeOK, NEW p \in Pushers, pusher[p].file \in ToSend(p)
  PROVE  NextChunk(p) \in Request
<1> DEFINE f == pusher[p].file
<1>1. pusher[p] \in Pushing /\ f \in Files /\ pusher[p].lens[f] < pusher[p].data[f]
  BY DEF TypeOK, ToSend
<1>2. pusher[p].lens[f] \in Nat /\ pusher[p].data[f] \in Nat /\ pusher[p].cut \in Nat \ {0} /\ pusher[p].seq \in Nat
  BY <1>1 DEF Pushing
<1>3. /\ Smaller(pusher[p].lens[f] + pusher[p].cut, pusher[p].data[f]) \in Nat
      /\ pusher[p].lens[f] < Smaller(pusher[p].lens[f] + pusher[p].cut, pusher[p].data[f])
  BY <1>1, <1>2 DEF Smaller
<1>4. TranscriptOf[p] \in Transcripts
  BY PusherAssumption
<1> QED  BY <1>1, <1>2, <1>3, <1>4 DEF NextChunk, Request

\* What a refusal makes of a process.
LEMMA AfterType ==
  ASSUME TypeOK, NEW p \in Pushers, NEW error
  PROVE  After(p, error) \in Pushing /\ After(p, error).pc \in {"seq", "idle"} /\ After(p, error).known = {}
<1>1. pusher[p] \in Pushing
  BY DEF TypeOK
<1>2. ASSUME NEW cut \in Nat \ {0}, NEW resyncs \in Nat
      PROVE  Resync(p, cut, resyncs) \in Pushing /\ Resync(p, cut, resyncs).pc = "seq" /\ Resync(p, cut, resyncs).known = {}
  BY <1>1, <1>2, IdleType DEF Resync, Idle, Pushing
<1>3. Idle \in Pushing /\ Idle.pc = "idle" /\ Idle.known = {}
  BY IdleType DEF Idle
<1>4. CASE error = "conflict" /\ pusher[p].resyncs < MaxResync
  <2>1. pusher[p].cut \in Nat \ {0} /\ pusher[p].resyncs + 1 \in Nat
    BY <1>1 DEF Pushing
  <2>2. After(p, error) = Resync(p, pusher[p].cut, pusher[p].resyncs + 1)
    BY <1>4 DEF After
  <2> QED  BY <1>2, <2>1, <2>2
<1>5. CASE ~(error = "conflict" /\ pusher[p].resyncs < MaxResync) /\ error = "too_large" /\ pusher[p].cut > MinCut
  <2>1. pusher[p].cut \div 2 \in Nat \ {0} /\ pusher[p].resyncs \in Nat
    BY <1>1, <1>5, CutAssumption DEF Pushing
  <2>2. After(p, error) = Resync(p, pusher[p].cut \div 2, pusher[p].resyncs)
    BY <1>5 DEF After
  <2> QED  BY <1>2, <2>1, <2>2
<1>6. CASE ~(error = "conflict" /\ pusher[p].resyncs < MaxResync) /\ ~(error = "too_large" /\ pusher[p].cut > MinCut)
  <2>1. After(p, error) = Idle
    BY <1>6 DEF After
  <2> QED  BY <1>3, <2>1
<1> QED  BY <1>4, <1>5, <1>6

\* Whoever is refused, the processes keep their types.
LEMMA RefuseType ==
  ASSUME TypeOK, NEW by \in Pushers \cup {NoPusher}, NEW error, Refuse(by, error)
  PROVE  pusher' \in [Pushers -> Pushing]
BY AfterType DEF TypeOK, Refuse, Becomes

-----------------------------------------------------------------------------
(* Steps that leave the tables alone. *)

\* The variables that are not the pushers' have their types.
ServerTypes ==
  /\ source \in [Transcripts -> [Files -> Nat]]
  /\ chunks \subseteq Chunk /\ nextId \in Nat /\ purges \subseteq Purge
  /\ (\A x \in appending : AppendType(x)) /\ purging \subseteq Purge
  /\ fresh \subseteq Transcripts /\ due \subseteq Transcripts
  /\ \A r \in abandoned : r \in Request

\* The part of the invariant that speaks of the server alone.
ServerInv == ServerTypes /\ Keys /\ Numbered /\ OneOpen /\ Current /\ Accepted /\ Restorable

\* The part that speaks of the pushers.
PusherInv == pusher \in [Pushers -> Pushing] /\ Served /\ AckedIsStored /\ ReplyIsStored

\* The invariant is these two parts.
LEMMA Parts ==
  /\ IInv => ServerInv /\ PusherInv
  /\ ServerInv' /\ PusherInv' => IInv'
BY DEF IInv, TypeOK, ServerInv, ServerTypes, PusherInv

\* Keys only depends on the tables and on the open purges.
LEMMA SameKeys ==
  ASSUME Keys, UNCHANGED <<chunks, nextId, purges>>, purging' \subseteq purging
  PROVE  Keys'
<1>1. /\ \A c \in chunks' : c.id < nextId'
      /\ \A q \in purges' \cup purging' : q.through < nextId'
  BY DEF Keys
<1>2. \A t \in Transcripts :
        /\ HasGreatest({c.id : c \in ChunksOf(t)})'
        /\ HasGreatest({c.seq : c \in ChunksOf(t)})'
        /\ \A f \in Files : HasGreatest({c.to : c \in LiveIn(t, f)})'
  BY SameTables DEF Keys, HasGreatest, IsGreatest
<1> QED  BY <1>1, <1>2 DEF Keys

\* Transactions may end without a trace.
LEMMA QuietServer ==
  ASSUME ServerInv, UNCHANGED <<chunks, nextId, purges>>,
         appending' \subseteq appending, purging' \subseteq purging,
         source' \in [Transcripts -> [Files -> Nat]], fresh' \subseteq Transcripts,
         due' \subseteq Transcripts, \A r \in abandoned' : r \in Request
  PROVE  ServerInv'
<1>1. ServerTypes'
  BY DEF ServerInv, ServerTypes, AppendType
<1>2. Keys' /\ Numbered' /\ Restorable'
  BY SameKeys, SameRows DEF ServerInv
<1>3. OneOpen'
  BY DEF ServerInv, OneOpen
<1>4. Current'
  BY SameTables DEF ServerInv, Current
<1>5. Accepted'
  BY DEF ServerInv, Accepted, SeqMatches, OffsetMatches, WithinQuota
<1> QED  BY <1>1, <1>2, <1>3, <1>4, <1>5 DEF ServerInv

\* The purges that a push knows are all there are, before and after.
LEMMA SamePurges ==
  ASSUME UNCHANGED <<purges, pusher>>
  PROVE  /\ \A p : NotPurgedSince(p)' <=> NotPurgedSince(p)
         /\ \A p : NextChunk(p)' = NextChunk(p)
         /\ \A p : ToSend(p)' = ToSend(p)
BY DEF NotPurgedSince, NextChunk, ToSend

\* The pushers notice nothing of it.
LEMMA QuietPushers ==
  ASSUME PusherInv, UNCHANGED <<chunks, purges, pusher>>, appending' \subseteq appending
  PROVE  PusherInv'
<1>1. Served'
  BY SamePurges DEF PusherInv, Served
<1>2. AckedIsStored' /\ ReplyIsStored'
  BY SamePurges, SameTables DEF PusherInv, AckedIsStored, ReplyIsStored
<1> QED  BY <1>1, <1>2 DEF PusherInv

\* One pusher moves to a state in which no reply is on its way.
LEMMA OnePusher ==
  ASSUME PusherInv, UNCHANGED <<chunks, purges>>, appending' \subseteq appending,
         NEW p \in Pushers, NEW new \in Pushing, Becomes(p, new),
         \A x \in appending' : x.by # p,
         new.pc # "stored", new.known \subseteq purges,
         new.pc = "wait" => new.file \in Files /\ new.lens[new.file] < new.data[new.file],
         new.pc \in {"send", "wait"} /\ new.known = {q \in purges : q.of = TranscriptOf[p]}
           => \A f \in Files : new.lens[f] <= FileLength(TranscriptOf[p], f)
  PROVE  PusherInv'
<1>1. pusher' \in [Pushers -> Pushing] /\ pusher'[p] = new
  BY DEF PusherInv, Becomes
<1>2. ASSUME NEW q \in Pushers, q # p
      PROVE  /\ pusher'[q] = pusher[q]
             /\ NotPurgedSince(q)' <=> NotPurgedSince(q)
             /\ NextChunk(q)' = NextChunk(q)
             /\ ToSend(q)' = ToSend(q)
  <2>1. pusher'[q] = pusher[q]
    BY <1>2 DEF PusherInv, Becomes
  <2> QED  BY <2>1 DEF NotPurgedSince, NextChunk, ToSend
<1>3. Served'
  <2>1. ASSUME NEW x \in appending', x.by \in Pushers
        PROVE  pusher'[x.by].pc = "wait" /\ x.req = NextChunk(x.by)'
    BY <1>2, <2>1 DEF PusherInv, Served
  <2>2. pusher'[p].known \subseteq purges' /\ (pusher'[p].pc \in {"wait", "stored"} => pusher'[p].file \in ToSend(p)')
    BY <1>1 DEF ToSend
  <2>3. ASSUME NEW q \in Pushers, q # p
        PROVE  pusher'[q].known \subseteq purges' /\ (pusher'[q].pc \in {"wait", "stored"} => pusher'[q].file \in ToSend(q)')
    BY <1>2, <2>3 DEF PusherInv, Served
  <2> QED  BY <2>1, <2>2, <2>3 DEF Served
<1>4. AckedIsStored'
  <2>1. ASSUME NEW q \in Pushers, pusher'[q].pc \in {"send", "wait", "stored"}, NotPurgedSince(q)', NEW f \in Files
        PROVE  pusher'[q].lens[f] <= FileLength(TranscriptOf[q], f)'
    <3>1. CASE q = p
      <4>1. new.known = {r \in purges : r.of = TranscriptOf[p]}
        BY <1>1, <2>1, <3>1 DEF NotPurgedSince
      <4> QED  BY <1>1, <2>1, <3>1, <4>1, SameTables
    <3>2. CASE q # p
      BY <1>2, <2>1, <3>2, SameTables DEF PusherInv, AckedIsStored
    <3> QED  BY <3>1, <3>2
  <2> QED  BY <2>1 DEF AckedIsStored
<1>5. ReplyIsStored'
  <2>1. ASSUME NEW q \in Pushers, pusher'[q].pc = "stored", NotPurgedSince(q)'
        PROVE  NextChunk(q).to' <= FileLength(TranscriptOf[q], pusher[q].file)'
    <3>1. q # p
      BY <1>1, <2>1
    <3> QED  BY <1>2, <2>1, <3>1, SameTables DEF PusherInv, ReplyIsStored
  <2> QED  BY <2>1 DEF ReplyIsStored
<1> QED  BY <1>1, <1>3, <1>4, <1>5 DEF PusherInv

-----------------------------------------------------------------------------
(* The actions of a push. *)

\* A push that has nothing in common with its past but its data.
LEMMA Restart ==
  ASSUME PusherInv, UNCHANGED <<chunks, purges>>, appending' \subseteq appending,
         NEW p \in Pushers, NEW new \in Pushing, Becomes(p, new),
         \A x \in appending' : x.by # p,
         new.pc \in {"seq", "idle"}, new.known = {}
  PROVE  PusherInv'
BY OnePusher

\* No transaction is open for a push that does not wait.
LEMMA NotServed ==
  ASSUME PusherInv, NEW p \in Pushers, pusher[p].pc # "wait"
  PROVE  \A x \in appending : x.by # p
BY DEF PusherInv, Served

\* Nobody is told anything but an error.
LEMMA RefusedPushers ==
  ASSUME IInv, UNCHANGED <<chunks, purges>>, appending' \subseteq appending,
         NEW by \in Pushers \cup {NoPusher}, NEW error, Refuse(by, error),
         \A x \in appending' : by \in Pushers => x.by # by
  PROVE  PusherInv'
<1>1. CASE by = NoPusher
  <2>1. UNCHANGED pusher
    BY <1>1 DEF Refuse
  <2> QED  BY <2>1, QuietPushers, Parts
<1>2. CASE by \in Pushers /\ by # NoPusher
  <2>1. Becomes(by, After(by, error))
    BY <1>2 DEF Refuse
  <2>2. After(by, error) \in Pushing /\ After(by, error).pc \in {"seq", "idle"} /\ After(by, error).known = {}
    BY <1>2, AfterType DEF IInv
  <2> QED  BY <1>2, <2>1, <2>2, Restart, Parts
<1> QED  BY <1>1, <1>2

\* A push keeps the invariant.
LEMMA PushStep ==
  ASSUME IInv, NEW p \in Pushers, Push(p)
  PROVE  IInv'
<1> DEFINE t == TranscriptOf[p]
<1> USE Parts
<1>0. pusher[p] \in Pushing /\ t \in Transcripts /\ source[t] \in [Files -> Nat]
  BY PusherAssumption DEF IInv, TypeOK
<1>1. UNCHANGED <<source, serverVars, due, abandoned>>
  BY DEF Push, Start, ReadSeq, ReadLens, Send, Finish, Receive
<1>2. ServerInv'
  BY <1>1, QuietServer DEF serverVars, ServerInv, ServerTypes
<1>3. CASE Start(p)
  <2>1. [Idle EXCEPT !.pc = "seq", !.data = source[t]] \in Pushing
    BY <1>0, IdleType DEF Idle, Pushing
  <2>2. PusherInv'
    BY <1>1, <1>3, <2>1, NotServed, Restart DEF Start, serverVars, Idle
  <2> QED  BY <1>2, <2>2
<1>4. CASE ReadSeq(p)
  <2> DEFINE new == [pusher[p] EXCEPT !.pc = "lens", !.seq = TranscriptSeq(t)]
  <2>1. TranscriptSeq(t) \in Nat
    BY <1>0, Results DEF IInv
  <2>2. new \in Pushing /\ new.pc = "lens" /\ new.known = pusher[p].known
    BY <1>0, <2>1 DEF Pushing
  <2>3. new.known \subseteq purges
    BY <2>2 DEF IInv, Served
  <2>4. PusherInv'
    BY <1>1, <1>4, <2>2, <2>3, NotServed, OnePusher DEF ReadSeq, serverVars
  <2> QED  BY <1>2, <2>4
<1>5. CASE ReadLens(p)
  <2> DEFINE new == [pusher[p] EXCEPT !.pc = "send", !.lens = [f \in Files |-> FileLength(t, f)],
                                      !.known = {q \in purges : q.of = t}]
  <2>1. \A f \in Files : FileLength(t, f) \in Nat
    BY <1>0, Results DEF IInv
  <2>2. purges \subseteq Purge
    BY DEF IInv, TypeOK
  <2>3. /\ new \in Pushing /\ new.pc = "send" /\ new.known = {q \in purges : q.of = t}
        /\ \A f \in Files : new.lens[f] = FileLength(t, f)
    BY <1>0, <2>1, <2>2 DEF Pushing
  <2>4. \A f \in Files : new.lens[f] <= FileLength(t, f)
    BY <2>1, <2>3
  <2>5. PusherInv'
    BY <1>1, <1>5, <2>3, <2>4, NotServed, OnePusher DEF ReadLens, serverVars
  <2> QED  BY <1>2, <2>5
<1>6. CASE Send(p)
  <2>1. PICK f \in ToSend(p) : Becomes(p, [pusher[p] EXCEPT !.pc = "wait", !.file = f])
    BY <1>6 DEF Send
  <2> DEFINE new == [pusher[p] EXCEPT !.pc = "wait", !.file = f]
  <2>2. f \in Files /\ pusher[p].lens[f] < pusher[p].data[f]
    BY <2>1 DEF ToSend
  <2>3. /\ new \in Pushing /\ new.pc = "wait" /\ new.known = pusher[p].known /\ new.file = f
        /\ new.lens = pusher[p].lens /\ new.data = pusher[p].data
    BY <1>0, <2>2 DEF Pushing
  <2>4. /\ new.known \subseteq purges
        /\ new.known = {q \in purges : q.of = t} => \A g \in Files : new.lens[g] <= FileLength(t, g)
    BY <1>6, <2>3 DEF Send, IInv, Served, AckedIsStored, NotPurgedSince
  <2>5. PusherInv'
    BY <1>1, <1>6, <2>1, <2>2, <2>3, <2>4, NotServed, OnePusher DEF Send, serverVars
  <2> QED  BY <1>2, <2>5
<1>7. CASE Finish(p)
  <2>1. PusherInv'
    BY <1>1, <1>7, NotServed, Restart, IdleType DEF Finish, serverVars, Idle
  <2> QED  BY <1>2, <2>1
<1>8. CASE Receive(p)
  <2> DEFINE f == pusher[p].file
             n == NextChunk(p).to
             new == [pusher[p] EXCEPT !.pc = "send", !.seq = TranscriptSeq(t), !.lens[f] = n, !.file = 0]
  <2>1. TranscriptSeq(t) \in Nat
    BY <1>0, Results DEF IInv
  <2>2. f \in ToSend(p) /\ f \in Files
    BY <1>8 DEF Receive, IInv, Served, ToSend
  <2>3. n \in Nat
    BY <2>2, RequestType DEF IInv, Request
  <2>4. /\ new \in Pushing /\ new.pc = "send" /\ new.known = pusher[p].known
        /\ new.lens[f] = n /\ \A g \in Files \ {f} : new.lens[g] = pusher[p].lens[g]
    BY <1>0, <2>1, <2>2, <2>3 DEF Pushing
  <2>5. new.known \subseteq purges
    BY <2>4 DEF IInv, Served
  <2>6. new.known = {q \in purges : q.of = t} => \A g \in Files : new.lens[g] <= FileLength(t, g)
    <3>1. SUFFICES ASSUME NotPurgedSince(p), NEW g \in Files
                   PROVE  new.lens[g] <= FileLength(t, g)
      BY <2>4 DEF NotPurgedSince
    <3>2. CASE g = f
      BY <1>8, <2>4, <3>1, <3>2 DEF Receive, IInv, ReplyIsStored
    <3>3. CASE g # f
      BY <1>8, <2>4, <3>1, <3>3 DEF Receive, IInv, AckedIsStored
    <3> QED  BY <3>2, <3>3
  <2>7. PusherInv'
    BY <1>1, <1>8, <2>4, <2>5, <2>6, NotServed, OnePusher DEF Receive, serverVars
  <2> QED  BY <1>2, <2>7
<1> QED  BY <1>3, <1>4, <1>5, <1>6, <1>7, <1>8 DEF Push

-----------------------------------------------------------------------------
(* Disturbances, refusals and whatever else leaves the tables alone. *)

\* The request that arrives has the type of one.
LEMMA ArrivalType ==
  ASSUME IInv, NEW by \in Pushers \cup {NoPusher}, NEW r, Arrives(by, r)
  PROVE  r \in Request /\ (by \in Pushers => \A x \in appending : x.by # by)
<1>1. CASE by = NoPusher
  BY <1>1, PusherAssumption DEF Arrives, IInv, TypeOK
<1>2. CASE by \in Pushers
  BY <1>2, PusherAssumption, RequestType DEF Arrives, IInv, Served
<1> QED  BY <1>1, <1>2

\* A push that is given up keeps the invariant; its transaction goes on for nobody.
LEMMA GiveUpStep ==
  ASSUME IInv, NEW p \in Pushers, GiveUp(p)
  PROVE  IInv'
<1> DEFINE Orphan(x) == IF x.by = p THEN [x EXCEPT !.by = NoPusher] ELSE x
<1>1. /\ UNCHANGED <<source, chunks, nextId, purges, purging, fresh, due>>
      /\ appending' = {Orphan(x) : x \in appending}
      /\ Becomes(p, Idle)
  BY DEF GiveUp
<1>2. ASSUME NEW y \in appending'
      PROVE  \E x \in appending : /\ y.req = x.req /\ y.seq = x.seq /\ y.length = x.length /\ y.used = x.used
                                  /\ y.id = x.id
                                  /\ y.by = IF x.by = p THEN NoPusher ELSE x.by
                                  /\ AppendType(y)
  <2>1. PICK x \in appending : y = Orphan(x)
    BY <1>1
  <2>2. AppendType(x)
    BY DEF IInv, TypeOK
  <2>3. y = [by |-> IF x.by = p THEN NoPusher ELSE x.by, req |-> x.req, seq |-> x.seq,
             length |-> x.length, used |-> x.used, id |-> x.id]
    BY <2>1, <2>2 DEF AppendType
  <2> QED  BY <2>2, <2>3 DEF AppendType
<1>3. \A r \in abandoned' : r \in Request
  BY RequestType DEF GiveUp, IInv, TypeOK, Served
<1>4. ServerInv'
  <2>1. ServerTypes'
    BY <1>1, <1>2, <1>3 DEF IInv, TypeOK, ServerTypes
  <2>2. Keys' /\ Numbered' /\ Restorable'
    BY <1>1, SameKeys, SameRows DEF IInv
  <2>3. OneOpen'
    BY <1>1 DEF IInv, OneOpen
  <2>4. Current'
    BY <1>1, <1>2, SameTables DEF IInv, Current
  <2>5. Accepted'
    BY <1>1, <1>2 DEF IInv, Accepted, SeqMatches, OffsetMatches, WithinQuota
  <2> QED  BY <2>1, <2>2, <2>3, <2>4, <2>5 DEF ServerInv
<1>5. PusherInv'
  <2>1. /\ Idle \in Pushing /\ Idle.pc = "idle" /\ Idle.known = {}
    BY IdleType DEF Idle
  <2>2. pusher' \in [Pushers -> Pushing] /\ pusher'[p] = Idle
    BY <1>1, <2>1 DEF IInv, TypeOK, Becomes
  <2>3. ASSUME NEW q \in Pushers, q # p
        PROVE  /\ pusher'[q] = pusher[q] /\ ToSend(q)' = ToSend(q)
               /\ NextChunk(q)' = NextChunk(q) /\ (NotPurgedSince(q)' <=> NotPurgedSince(q))
    <3>1. pusher'[q] = pusher[q]
      BY <1>1, <2>3 DEF IInv, TypeOK, Becomes
    <3> QED  BY <1>1, <3>1 DEF ToSend, NextChunk, NotPurgedSince
  <2>4. Served'
    <3>1. ASSUME NEW y \in appending', y.by \in Pushers
          PROVE  pusher'[y.by].pc = "wait" /\ y.req = NextChunk(y.by)'
      <4>1. PICK x \in appending : y.req = x.req /\ y.by = IF x.by = p THEN NoPusher ELSE x.by
        BY <1>2
      <4>2. x.by # p /\ y.by = x.by
        BY <3>1, <4>1, PusherAssumption
      <4> QED  BY <2>3, <3>1, <4>1, <4>2 DEF IInv, Served
    <3>2. ASSUME NEW q \in Pushers
          PROVE  pusher'[q].known \subseteq purges' /\ (pusher'[q].pc \in {"wait", "stored"} => pusher'[q].file \in ToSend(q)')
      BY <1>1, <2>1, <2>2, <2>3 DEF IInv, Served
    <3> QED  BY <3>1, <3>2 DEF Served
  <2>5. AckedIsStored' /\ ReplyIsStored'
    BY <1>1, <2>1, <2>2, <2>3, SameTables DEF IInv, AckedIsStored, ReplyIsStored
  <2> QED  BY <2>2, <2>4, <2>5 DEF PusherInv
<1> QED  BY <1>4, <1>5, Parts

\* A request that is refused before its transaction keeps the invariant.
LEMMA RefusedStep ==
  ASSUME IInv, NEW by \in Pushers \cup {NoPusher}, NEW r, TooLarge(by, r) \/ Fail(by, r)
  PROVE  IInv'
<1>1. /\ UNCHANGED <<source, serverVars, due>>
      /\ abandoned' \subseteq abandoned
      /\ \E error : Refuse(by, error)
      /\ by \in Pushers => \A x \in appending : x.by # by
  BY ArrivalType DEF TooLarge, Fail, Taken
<1>2. ServerInv'
  BY <1>1, QuietServer, Parts DEF serverVars, ServerInv, ServerTypes
<1>3. PusherInv'
  BY <1>1, RefusedPushers DEF serverVars
<1> QED  BY <1>2, <1>3, Parts

\* A transaction that appends nothing keeps the invariant.
LEMMA EndedStep ==
  ASSUME IInv, NEW x \in appending, RefuseAppend(x) \/ Rollback(x)
  PROVE  IInv'
<1>1. /\ UNCHANGED <<source, chunks, nextId, purges, purging, fresh, due>>
      /\ appending' = {}
      /\ x.by \in Pushers \cup {NoPusher} /\ x.req \in Request
  BY DEF RefuseAppend, Rollback, Closed, IInv, OneOpen, TypeOK, AppendType
<1>2. \A r \in abandoned' : r \in Request
  BY <1>1 DEF RefuseAppend, Rollback, IInv, TypeOK
<1>3. ServerInv'
  BY <1>1, <1>2, QuietServer, Parts DEF ServerInv, ServerTypes
<1>4. (\E error : Refuse(x.by, error)) \/ UNCHANGED pusher
  BY DEF RefuseAppend, Rollback
<1>5. PusherInv'
  <2>1. CASE UNCHANGED pusher
    BY <1>1, <2>1, QuietPushers, Parts
  <2>2. ASSUME NEW error, Refuse(x.by, error)
        PROVE  PusherInv'
    BY <1>1, <2>2, RefusedPushers
  <2> QED  BY <1>4, <2>1, <2>2
<1> QED  BY <1>3, <1>5, Parts

\* Agents, the clock, the retention job and purges that come to nothing keep the invariant.
LEMMA QuietStep ==
  ASSUME IInv,
         \/ \E t \in Transcripts, f \in Files : Grow(t, f)
         \/ \E t \in Transcripts : SkipExpired(t) \/ Expire(t)
         \/ FindExpired
         \/ \E q \in purging : RollbackPurge(q)
  PROVE  IInv'
<1>1. /\ UNCHANGED <<chunks, nextId, purges, appending, abandoned, pusher>>
      /\ purging' \subseteq purging
      /\ fresh' \subseteq Transcripts /\ due' \subseteq Transcripts
      /\ source' \in [Transcripts -> [Files -> Nat]]
  <2>1. CASE \E t \in Transcripts, f \in Files : Grow(t, f)
    <3>1. PICK t \in Transcripts, f \in Files : Grow(t, f)
      BY <2>1
    <3>2. source' = [source EXCEPT ![t] = [source[t] EXCEPT ![f] = source[t][f] + 1]]
      BY <3>1 DEF Grow
    <3>3. source' \in [Transcripts -> [Files -> Nat]]
      BY <3>2 DEF IInv, TypeOK
    <3> QED  BY <3>1, <3>3 DEF Grow, serverVars, IInv, TypeOK
  <2>2. CASE \E t \in Transcripts : SkipExpired(t) \/ Expire(t)
    BY <2>2 DEF SkipExpired, Expire, serverVars, IInv, TypeOK
  <2>3. CASE FindExpired
    BY <2>3 DEF FindExpired, serverVars, IInv, TypeOK
  <2>4. CASE \E q \in purging : RollbackPurge(q)
    BY <2>4 DEF RollbackPurge, IInv, TypeOK
  <2> QED  BY <2>1, <2>2, <2>3, <2>4
<1>2. ServerInv'
  BY <1>1, QuietServer, Parts DEF ServerInv, ServerTypes
<1>3. PusherInv'
  BY <1>1, QuietPushers, Parts
<1> QED  BY <1>2, <1>3, Parts

-----------------------------------------------------------------------------
(* A transaction begins under the lock. *)

\* What it reads is current.
LEMMA BeginAppendStep ==
  ASSUME IInv, NEW by \in Pushers \cup {NoPusher}, NEW r, BeginAppend(by, r),
         by \in Pushers => pusher[by].pc = "wait" /\ r = NextChunk(by)
  PROVE  IInv'
<1> DEFINE x == [by |-> by, req |-> r, seq |-> TranscriptSeq(r.of),
                 length |-> FileLength(r.of, r.file), used |-> UserBytes, id |-> 0]
<1>1. /\ UNCHANGED <<source, chunks, nextId, purges, purging, fresh, due, pusher>>
      /\ appending' = {x} /\ purging = {} /\ abandoned' \subseteq abandoned
  BY DEF BeginAppend, LockTranscriptUser, Taken
<1>2. r \in Request /\ r.of \in Transcripts /\ r.file \in Files
  BY ArrivalType DEF BeginAppend, Request
<1>3. AppendType(x)
  BY <1>2, Results DEF IInv, AppendType
<1>4. ServerInv'
  <2>1. ServerTypes'
    BY <1>1, <1>3 DEF IInv, TypeOK, ServerTypes
  <2>2. Keys' /\ Numbered' /\ Restorable'
    BY <1>1, SameKeys, SameRows DEF IInv
  <2>3. OneOpen' /\ Current' /\ Accepted'
    BY <1>1, SameTables DEF OneOpen, Current, Accepted
  <2> QED  BY <2>1, <2>2, <2>3 DEF ServerInv
<1>5. PusherInv'
  <2>1. Served'
    BY <1>1, SamePurges DEF IInv, Served
  <2>2. AckedIsStored' /\ ReplyIsStored'
    BY <1>1, SamePurges, SameTables DEF IInv, AckedIsStored, ReplyIsStored
  <2> QED  BY <1>1, <2>1, <2>2 DEF IInv, TypeOK, PusherInv
<1> QED  BY <1>4, <1>5, Parts

\* A purge begins for some chunks and covers them all.
LEMMA BeginPurgeStep ==
  ASSUME IInv, NEW t \in Transcripts, NEW cause \in {"asked", "retention"},
         BeginPurge(t, cause), due' \subseteq Transcripts
  PROVE  IInv'
<1> DEFINE q == [of |-> t, through |-> Through(t), cause |-> cause]
<1>1. /\ UNCHANGED <<source, chunks, nextId, purges, appending, fresh, abandoned, pusher>>
      /\ purging' = {q} /\ appending = {} /\ Live(t) # {}
  BY DEF BeginPurge, LockTranscriptUser
<1>2. ChunksOf(t) # {}
  BY <1>1 DEF Live
<1>3. Through(t) \in Nat /\ IsGreatest(Through(t), {c.id : c \in ChunksOf(t)})
  BY Results DEF IInv
<1>4. q \in Purge /\ Through(t) < nextId
  BY <1>2, <1>3 DEF Purge, IsGreatest, IInv, Keys, ChunksOf
<1>5. ServerInv'
  <2>1. ServerTypes'
    BY <1>1, <1>4 DEF IInv, TypeOK, ServerTypes
  <2>2. Keys'
    <3>1. /\ \A c \in chunks' : c.id < nextId'
          /\ \A p \in purges' \cup purging' : p.through < nextId'
      BY <1>1, <1>4 DEF IInv, Keys
    <3>2. \A u \in Transcripts :
            /\ HasGreatest({c.id : c \in ChunksOf(u)})'
            /\ HasGreatest({c.seq : c \in ChunksOf(u)})'
            /\ \A f \in Files : HasGreatest({c.to : c \in LiveIn(u, f)})'
      BY <1>1, SameTables DEF IInv, Keys, HasGreatest, IsGreatest
    <3> QED  BY <3>1, <3>2 DEF Keys
  <2>3. Numbered' /\ Restorable'
    BY <1>1, SameRows DEF IInv
  <2>4. OneOpen' /\ Current' /\ Accepted'
    BY <1>1, <1>2, SameTables DEF OneOpen, Current, Accepted
  <2> QED  BY <2>1, <2>2, <2>3, <2>4 DEF ServerInv
<1>6. PusherInv'
  BY <1>1, QuietPushers, Parts
<1> QED  BY <1>5, <1>6, Parts

-----------------------------------------------------------------------------
(* A chunk is inserted. *)

\* The row that nobody else can see yet keeps the invariant: its id is larger than all that are there.
LEMMA InsertStep ==
  ASSUME IInv, NEW x \in appending, InsertTranscriptChunk(x)
  PROVE  IInv'
<1> DEFINE y == [x EXCEPT !.id = nextId]
<1>1. /\ UNCHANGED <<source, chunks, purges, purging, fresh, due, abandoned, pusher>>
      /\ nextId' = nextId + 1 /\ nextId \in Nat
      /\ appending' = {y} /\ purging = {}
      /\ SeqMatches(x) /\ OffsetMatches(x) /\ WithinQuota(x)
  BY DEF InsertTranscriptChunk, IInv, OneOpen, TypeOK
<1>2. AppendType(x)
  BY DEF IInv, TypeOK
<1>3. y = [by |-> x.by, req |-> x.req, seq |-> x.seq, length |-> x.length, used |-> x.used, id |-> nextId]
  BY <1>2 DEF AppendType
<1>4. /\ AppendType(y) /\ y.by = x.by /\ y.req = x.req /\ y.id = nextId
      /\ y.seq = x.seq /\ y.length = x.length /\ y.used = x.used
  BY <1>1, <1>2, <1>3 DEF AppendType
<1>5. ServerInv'
  <2> HIDE DEF y
  <2>1. ServerTypes'
    BY <1>1, <1>4 DEF IInv, TypeOK, ServerTypes
  <2>2. Keys'
    <3>1. /\ \A c \in chunks' : c.id < nextId'
          /\ \A q \in purges' \cup purging' : q.through < nextId'
      BY <1>1 DEF IInv, Keys, TypeOK, Chunk, Purge
    <3>2. \A u \in Transcripts :
            /\ HasGreatest({c.id : c \in ChunksOf(u)})'
            /\ HasGreatest({c.seq : c \in ChunksOf(u)})'
            /\ \A f \in Files : HasGreatest({c.to : c \in LiveIn(u, f)})'
      BY <1>1, SameTables DEF IInv, Keys, HasGreatest, IsGreatest
    <3> QED  BY <3>1, <3>2 DEF Keys
  <2>3. Numbered' /\ Restorable'
    BY <1>1, SameRows DEF IInv
  <2>4. OneOpen'
    BY <1>1 DEF OneOpen
  <2>5. Current'
    BY <1>1, <1>4, SameTables DEF IInv, Current
  <2>6. Accepted'
    <3>1. SeqMatches(y) /\ OffsetMatches(y) /\ WithinQuota(y)
      BY <1>1, <1>4 DEF SeqMatches, OffsetMatches, WithinQuota
    <3>2. y.id < nextId' /\ (\A c \in chunks' : c.id < y.id) /\ \A q \in purges' : q.through < y.id
      BY <1>1, <1>4 DEF IInv, Keys
    <3> QED  BY <1>1, <3>1, <3>2 DEF Accepted, SeqMatches, OffsetMatches, WithinQuota
  <2> QED  BY <2>1, <2>2, <2>3, <2>4, <2>5, <2>6 DEF ServerInv
<1>6. PusherInv'
  <2> HIDE DEF y
  <2>1. Served'
    BY <1>1, <1>4, SamePurges DEF IInv, Served
  <2>2. AckedIsStored' /\ ReplyIsStored'
    BY <1>1, SamePurges, SameTables DEF IInv, AckedIsStored, ReplyIsStored
  <2> QED  BY <1>1, <2>1, <2>2 DEF IInv, TypeOK, PusherInv
<1> QED  BY <1>5, <1>6, Parts

-----------------------------------------------------------------------------
(* A chunk is committed. *)

\* The row that the transaction x commits.
NewChunk(x) == [id |-> x.id, of |-> x.req.of, seq |-> x.seq + 1, file |-> x.req.file,
                from |-> x.req.from, to |-> x.req.to]

\* It has passed the checks.
LEMMA CommitAccepted ==
  ASSUME IInv, NEW x \in appending, CommitAppend(x)
  PROVE  /\ x.id \in Nat /\ x.id < nextId
         /\ SeqMatches(x) /\ OffsetMatches(x) /\ WithinQuota(x)
         /\ \A c \in chunks : c.id < x.id
         /\ \A q \in purges : q.through < x.id
BY DEF IInv, TypeOK, AppendType, Accepted, CommitAppend

\* It is not purged, and it comes after all chunks of its transcript and of its file.
LEMMA Committed ==
  ASSUME IInv, NEW x \in appending, CommitAppend(x)
  PROVE  LET n == NewChunk(x)
             t == x.req.of
         IN /\ chunks' = chunks \cup {n} /\ n \in Chunk /\ t \in Transcripts
            /\ \A c : Purged(c)' <=> Purged(c)
            /\ ~Purged(n)
            /\ \A c \in chunks : c.id < n.id
            /\ \A c \in ChunksOf(t) : c.seq < n.seq
            /\ x.seq = TranscriptSeq(t) /\ n.from = FileLength(t, n.file) /\ n.from < n.to
<1> DEFINE n == NewChunk(x)
           t == x.req.of
<1>1. chunks' = chunks \cup {n} /\ purges' = purges
  BY DEF CommitAppend, NewChunk
<1>2. AppendType(x) /\ nextId \in Nat
  BY DEF IInv, TypeOK
<1>3. /\ x.req \in [of : Transcripts, seq : Nat, file : Files, from : Nat, to : Nat]
      /\ x.req.from < x.req.to /\ x.seq \in Nat
  BY <1>2 DEF AppendType, Request
<1>4. n \in Chunk /\ t \in Transcripts /\ n.from < n.to
  BY <1>3, CommitAccepted DEF NewChunk, Chunk
<1>5. \A c : Purged(c)' <=> Purged(c)
  BY <1>1 DEF Purged
<1>6. ~Purged(n)
  BY CommitAccepted DEF IInv, TypeOK, Purge, Purged, NewChunk
<1>7. \A c \in chunks : c.id < n.id
  BY CommitAccepted DEF NewChunk
<1>8. x.seq = TranscriptSeq(t) /\ n.from = FileLength(t, n.file)
  BY CommitAccepted DEF IInv, Current, OffsetMatches, NewChunk
<1>9. ASSUME NEW c \in ChunksOf(t)
      PROVE  c.seq < n.seq
  <2>1. IsGreatest(TranscriptSeq(t), {d.seq : d \in ChunksOf(t)})
    BY <1>4, Results DEF IInv
  <2>2. c.seq <= x.seq
    BY <1>8, <2>1 DEF IsGreatest
  <2>3. c.seq \in Nat
    BY DEF ChunksOf, IInv, TypeOK, Chunk
  <2> QED  BY <1>3, <2>2, <2>3 DEF NewChunk
<1> QED  BY <1>1, <1>4, <1>5, <1>6, <1>7, <1>8, <1>9

\* What is read from the tables afterwards.
LEMMA CommittedRows ==
  ASSUME IInv, NEW x \in appending, CommitAppend(x), NEW t \in Transcripts
  PROVE  LET n == NewChunk(x)
         IN /\ t = n.of => /\ ChunksOf(t)' = ChunksOf(t) \cup {n}
                           /\ Live(t)' = Live(t) \cup {n}
                           /\ LiveIn(t, x.req.file)' = LiveIn(t, x.req.file) \cup {n}
            /\ t # n.of => ChunksOf(t)' = ChunksOf(t) /\ Live(t)' = Live(t)
            /\ \A f \in Files : t # n.of \/ f # x.req.file => LiveIn(t, f)' = LiveIn(t, f)
<1> DEFINE n == NewChunk(x)
<1>1. /\ chunks' = chunks \cup {n} /\ n.of = x.req.of /\ n.file = x.req.file
      /\ \A c : Purged(c)' <=> Purged(c)
      /\ ~Purged(n)
  BY Committed DEF NewChunk
<1>2. CASE t = n.of
  <2>1. ChunksOf(t)' = ChunksOf(t) \cup {n}
    BY <1>1, <1>2 DEF ChunksOf
  <2>2. Live(t)' = Live(t) \cup {n}
    BY <1>1, <2>1 DEF Live
  <2>3. LiveIn(t, x.req.file)' = LiveIn(t, x.req.file) \cup {n}
    BY <1>1, <2>2 DEF LiveIn
  <2>4. \A f \in Files : f # x.req.file => LiveIn(t, f)' = LiveIn(t, f)
    BY <1>1, <2>2 DEF LiveIn
  <2> QED  BY <1>2, <2>1, <2>2, <2>3, <2>4
<1>3. CASE t # n.of
  <2>1. ChunksOf(t)' = ChunksOf(t)
    BY <1>1, <1>3 DEF ChunksOf
  <2>2. Live(t)' = Live(t)
    BY <1>1, <2>1 DEF Live
  <2>3. \A f \in Files : LiveIn(t, f)' = LiveIn(t, f)
    BY <2>2 DEF LiveIn
  <2> QED  BY <1>3, <2>1, <2>2, <2>3
<1> QED  BY <1>2, <1>3

\* The file becomes as long as the chunk says; no file becomes shorter; the largest values exist.
LEMMA CommittedLengths ==
  ASSUME IInv, NEW x \in appending, CommitAppend(x), NEW t \in Transcripts
  PROVE  LET n == NewChunk(x)
         IN /\ HasGreatest({c.id : c \in ChunksOf(t)})'
            /\ HasGreatest({c.seq : c \in ChunksOf(t)})'
            /\ \A f \in Files : HasGreatest({c.to : c \in LiveIn(t, f)})'
            /\ t = n.of => FileLength(t, x.req.file)' = n.to
            /\ \A f \in Files : FileLength(t, f) <= FileLength(t, f)'
<1> DEFINE n == NewChunk(x)
           S == {c.id : c \in ChunksOf(t)}
           Q == {c.seq : c \in ChunksOf(t)}
           E(f) == {c.to : c \in LiveIn(t, f)}
<1>1. S \in SUBSET Nat /\ Q \in SUBSET Nat /\ \A f \in Files : E(f) \in SUBSET Nat
  BY Numbers DEF IInv
<1>2. HasGreatest(S) /\ HasGreatest(Q) /\ \A f \in Files : HasGreatest(E(f))
  BY DEF IInv, Keys
<1>3. n \in Chunk /\ n.of = x.req.of /\ n.file = x.req.file /\ n.from < n.to /\ \A c \in chunks : c.id < n.id
  BY Committed DEF NewChunk
<1>4. n.id \in Nat /\ n.seq \in Nat /\ n.to \in Nat /\ n.from \in Nat /\ n.file \in Files
  BY <1>3 DEF Chunk
<1>5. /\ Greatest(S) \in Nat /\ IsGreatest(Greatest(S), S)
      /\ Greatest(Q) \in Nat /\ IsGreatest(Greatest(Q), Q)
      /\ \A f \in Files : FileLength(t, f) \in Nat /\ FileLength(t, f) = Greatest(E(f))
  BY <1>1, <1>2, GreatestIs DEF FileLength
<1>6. ASSUME NEW f \in Files, t # n.of \/ f # x.req.file
      PROVE  HasGreatest(E(f)') /\ FileLength(t, f) <= FileLength(t, f)'
  <2>1. E(f)' = E(f)
    BY <1>6, CommittedRows
  <2>2. HasGreatest(E(f))
    BY <1>2
  <2>3. HasGreatest(E(f)')
    BY <2>1, <2>2
  <2>4. FileLength(t, f)' = FileLength(t, f) /\ FileLength(t, f) \in Nat
    BY <1>5, <2>1 DEF FileLength
  <2>5. FileLength(t, f) <= FileLength(t, f)'
    BY <2>4
  <2> QED  BY <2>3, <2>5, Zenon
<1>8. CASE t = n.of
  <2>1. S' = S \cup {n.id} /\ Q' = Q \cup {n.seq} /\ E(x.req.file)' = E(x.req.file) \cup {n.to}
    BY <1>8, CommittedRows
  <2>2. \A s \in S : s <= n.id
    BY <1>1, <1>3, <1>4 DEF ChunksOf
  <2>3. Greatest(S) <= n.id
    BY <1>4, <1>5, <2>2 DEF IsGreatest
  <2>4. HasGreatest(S')
    <3>1. HasGreatest(S \cup {n.id})
      BY <1>1, <1>2, <1>4, <2>3, GreatestAdd
    <3> QED  BY <2>1, <3>1
  <2>5. Greatest(Q) <= n.seq
    BY <1>3, <1>5, <1>8, Committed DEF TranscriptSeq, NewChunk
  <2>6. HasGreatest(Q')
    <3>1. HasGreatest(Q \cup {n.seq})
      BY <1>1, <1>2, <1>4, <2>5, GreatestAdd
    <3> QED  BY <2>1, <3>1
  <2>7. Greatest(E(x.req.file)) <= n.to
    BY <1>3, <1>4, <1>5, <1>8, Committed
  <2>8. HasGreatest(E(x.req.file)') /\ Greatest(E(x.req.file)') = n.to
    <3> DEFINE e == E(x.req.file)
    <3>1. e \in SUBSET Nat /\ HasGreatest(e) /\ Greatest(e) <= n.to
      BY <1>1, <1>2, <1>3, <1>4, <2>7
    <3>2. HasGreatest(e \cup {n.to}) /\ Greatest(e \cup {n.to}) = n.to
      BY <1>4, <3>1, GreatestAdd
    <3> QED  BY <2>1, <3>2
  <2>9. FileLength(t, x.req.file)' = n.to
    BY <2>8 DEF FileLength
  <2>10. \A f \in Files : HasGreatest(E(f)') /\ FileLength(t, f) <= FileLength(t, f)'
    <3>1. SUFFICES ASSUME NEW f \in Files
                   PROVE  HasGreatest(E(f)') /\ FileLength(t, f) <= FileLength(t, f)'
      OBVIOUS
    <3>2. CASE f = x.req.file
      BY <1>3, <1>4, <1>5, <2>7, <2>8, <2>9, <3>2
    <3>3. CASE f # x.req.file
      BY <1>6, <3>3, Zenon
    <3> QED  BY <3>2, <3>3
  <2> QED  BY <2>4, <2>6, <2>9, <2>10
<1>9. CASE t # n.of
  <2>1. S' = S /\ Q' = Q
    BY <1>9, CommittedRows
  <2>2. HasGreatest(S') /\ HasGreatest(Q')
    BY <1>2, <2>1
  <2>3. \A f \in Files : HasGreatest(E(f)') /\ FileLength(t, f) <= FileLength(t, f)'
    <3>1. SUFFICES ASSUME NEW f \in Files
                   PROVE  HasGreatest(E(f)') /\ FileLength(t, f) <= FileLength(t, f)'
      OBVIOUS
    <3> QED  BY <1>6, <1>9, Zenon
  <2> QED  BY <1>9, <2>2, <2>3
<1> QED  BY <1>8, <1>9

\* A chunk keeps the server's part of the invariant.
LEMMA CommitServer ==
  ASSUME IInv, NEW x \in appending, CommitAppend(x)
  PROVE  ServerInv'
<1> DEFINE n == NewChunk(x)
           t == x.req.of
<1>1. /\ chunks' = chunks \cup {n} /\ n \in Chunk /\ t \in Transcripts /\ n.of = t /\ n.file = x.req.file
      /\ \A c : Purged(c)' <=> Purged(c)
      /\ ~Purged(n)
      /\ \A c \in chunks : c.id < n.id
      /\ \A c \in ChunksOf(t) : c.seq < n.seq
  BY Committed DEF NewChunk
<1>2. /\ UNCHANGED <<source, nextId, purges, purging, due, abandoned>>
      /\ nextId \in Nat /\ n.id < nextId
      /\ appending' = {} /\ purging' = {} /\ fresh' \subseteq Transcripts
  BY <1>1, CommitAccepted DEF CommitAppend, Closed, IInv, OneOpen, TypeOK, NewChunk
<1>3. ServerTypes'
  BY <1>1, <1>2 DEF IInv, TypeOK, ServerTypes
<1>4. Keys'
  <2>1. \A c \in chunks' : c.id < nextId'
    BY <1>1, <1>2 DEF IInv, Keys, TypeOK, Chunk
  <2>2. \A q \in purges' \cup purging' : q.through < nextId'
    BY <1>2 DEF IInv, Keys, TypeOK, Purge
  <2> QED  BY <2>1, <2>2, CommittedLengths DEF Keys
<1>5. Numbered'
  <2>1. SUFFICES ASSUME NEW u \in Transcripts, NEW c \in ChunksOf(u)', NEW d \in ChunksOf(u)'
                 PROVE  (c.seq = d.seq => c = d) /\ (c.seq < d.seq <=> c.id < d.id)
    BY DEF Numbered
  <2>2. c \in ChunksOf(u) /\ d \in ChunksOf(u) => (c.seq = d.seq => c = d) /\ (c.seq < d.seq <=> c.id < d.id)
    BY DEF IInv, Numbered
  <2>3. /\ c \in ChunksOf(u) \/ (u = t /\ c = n)
        /\ d \in ChunksOf(u) \/ (u = t /\ d = n)
    BY <1>1, CommittedRows
  <2>4. \A e \in ChunksOf(u) : e.seq \in Nat /\ e.id \in Nat /\ e.id < n.id /\ (u = t => e.seq < n.seq)
    BY <1>1 DEF ChunksOf, IInv, TypeOK, Chunk
  <2>5. n.seq \in Nat /\ n.id \in Nat
    BY <1>1 DEF Chunk
  <2> QED  BY <2>2, <2>3, <2>4, <2>5
<1>6. Restorable'
  <2>1. SUFFICES ASSUME NEW u \in Transcripts
                 PROVE  /\ PulledChunks(u)' = Live(u)'
                        /\ \A c \in Live(u)' :
                             IsGreatest(c.from, {d.to : d \in {e \in Live(u)' : e.file = c.file /\ e.seq < c.seq}})
    BY DEF Restorable
  <2>2. /\ PulledChunks(u) = Live(u)
        /\ \A c \in Live(u) : IsGreatest(c.from, {d.to : d \in {e \in Live(u) : e.file = c.file /\ e.seq < c.seq}})
    BY DEF IInv, Restorable
  <2>3. CASE u # t
    <3>1. ChunksOf(u)' = ChunksOf(u) /\ Live(u)' = Live(u)
      BY <1>1, <2>3, CommittedRows
    <3>2. PulledChunks(u)' = PulledChunks(u)
      BY <1>1, <3>1 DEF PulledChunks
    <3> QED  BY <2>2, <3>1, <3>2
  <2>4. CASE u = t
    <3>1. ChunksOf(t)' = ChunksOf(t) \cup {n} /\ Live(t)' = Live(t) \cup {n}
      BY <1>1, CommittedRows
    <3>2. PulledChunks(t)' = PulledChunks(t) \cup {n}
      BY <1>1, <3>1 DEF PulledChunks
    <3>3. \A e \in Live(t) : e.seq \in Nat /\ e.seq < n.seq
      BY <1>1 DEF Live, ChunksOf, IInv, TypeOK, Chunk
    <3>4. n.seq \in Nat
      BY <1>1 DEF Chunk
    <3>5. ASSUME NEW c \in Live(t)
          PROVE  IsGreatest(c.from, {d.to : d \in {e \in Live(t)' : e.file = c.file /\ e.seq < c.seq}})
      <4>1. {e \in Live(t)' : e.file = c.file /\ e.seq < c.seq} = {e \in Live(t) : e.file = c.file /\ e.seq < c.seq}
        BY <3>1, <3>3, <3>4
      <4> QED  BY <2>2, <2>4, <4>1
    <3>6. IsGreatest(n.from, {d.to : d \in {e \in Live(t)' : e.file = n.file /\ e.seq < n.seq}})
      <4>1. {e \in Live(t)' : e.file = n.file /\ e.seq < n.seq} = LiveIn(t, n.file)
        BY <3>1, <3>3, <3>4 DEF LiveIn
      <4>2. n.from = FileLength(t, n.file) /\ n.file \in Files
        BY <1>1, Committed DEF Chunk
      <4>3. IsGreatest(FileLength(t, n.file), {d.to : d \in LiveIn(t, n.file)})
        BY <1>1, <4>2, Results DEF IInv
      <4> QED  BY <4>1, <4>2, <4>3
    <3> QED  BY <2>2, <2>4, <3>1, <3>2, <3>5, <3>6
  <2> QED  BY <2>3, <2>4
<1>7. OneOpen' /\ Current' /\ Accepted'
  BY <1>2 DEF OneOpen, Current, Accepted
<1> QED  BY <1>3, <1>4, <1>5, <1>6, <1>7 DEF ServerInv

\* The push that sent the chunk is told of it, and what the others count as sent is still stored.
LEMMA CommitPushers ==
  ASSUME IInv, NEW x \in appending, CommitAppend(x)
  PROVE  PusherInv'
<1> DEFINE n == NewChunk(x)
<1>1. /\ UNCHANGED purges /\ appending' = {}
      /\ x.by \in Pushers \cup {NoPusher}
      /\ IF x.by = NoPusher THEN UNCHANGED pusher ELSE Becomes(x.by, [pusher[x.by] EXCEPT !.pc = "stored"])
  BY DEF CommitAppend, Closed, IInv, OneOpen, TypeOK, AppendType
<1>2. pusher \in [Pushers -> Pushing] /\ TranscriptOf \in [Pushers -> Transcripts]
  BY PusherAssumption DEF IInv, TypeOK
<1>3. pusher' \in [Pushers -> Pushing]
  <2>1. x.by \in Pushers => [pusher[x.by] EXCEPT !.pc = "stored"] \in Pushing
    BY <1>2 DEF Pushing
  <2> QED  BY <1>1, <1>2, <2>1 DEF Becomes
<1>4. \A q \in Pushers : /\ pusher'[q].data = pusher[q].data /\ pusher'[q].lens = pusher[q].lens
                         /\ pusher'[q].seq = pusher[q].seq /\ pusher'[q].file = pusher[q].file
                         /\ pusher'[q].cut = pusher[q].cut /\ pusher'[q].known = pusher[q].known
  BY <1>1, <1>2 DEF Becomes, Pushing
<1>5. ASSUME NEW q \in Pushers
      PROVE  \/ pusher'[q].pc = pusher[q].pc
             \/ q = x.by /\ x.by # NoPusher /\ pusher'[q].pc = "stored" /\ pusher[q].pc = "wait"
  BY <1>1, <1>2 DEF Becomes, Pushing, IInv, Served
<1>6. ASSUME NEW q \in Pushers
      PROVE  /\ NotPurgedSince(q)' <=> NotPurgedSince(q)
             /\ ToSend(q)' = ToSend(q) /\ NextChunk(q)' = NextChunk(q)
  BY <1>1, <1>4 DEF NotPurgedSince, ToSend, NextChunk
<1>7. Served'
  BY <1>1, <1>4, <1>5, <1>6 DEF Served, IInv
<1>8. ASSUME NEW q \in Pushers, NEW f \in Files, NEW k \in Nat, k <= FileLength(TranscriptOf[q], f)
      PROVE  k <= FileLength(TranscriptOf[q], f)'
  <2>1. TranscriptOf[q] \in Transcripts /\ FileLength(TranscriptOf[q], f) \in Nat
    BY <1>2, Results DEF IInv
  <2>2. FileLength(TranscriptOf[q], f) <= FileLength(TranscriptOf[q], f)'
    BY <2>1, CommittedLengths
  <2>3. FileLength(TranscriptOf[q], f)' \in Nat
    <3>1. Keys' /\ TypeOK'
      BY CommitServer, <1>3 DEF ServerInv, ServerTypes, TypeOK
    <3> QED  BY <2>1, <3>1, ResultsAfter
  <2> QED  BY <1>8, <2>1, <2>2, <2>3
<1>9. AckedIsStored'
  <2>1. SUFFICES ASSUME NEW q \in Pushers, pusher'[q].pc \in {"send", "wait", "stored"}, NotPurgedSince(q)',
                        NEW f \in Files
                 PROVE  pusher'[q].lens[f] <= FileLength(TranscriptOf[q], f)'
    BY DEF AckedIsStored
  <2>2. pusher[q].lens[f] <= FileLength(TranscriptOf[q], f)
    BY <1>5, <1>6, <2>1 DEF IInv, AckedIsStored
  <2>3. pusher[q].lens[f] \in Nat
    BY <1>2 DEF Pushing
  <2> QED  BY <1>4, <1>8, <2>2, <2>3
<1>10. ReplyIsStored'
  <2>1. SUFFICES ASSUME NEW q \in Pushers, pusher'[q].pc = "stored", NotPurgedSince(q)',
                        NEW f, f = pusher[q].file
                 PROVE  NextChunk(q).to <= FileLength(TranscriptOf[q], f)'
    BY <1>4, <1>6 DEF ReplyIsStored
  <2>2. pusher[q].file \in ToSend(q) /\ pusher[q].file \in Files
    BY <1>5, <2>1 DEF IInv, Served, ToSend
  <2>3. NextChunk(q).to \in Nat
    BY <2>2, RequestType DEF IInv, Request
  <2>4. CASE pusher[q].pc = "stored"
    <3>1. NextChunk(q).to <= FileLength(TranscriptOf[q], pusher[q].file)
      BY <1>6, <2>1, <2>4 DEF IInv, ReplyIsStored
    <3> QED  BY <1>8, <2>1, <2>2, <2>3, <3>1
  <2>5. CASE q = x.by /\ pusher[q].pc = "wait"
    <3>1. x.req = NextChunk(q)
      BY <2>5 DEF IInv, Served
    <3>2. x.req.of = TranscriptOf[q] /\ x.req.file = f /\ x.req.to = NextChunk(q).to
      BY <2>1, <3>1 DEF NextChunk
    <3>3. FileLength(TranscriptOf[q], f)' = x.req.to
      BY <1>2, <2>1, <3>2, CommittedLengths DEF NewChunk
    <3> QED  BY <2>3, <3>2, <3>3
  <2> QED  BY <1>5, <2>1, <2>4, <2>5
<1> QED  BY <1>3, <1>7, <1>9, <1>10 DEF PusherInv

-----------------------------------------------------------------------------
(* A purge is inserted. *)

\* It covers all chunks of its transcript and no other chunk.
LEMMA PurgedRows ==
  ASSUME IInv, NEW p \in purging, InsertTranscriptPurge(p)
  PROVE  /\ p \in Purge /\ p.of \in Transcripts /\ ChunksOf(p.of) # {}
         /\ \A u : ChunksOf(u)' = ChunksOf(u)
         /\ Live(p.of)' = {} /\ PulledChunks(p.of)' = {}
         /\ \A u : u # p.of => Live(u)' = Live(u) /\ PulledChunks(u)' = PulledChunks(u)
<1>1. chunks' = chunks /\ purges' = purges \cup {p}
  BY DEF InsertTranscriptPurge
<1>2. p \in Purge /\ p.of \in Transcripts /\ p.through \in Nat
  BY DEF IInv, TypeOK, Purge
<1>3. ChunksOf(p.of) # {} /\ p.through = Through(p.of)
  BY DEF IInv, Current
<1>4. \A u : ChunksOf(u)' = ChunksOf(u)
  BY <1>1 DEF ChunksOf
<1>5. \A c : Purged(c)' <=> Purged(c) \/ (p.of = c.of /\ p.through >= c.id)
  BY <1>1 DEF Purged
<1>6. \A c \in ChunksOf(p.of) : c.seq \in Nat /\ Purged(c)'
  <2>1. IsGreatest(p.through, {c.id : c \in ChunksOf(p.of)})
    BY <1>2, <1>3, Results DEF IInv
  <2>2. \A c \in ChunksOf(p.of) : c.id <= p.through /\ c.of = p.of /\ c.id \in Nat /\ c.seq \in Nat
    BY <2>1 DEF IsGreatest, ChunksOf, IInv, TypeOK, Chunk
  <2> QED  BY <1>2, <1>5, <2>2
<1>7. Live(p.of)' = {} /\ PulledChunks(p.of)' = {}
  <2>1. Live(p.of)' = {}
    BY <1>4, <1>6 DEF Live
  <2>2. PulledChunks(p.of)' = {}
    BY <1>4, <1>6 DEF PulledChunks
  <2> QED  BY <2>1, <2>2
<1>8. ASSUME NEW u, u # p.of
      PROVE  Live(u)' = Live(u) /\ PulledChunks(u)' = PulledChunks(u)
  <2>1. \A c \in ChunksOf(u) : Purged(c)' <=> Purged(c)
    BY <1>5, <1>8 DEF ChunksOf
  <2>2. Live(u)' = Live(u)
    BY <1>4, <2>1 DEF Live
  <2>3. PulledChunks(u)' = PulledChunks(u)
    BY <1>4, <2>1 DEF PulledChunks
  <2> QED  BY <2>2, <2>3
<1> QED  BY <1>2, <1>3, <1>4, <1>7, <1>8

\* A purge keeps the invariant.
LEMMA PurgeStep ==
  ASSUME IInv, NEW p \in purging, InsertTranscriptPurge(p)
  PROVE  IInv'
<1>1. /\ UNCHANGED <<source, chunks, nextId, fresh, due, abandoned, pusher>>
      /\ purges' = purges \cup {p} /\ purging' = {} /\ appending' = {}
  BY DEF InsertTranscriptPurge, IInv, OneOpen
<1>2. /\ p \in Purge /\ p.of \in Transcripts
      /\ Live(p.of)' = {} /\ PulledChunks(p.of)' = {}
      /\ \A u : ChunksOf(u)' = ChunksOf(u)
      /\ \A u : u # p.of => Live(u)' = Live(u) /\ PulledChunks(u)' = PulledChunks(u)
  BY PurgedRows
<1>3. \A u, f : /\ u = p.of => LiveIn(u, f)' = {}
                /\ u # p.of => LiveIn(u, f)' = LiveIn(u, f)
  BY <1>2 DEF LiveIn
<1>4. ServerInv'
  <2>1. ServerTypes'
    BY <1>1, <1>2 DEF IInv, TypeOK, ServerTypes
  <2>2. Keys'
    <3>1. /\ \A c \in chunks' : c.id < nextId'
          /\ \A q \in purges' \cup purging' : q.through < nextId'
      BY <1>1 DEF IInv, Keys
    <3>2. ASSUME NEW u \in Transcripts
          PROVE  HasGreatest({c.id : c \in ChunksOf(u)'}) /\ HasGreatest({c.seq : c \in ChunksOf(u)'})
      BY <1>2 DEF IInv, Keys
    <3>3. ASSUME NEW u \in Transcripts, NEW f \in Files
          PROVE  HasGreatest({c.to : c \in LiveIn(u, f)'})
      <4>1. CASE u = p.of
        <5>1. {c.to : c \in LiveIn(u, f)'} = {}
          BY <1>3, <4>1
        <5> QED  BY <5>1, GreatestNone
      <4>2. CASE u # p.of
        <5>1. LiveIn(u, f)' = LiveIn(u, f)
          BY <1>3, <4>2
        <5>2. HasGreatest({c.to : c \in LiveIn(u, f)})
          BY DEF IInv, Keys
        <5> QED  BY <5>1, <5>2
      <4> QED  BY <4>1, <4>2
    <3> QED  BY <3>1, <3>2, <3>3 DEF Keys
  <2>3. Numbered'
    BY <1>2 DEF IInv, Numbered
  <2>4. Restorable'
    <3>1. SUFFICES ASSUME NEW u \in Transcripts
                   PROVE  /\ PulledChunks(u)' = Live(u)'
                          /\ \A c \in Live(u)' :
                               IsGreatest(c.from, {d.to : d \in {e \in Live(u)' : e.file = c.file /\ e.seq < c.seq}})
      BY DEF Restorable
    <3>2. CASE u = p.of
      BY <1>2, <3>2
    <3>3. CASE u # p.of
      <4>1. PulledChunks(u)' = PulledChunks(u) /\ Live(u)' = Live(u)
        BY <1>2, <3>3
      <4> QED  BY <4>1 DEF IInv, Restorable
    <3> QED  BY <3>2, <3>3
  <2>5. OneOpen' /\ Current' /\ Accepted'
    BY <1>1 DEF OneOpen, Current, Accepted
  <2> QED  BY <2>1, <2>2, <2>3, <2>4, <2>5 DEF ServerInv
<1>5. PusherInv'
  <2>1. CASE p \in purges
    <3>1. UNCHANGED <<chunks, purges, pusher>> /\ appending' \subseteq appending
      BY <1>1, <2>1
    <3> QED  BY <3>1, QuietPushers, Parts
  <2>2. CASE p \notin purges
    <3>1. Served'
      BY <1>1 DEF IInv, Served, ToSend
    <3>2. ASSUME NEW q \in Pushers, NotPurgedSince(q)'
          PROVE  /\ NotPurgedSince(q) /\ NextChunk(q)' = NextChunk(q)
                 /\ \A f : FileLength(TranscriptOf[q], f)' = FileLength(TranscriptOf[q], f)
      <4>1. pusher[q].known = {r \in purges' : r.of = TranscriptOf[q]} /\ pusher[q].known \subseteq purges
        BY <1>1, <3>2 DEF NotPurgedSince, IInv, Served
      <4>2. TranscriptOf[q] # p.of
        BY <1>1, <2>2, <4>1
      <4>3. NotPurgedSince(q)
        BY <1>1, <4>1, <4>2 DEF NotPurgedSince
      <4>4. \A f : FileLength(TranscriptOf[q], f)' = FileLength(TranscriptOf[q], f)
        BY <1>3, <4>2 DEF FileLength
      <4>5. NextChunk(q)' = NextChunk(q)
        BY <1>1 DEF NextChunk
      <4> QED  BY <4>3, <4>4, <4>5
    <3>3. AckedIsStored' /\ ReplyIsStored'
      BY <1>1, <3>2 DEF IInv, AckedIsStored, ReplyIsStored
    <3> QED  BY <1>1, <3>1, <3>3 DEF IInv, TypeOK, PusherInv
  <2> QED  BY <2>1, <2>2
<1> QED  BY <1>4, <1>5, Parts

-----------------------------------------------------------------------------
(* The theorems. *)

\* There is nothing at first.
LEMMA InitIInv == Init => IInv
<1> SUFFICES ASSUME Init PROVE IInv
  OBVIOUS
<1> USE DEF Init
<1>1. TypeOK
  BY IdleType DEF TypeOK, Nothing
<1>2. \A t \in Transcripts : ChunksOf(t) = {} /\ Live(t) = {} /\ PulledChunks(t) = {}
  BY DEF ChunksOf, Live, PulledChunks
<1>3. Keys
  <2>1. ASSUME NEW t \in Transcripts
        PROVE  /\ {c.id : c \in ChunksOf(t)} = {} /\ {c.seq : c \in ChunksOf(t)} = {}
               /\ \A f \in Files : {c.to : c \in LiveIn(t, f)} = {}
    BY <1>2 DEF LiveIn
  <2>2. ASSUME NEW t \in Transcripts
        PROVE  /\ HasGreatest({c.id : c \in ChunksOf(t)}) /\ HasGreatest({c.seq : c \in ChunksOf(t)})
               /\ \A f \in Files : HasGreatest({c.to : c \in LiveIn(t, f)})
    BY <2>1, GreatestNone
  <2> QED  BY <2>2 DEF Keys
<1>4. Numbered /\ OneOpen /\ Current /\ Accepted /\ Restorable
  BY <1>2 DEF Numbered, OneOpen, Current, Accepted, Restorable
<1>5. \A p \in Pushers : pusher[p].pc = "idle" /\ pusher[p].known = {}
  BY DEF Idle
<1>6. Served /\ AckedIsStored /\ ReplyIsStored
  BY <1>5 DEF Served, AckedIsStored, ReplyIsStored
<1> QED  BY <1>1, <1>3, <1>4, <1>6 DEF IInv

\* Every step keeps the invariant.
LEMMA Inductive == IInv /\ [Next]_vars => IInv'
<1> SUFFICES ASSUME IInv, [Next]_vars PROVE IInv'
  OBVIOUS
<1>1. CASE UNCHANGED vars
  <2>1. UNCHANGED <<source, chunks, nextId, purges, appending, purging, fresh, due, abandoned, pusher>>
    BY <1>1 DEF vars, serverVars
  <2>2. ServerInv'
    BY <2>1, QuietServer, Parts DEF ServerInv, ServerTypes
  <2> QED  BY <2>1, <2>2, QuietPushers, Parts
<1>2. CASE Work
  <2>1. CASE \E p \in Pushers : Push(p)
    BY <2>1, PushStep
  <2>2. ASSUME NEW r \in abandoned, HandleAppend(NoPusher, r)
        PROVE  IInv'
    BY <2>2, RefusedStep, BeginAppendStep, PusherAssumption DEF HandleAppend
  <2>3. ASSUME NEW p \in Pushers, Waiting(p), HandleAppend(p, NextChunk(p))
        PROVE  IInv'
    BY <2>3, RefusedStep, BeginAppendStep DEF HandleAppend, Waiting
  <2>4. ASSUME NEW x \in appending, EndAppend(x)
        PROVE  IInv'
    BY <2>4, InsertStep, CommitServer, CommitPushers, EndedStep, Parts DEF EndAppend
  <2>5. ASSUME NEW t \in Transcripts, PurgeTranscript(t) \/ PurgeExpired(t)
        PROVE  IInv'
    <3>1. \E cause \in {"asked", "retention"} : BeginPurge(t, cause)
      BY <2>5 DEF PurgeTranscript, PurgeExpired
    <3>2. due' \subseteq Transcripts
      BY <2>5 DEF PurgeTranscript, PurgeExpired, IInv, TypeOK
    <3> QED  BY <3>1, <3>2, BeginPurgeStep
  <2>6. CASE \E q \in purging : InsertTranscriptPurge(q)
    BY <2>6, PurgeStep
  <2>7. CASE \/ \E t \in Transcripts, f \in Files : Grow(t, f)
             \/ \E t \in Transcripts : SkipExpired(t) \/ Expire(t)
             \/ FindExpired
    BY <2>7, QuietStep
  <2> QED  BY <1>2, <2>1, <2>2, <2>3, <2>4, <2>5, <2>6, <2>7 DEF Work
<1>3. CASE Disturbance
  <2>1. CASE \E p \in Pushers : GiveUp(p)
    BY <2>1, GiveUpStep
  <2>2. CASE \E r \in abandoned : Fail(NoPusher, r)
    BY <2>2, RefusedStep
  <2>3. CASE \E p \in Pushers : Waiting(p) /\ Fail(p, NextChunk(p))
    BY <2>3, RefusedStep
  <2>4. CASE \E x \in appending : Rollback(x)
    BY <2>4, EndedStep
  <2>5. CASE \E q \in purging : RollbackPurge(q)
    BY <2>5, QuietStep
  <2> QED  BY <1>3, <2>1, <2>2, <2>3, <2>4, <2>5 DEF Disturbance
<1> QED  BY <1>1, <1>2, <1>3 DEF Next

\* The inductive invariant holds in every reachable state.
THEOREM TranscriptsInvariant == Spec => []IInv
BY InitIInv, Inductive, PTL DEF Spec

\* At every moment a pull can put every session together, however pushes and purges are interleaved (downloadRestore).
THEOREM TranscriptsRestorable == Spec => []Restorable
<1>1. IInv => Restorable
  BY DEF IInv
<1> QED  BY <1>1, TranscriptsInvariant, PTL

\* What a push counts as sent is stored, unless the transcript was purged since it last asked (sendPlans).
THEOREM TranscriptsAcked == Spec => []AckedIsStored
<1>1. IInv => AckedIsStored
  BY DEF IInv
<1> QED  BY <1>1, TranscriptsInvariant, PTL

\* The tables change only when a transaction of an append or a purge commits.
LEMMA TableSteps ==
  ASSUME [Next]_vars
  PROVE  \/ UNCHANGED <<chunks, purges>>
         \/ \E x \in appending : CommitAppend(x)
         \/ \E q \in purging : InsertTranscriptPurge(q)
<1> USE DEF serverVars
<1>1. CASE UNCHANGED vars
  BY <1>1 DEF vars
<1>2. CASE Work
  <2>1. CASE \E p \in Pushers : Push(p)
    BY <2>1 DEF Push, Start, ReadSeq, ReadLens, Send, Finish, Receive
  <2>2. CASE \E by, r : HandleAppend(by, r)
    BY <2>2 DEF HandleAppend, TooLarge, BeginAppend
  <2>3. CASE \E x \in appending : EndAppend(x)
    BY <2>3 DEF EndAppend, InsertTranscriptChunk, RefuseAppend
  <2>4. CASE \/ \E t \in Transcripts : PurgeTranscript(t) \/ PurgeExpired(t) \/ SkipExpired(t) \/ Expire(t)
             \/ FindExpired
             \/ \E t \in Transcripts, f \in Files : Grow(t, f)
    BY <2>4 DEF PurgeTranscript, PurgeExpired, BeginPurge, SkipExpired, Expire, FindExpired, Grow
  <2> QED  BY <1>2, <2>1, <2>2, <2>3, <2>4 DEF Work
<1>3. CASE Disturbance
  BY <1>3 DEF Disturbance, GiveUp, Fail, Rollback, RollbackPurge
<1> QED  BY <1>1, <1>2, <1>3 DEF Next

\* A purge takes all that is stored at that moment, and the file lengths start at 0 again.
THEOREM TranscriptsPurgeTakesAll == Spec => PurgeTakesAll
<1>1. IInv /\ [Next]_vars => [\A p \in purges' \ purges : ChunksOf(p.of) # {} /\ Live(p.of)' = {}]_vars
  <2> SUFFICES ASSUME IInv, [Next]_vars, NEW p \in purges' \ purges
               PROVE  ChunksOf(p.of) # {} /\ Live(p.of)' = {}
    OBVIOUS
  <2>1. PICK q \in purging : InsertTranscriptPurge(q)
    BY TableSteps DEF CommitAppend
  <2>2. p = q
    BY <2>1 DEF InsertTranscriptPurge
  <2> QED  BY <2>1, <2>2, PurgedRows
<1> QED  BY <1>1, TranscriptsInvariant, PTL DEF Spec, PurgeTakesAll

-----------------------------------------------------------------------------
(* The limit of the user. *)

\* Only finitely many lines are stored, so that they can be counted, and no more than the limit.
QuotaInv == IsFiniteSet(Stored) /\ Quota

\* The lines a + 1 .. b of one chunk are b - a.
LEMMA LinesCounted ==
  ASSUME NEW k, NEW a \in Nat, NEW b \in Nat, a < b
  PROVE  IsFiniteSet({k} \X (a + 1 .. b)) /\ Cardinality({k} \X (a + 1 .. b)) = b - a
<1>1. IsFiniteSet({k}) /\ Cardinality({k}) = 1
  BY FS_Singleton
<1>2. a + 1 \in Int /\ b \in Int /\ ~(a + 1 > b) /\ b - (a + 1) + 1 = b - a
  OBVIOUS
<1>3. \A u, v \in Int : IsFiniteSet(u .. v) /\ Cardinality(u .. v) = IF u > v THEN 0 ELSE v - u + 1
  BY FS_Interval, Zenon
<1>4. IsFiniteSet(a + 1 .. b) /\ Cardinality(a + 1 .. b) = b - a
  BY <1>2, <1>3
<1>5. \A S, T : IsFiniteSet(S) /\ IsFiniteSet(T) =>
               IsFiniteSet(S \X T) /\ Cardinality(S \X T) = Cardinality(S) * Cardinality(T)
  BY FS_Product, Zenon
<1>6. /\ IsFiniteSet({k} \X (a + 1 .. b))
      /\ Cardinality({k} \X (a + 1 .. b)) = Cardinality({k}) * Cardinality(a + 1 .. b)
  BY <1>1, <1>4, <1>5, Zenon
<1>7. 1 * (b - a) = b - a
  OBVIOUS
<1> QED  BY <1>1, <1>4, <1>6, <1>7, Zenon

\* Two sets with nothing in common count together.
LEMMA DisjointCounted ==
  ASSUME NEW S, NEW T, IsFiniteSet(S), IsFiniteSet(T), S \cap T = {}
  PROVE  IsFiniteSet(S \cup T) /\ Cardinality(S \cup T) = Cardinality(S) + Cardinality(T)
<1>1. /\ IsFiniteSet(S \cup T)
      /\ Cardinality(S \cup T) = Cardinality(S) + Cardinality(T) - Cardinality(S \cap T)
  BY FS_Union, Zenon
<1>2. Cardinality(S \cap T) = 0 /\ Cardinality(S) \in Nat /\ Cardinality(T) \in Nat
  BY FS_EmptySet, FS_CardinalityType
<1> QED  BY <1>1, <1>2

\* A chunk adds its own lines, as many as it says, to those that are stored.
LEMMA CommittedLines ==
  ASSUME IInv, IsFiniteSet(Stored), NEW x \in appending, CommitAppend(x)
  PROVE  IsFiniteSet(Stored') /\ UserBytes' = UserBytes + (x.req.to - x.req.from)
<1> DEFINE n == NewChunk(x)
           Named(c) == {c.id} \X (c.from + 1 .. c.to)
<1>1. /\ chunks' = chunks \cup {n} /\ n \in Chunk
      /\ \A c : Purged(c)' <=> Purged(c)
      /\ ~Purged(n) /\ (\A c \in chunks : c.id < n.id) /\ n.from < n.to
  BY Committed
<1>2. n.from \in Nat /\ n.to \in Nat /\ n.id \in Nat
  BY <1>1 DEF Chunk
<1>3. Stored' = Stored \cup Named(n)
  <2>1. {d \in chunks' : ~Purged(d)'} = {d \in chunks : ~Purged(d)} \cup {n}
    BY <1>1
  <2> QED  BY <2>1 DEF Stored
<1>4. Stored \cap Named(n) = {}
  <2> SUFFICES ASSUME NEW l \in Stored, l \in Named(n)
               PROVE  FALSE
    OBVIOUS
  <2>1. PICK c \in chunks : l \in Named(c)
    BY DEF Stored
  <2>2. l[1] = c.id /\ l[1] = n.id
    BY <2>1
  <2>3. c \in chunks /\ c.id \in Nat
    BY DEF IInv, TypeOK, Chunk
  <2>4. c.id < n.id /\ c.id = n.id
    BY <1>1, <2>2, <2>3
  <2> QED  BY <1>2, <2>3, <2>4
<1>5. IsFiniteSet(Named(n)) /\ Cardinality(Named(n)) = n.to - n.from
  BY <1>1, <1>2, LinesCounted
<1>6. IsFiniteSet(Stored') /\ Cardinality(Stored') = Cardinality(Stored) + Cardinality(Named(n))
  <2> HIDE DEF Named
  <2> QED  BY <1>3, <1>4, <1>5, DisjointCounted
<1>8. n.to = x.req.to /\ n.from = x.req.from
  BY DEF NewChunk
<1> QED  BY <1>5, <1>6, <1>8 DEF UserBytes

\* The limit is kept by whoever holds the lock: what was read as used is still what is used.
LEMMA QuotaStep == IInv /\ QuotaInv /\ [Next]_vars => QuotaInv'
<1> SUFFICES ASSUME IInv, QuotaInv, [Next]_vars
             PROVE  QuotaInv'
  OBVIOUS
<1>1. CASE UNCHANGED <<chunks, purges>>
  <2>1. UserBytes' = UserBytes
    BY <1>1, SameTables
  <2>2. Stored' = Stored
    BY <1>1 DEF Stored, Purged
  <2> QED  BY <2>1, <2>2 DEF QuotaInv, Quota
<1>2. ASSUME NEW x \in appending, CommitAppend(x)
      PROVE  QuotaInv'
  <2>1. IsFiniteSet(Stored') /\ UserBytes' = UserBytes + (x.req.to - x.req.from)
    BY <1>2, CommittedLines DEF QuotaInv
  <2>2. x.used = UserBytes
    BY DEF IInv, Current
  <2>3. x.used + (x.req.to - x.req.from) <= MaxUser
    BY <1>2, CommitAccepted DEF WithinQuota
  <2> QED  BY <2>1, <2>2, <2>3 DEF QuotaInv, Quota
<1>3. ASSUME NEW q \in purging, InsertTranscriptPurge(q)
      PROVE  QuotaInv'
  <2>1. chunks' = chunks /\ purges \subseteq purges'
    BY <1>3 DEF InsertTranscriptPurge
  <2>2. \A c : Purged(c) => Purged(c)'
    BY <2>1 DEF Purged
  <2>3. {d \in chunks' : ~Purged(d)'} \subseteq {d \in chunks : ~Purged(d)}
    BY <2>1, <2>2
  <2>4. Stored' \subseteq Stored
    BY <2>3 DEF Stored
  <2>5. IsFiniteSet(Stored') /\ Cardinality(Stored') <= Cardinality(Stored)
    BY <2>4, FS_Subset DEF QuotaInv
  <2>6. Cardinality(Stored') \in Nat /\ Cardinality(Stored) \in Nat
    BY <2>5, FS_CardinalityType DEF QuotaInv
  <2> QED  BY <2>5, <2>6, LimitAssumption DEF QuotaInv, Quota, UserBytes
<1> QED  BY <1>1, <1>2, <1>3, TableSteps

\* The chunks of a user never take more than the limit (AppendTranscriptChunk).
THEOREM TranscriptsQuota == Spec => []Quota
<1>1. Init => QuotaInv
  <2> SUFFICES ASSUME Init PROVE QuotaInv
    OBVIOUS
  <2>1. Stored = {}
    BY DEF Init, Stored
  <2> QED  BY <2>1, FS_EmptySet, LimitAssumption DEF QuotaInv, Quota, UserBytes
<1>2. QuotaInv => Quota
  BY DEF QuotaInv
<1> QED  BY <1>1, <1>2, QuotaStep, TranscriptsInvariant, PTL DEF Spec

-----------------------------------------------------------------------------
(* What a step makes of a push and of a file. *)

\* A step changes a push as one of its own actions does, or ends it, refuses its request or stores its chunk.
LEMMA PusherSteps ==
  ASSUME IInv, [Next]_vars, NEW p \in Pushers, pusher'[p] # pusher[p]
  PROVE  \/ Push(p)
         \/ pusher'[p] = Idle
         \/ pusher[p].pc = "wait" /\ \E error : pusher'[p] = After(p, error)
         \/ pusher[p].pc = "wait" /\ pusher'[p] = [pusher[p] EXCEPT !.pc = "stored"]
<1>1. pusher \in [Pushers -> Pushing] /\ NoPusher \notin Pushers
  BY PusherAssumption DEF IInv, TypeOK
<1>2. ASSUME NEW q \in Pushers, NEW new, Becomes(q, new)
      PROVE  p = q /\ pusher'[p] = new
  BY <1>1, <1>2 DEF Becomes
<1>3. ASSUME NEW by \in Pushers \cup {NoPusher}, NEW error, Refuse(by, error)
      PROVE  p = by /\ pusher'[p] = After(p, error)
  BY <1>2, <1>3 DEF Refuse
<1>4. \A x \in appending : /\ x.by \in Pushers \cup {NoPusher}
                           /\ x.by \in Pushers => pusher[x.by].pc = "wait"
  BY DEF IInv, TypeOK, AppendType, Served
<1>5. pusher' # pusher
  OBVIOUS
<1>6. CASE Work
  <2>1. ASSUME NEW q \in Pushers, Push(q)
        PROVE  Push(p)
    <3>1. \E new : Becomes(q, new)
      BY <2>1 DEF Push, Start, ReadSeq, ReadLens, Send, Finish, Receive
    <3>2. p = q
      BY <1>2, <3>1
    <3> QED  BY <2>1, <3>2
  <2>2. ASSUME NEW by \in Pushers \cup {NoPusher}, NEW r, HandleAppend(by, r)
        PROVE  p = by /\ \E error : pusher'[p] = After(p, error)
    BY <1>3, <1>5, <2>2 DEF HandleAppend, TooLarge, BeginAppend
  <2>3. ASSUME NEW x \in appending, EndAppend(x)
        PROVE  \/ pusher[p].pc = "wait" /\ \E error : pusher'[p] = After(p, error)
               \/ pusher[p].pc = "wait" /\ pusher'[p] = [pusher[p] EXCEPT !.pc = "stored"]
    <3>1. CASE RefuseAppend(x)
      BY <1>3, <1>4, <3>1 DEF RefuseAppend
    <3>2. CASE CommitAppend(x)
      BY <1>2, <1>4, <1>5, <3>2 DEF CommitAppend
    <3>3. CASE InsertTranscriptChunk(x)
      BY <1>5, <3>3 DEF InsertTranscriptChunk
    <3> QED  BY <2>3, <3>1, <3>2, <3>3 DEF EndAppend
  <2>4. CASE \/ \E t \in Transcripts : PurgeTranscript(t) \/ PurgeExpired(t) \/ SkipExpired(t) \/ Expire(t)
             \/ FindExpired
             \/ \E t \in Transcripts, f \in Files : Grow(t, f)
             \/ \E q \in purging : InsertTranscriptPurge(q)
    BY <1>5, <2>4 DEF PurgeTranscript, PurgeExpired, BeginPurge, SkipExpired, Expire, FindExpired, Grow,
                      InsertTranscriptPurge
  <2>5. CASE \E r \in abandoned : HandleAppend(NoPusher, r)
    BY <1>1, <2>2, <2>5
  <2>6. CASE \E q \in Pushers : Waiting(q) /\ HandleAppend(q, NextChunk(q))
    BY <2>2, <2>6 DEF Waiting
  <2> QED  BY <1>6, <2>1, <2>3, <2>4, <2>5, <2>6 DEF Work
<1>7. CASE Disturbance
  <2>1. ASSUME NEW q \in Pushers, GiveUp(q)
        PROVE  pusher'[p] = Idle
    BY <1>2, <2>1 DEF GiveUp
  <2>2. ASSUME NEW r \in abandoned, Fail(NoPusher, r)
        PROVE  FALSE
    BY <1>1, <1>3, <2>2 DEF Fail
  <2>3. ASSUME NEW q \in Pushers, Waiting(q), Fail(q, NextChunk(q))
        PROVE  pusher[p].pc = "wait" /\ \E error : pusher'[p] = After(p, error)
    BY <1>3, <2>3 DEF Fail, Waiting
  <2>4. ASSUME NEW x \in appending, Rollback(x)
        PROVE  pusher[p].pc = "wait" /\ \E error : pusher'[p] = After(p, error)
    BY <1>3, <1>4, <1>5, <2>4 DEF Rollback
  <2>5. CASE \E q \in purging : RollbackPurge(q)
    BY <1>5, <2>5 DEF RollbackPurge
  <2> QED  BY <1>7, <2>1, <2>2, <2>3, <2>4, <2>5 DEF Disturbance
<1>8. CASE UNCHANGED vars
  BY <1>5, <1>8 DEF vars
<1> QED  BY <1>6, <1>7, <1>8 DEF Next

\* Only the agent makes a file longer.
LEMMA SourceSteps ==
  ASSUME [Next]_vars
  PROVE  UNCHANGED source \/ \E t \in Transcripts, f \in Files : Grow(t, f)
<1>1. CASE Work
  <2>1. CASE \E p \in Pushers : Push(p)
    BY <2>1 DEF Push, Start, ReadSeq, ReadLens, Send, Finish, Receive
  <2>2. CASE \E by, r : HandleAppend(by, r)
    BY <2>2 DEF HandleAppend, TooLarge, BeginAppend
  <2>3. CASE \E x \in appending : EndAppend(x)
    BY <2>3 DEF EndAppend, RefuseAppend, InsertTranscriptChunk, CommitAppend
  <2>4. CASE \/ \E t \in Transcripts : PurgeTranscript(t) \/ PurgeExpired(t) \/ SkipExpired(t) \/ Expire(t)
             \/ FindExpired
             \/ \E q \in purging : InsertTranscriptPurge(q)
    BY <2>4 DEF PurgeTranscript, PurgeExpired, BeginPurge, SkipExpired, Expire, FindExpired, InsertTranscriptPurge
  <2> QED  BY <1>1, <2>1, <2>2, <2>3, <2>4 DEF Work
<1>2. CASE Disturbance
  BY <1>2 DEF Disturbance, GiveUp, Fail, Rollback, RollbackPurge
<1> QED  BY <1>1, <1>2 DEF Next, vars

\* No file becomes shorter.
LEMMA SourceGrows ==
  ASSUME IInv, [Next]_vars, NEW t \in Transcripts, NEW f \in Files
  PROVE  source[t][f] \in Nat /\ source'[t][f] \in Nat /\ source[t][f] <= source'[t][f]
<1>1. source \in [Transcripts -> [Files -> Nat]]
  BY DEF IInv, TypeOK
<1>2. CASE UNCHANGED source
  BY <1>1, <1>2
<1>3. ASSUME NEW u \in Transcripts, NEW g \in Files, Grow(u, g)
      PROVE  source'[t][f] \in Nat /\ source[t][f] <= source'[t][f]
  <2>1. source' = [source EXCEPT ![u] = [source[u] EXCEPT ![g] = source[u][g] + 1]]
    BY <1>3 DEF Grow
  <2> QED  BY <1>1, <2>1
<1> QED  BY <1>1, <1>2, <1>3, SourceSteps

-----------------------------------------------------------------------------
(* What the pulls get is a log of what was written. *)

\* What a push reads was written before, and what it asks to store is from that.
LEMMA WrittenStep == IInv /\ Written /\ [Next]_vars => Written'
<1> SUFFICES ASSUME IInv, Written, [Next]_vars
             PROVE  Written'
  OBVIOUS
<1>1. pusher \in [Pushers -> Pushing] /\ TranscriptOf \in [Pushers -> Transcripts]
  BY PusherAssumption DEF IInv, TypeOK
<1>2. ASSUME NEW p \in Pushers, NEW f \in Files
      PROVE  pusher'[p].data[f] <= source'[TranscriptOf[p]][f]
  <2> DEFINE t == TranscriptOf[p]
  <2>1. source[t][f] \in Nat /\ source'[t][f] \in Nat /\ source[t][f] <= source'[t][f]
    BY <1>1, SourceGrows
  <2>2. pusher[p].data[f] \in Nat /\ pusher[p].data[f] <= source[t][f]
    BY <1>1 DEF Pushing, Written
  <2>3. pusher'[p].data[f] \in {pusher[p].data[f], 0, source[t][f]}
    <3>1. CASE pusher'[p] = pusher[p]
      BY <3>1
    <3>2. CASE Push(p)
      <4>1. CASE Start(p)
        BY <1>1, <4>1 DEF Start, Becomes, Idle
      <4>2. CASE Finish(p)
        BY <1>1, <4>2 DEF Finish, Becomes, Idle, Nothing
      <4>3. CASE ReadSeq(p) \/ ReadLens(p) \/ Send(p) \/ Receive(p)
        <5>1. \A new : Becomes(p, new) => pusher'[p] = new
          BY <1>1 DEF Becomes
        <5>2. pusher[p] \in Pushing
          BY <1>1
        <5>3. CASE ReadSeq(p)
          BY <5>1, <5>2, <5>3 DEF ReadSeq, Pushing
        <5>4. CASE ReadLens(p)
          BY <5>1, <5>2, <5>4 DEF ReadLens, Pushing
        <5>5. CASE Send(p)
          BY <5>1, <5>2, <5>5 DEF Send, Pushing
        <5>6. CASE Receive(p)
          BY <5>1, <5>2, <5>6 DEF Receive, Pushing
        <5> QED  BY <4>3, <5>3, <5>4, <5>5, <5>6
      <4> QED  BY <3>2, <4>1, <4>2, <4>3 DEF Push
    <3>3. CASE pusher'[p] = Idle
      BY <3>3 DEF Idle, Nothing
    <3>4. ASSUME NEW error, pusher'[p] = After(p, error)
          PROVE  pusher'[p].data[f] \in {pusher[p].data[f], 0}
      BY <3>4 DEF After, Resync, Idle, Nothing
    <3>5. CASE pusher'[p] = [pusher[p] EXCEPT !.pc = "stored"]
      BY <1>1, <3>5 DEF Pushing
    <3> QED  BY <3>1, <3>2, <3>3, <3>4, <3>5, PusherSteps
  <2> QED  BY <2>1, <2>2, <2>3
<1>3. ASSUME NEW r, r \in abandoned \cup {x.req : x \in appending}
      PROVE  r.to <= source'[r.of][r.file]
  <2>1. r \in Request /\ r.to <= source[r.of][r.file]
    BY <1>3 DEF IInv, TypeOK, AppendType, Written
  <2>2. r.of \in Transcripts /\ r.file \in Files /\ r.to \in Nat
    BY <2>1 DEF Request
  <2> QED  BY <2>1, <2>2, SourceGrows
<1>4. ASSUME NEW p \in Pushers, pusher[p].file \in ToSend(p)
      PROVE  LET r == NextChunk(p) IN r.to <= source'[r.of][r.file]
  <2> DEFINE f == pusher[p].file
             t == TranscriptOf[p]
  <2>1. f \in Files
    BY <1>4 DEF ToSend
  <2>2. NextChunk(p).of = t /\ NextChunk(p).file = f /\ NextChunk(p).to \in Nat
    BY <1>4, RequestType DEF IInv, Request, NextChunk
  <2>3. pusher[p].data[f] \in Nat /\ pusher[p].lens[f] \in Nat /\ pusher[p].cut \in Nat
    BY <1>1, <2>1 DEF Pushing
  <2>4. NextChunk(p).to <= pusher[p].data[f]
    BY <2>3 DEF NextChunk, Smaller
  <2>5. pusher[p].data[f] <= source[t][f]
    BY <2>1 DEF Written
  <2>6. source[t][f] \in Nat /\ source'[t][f] \in Nat /\ source[t][f] <= source'[t][f]
    BY <1>1, <2>1, SourceGrows
  <2> QED  BY <2>2, <2>3, <2>4, <2>5, <2>6
<1>5. ASSUME NEW r, r \in abandoned' \cup {x.req : x \in appending'}
      PROVE  \/ r \in abandoned \cup {x.req : x \in appending}
             \/ \E p \in Pushers : pusher[p].file \in ToSend(p) /\ r = NextChunk(p)
  <2>1. \A p \in Pushers : pusher[p].pc = "wait" => pusher[p].file \in ToSend(p)
    BY DEF IInv, Served
  <2>2. CASE Work
    <3>1. CASE \E p \in Pushers : Push(p)
      BY <1>5, <3>1 DEF Push, Start, ReadSeq, ReadLens, Send, Finish, Receive, serverVars
    <3>2. ASSUME NEW by, NEW q, HandleAppend(by, q),
                 q \in abandoned \/ \E p \in Pushers : pusher[p].pc = "wait" /\ q = NextChunk(p)
          PROVE  \/ r \in abandoned \cup {x.req : x \in appending}
                 \/ \E p \in Pushers : pusher[p].file \in ToSend(p) /\ r = NextChunk(p)
      <4>1. CASE TooLarge(by, q)
        BY <1>5, <4>1 DEF TooLarge, Taken, serverVars
      <4>2. CASE BeginAppend(by, q)
        <5>1. abandoned' \subseteq abandoned /\ \A x \in appending' : x \in appending \/ x.req = q
          BY <4>2 DEF BeginAppend, Taken
        <5> QED  BY <1>5, <2>1, <3>2, <5>1
      <4> QED  BY <3>2, <4>1, <4>2 DEF HandleAppend
    <3>3. ASSUME NEW x \in appending, EndAppend(x)
          PROVE  r \in abandoned \cup {z.req : z \in appending}
      <4>1. CASE RefuseAppend(x) \/ CommitAppend(x)
        BY <1>5, <4>1 DEF RefuseAppend, CommitAppend, Closed
      <4>2. CASE InsertTranscriptChunk(x)
        <5> DEFINE y == [x EXCEPT !.id = nextId]
        <5>1. y.req = x.req
          BY DEF IInv, TypeOK, AppendType
        <5>2. abandoned' = abandoned /\ appending' \subseteq appending \cup {y}
          BY <4>2 DEF InsertTranscriptChunk
        <5> HIDE DEF y
        <5> QED  BY <1>5, <5>1, <5>2
      <4> QED  BY <3>3, <4>1, <4>2 DEF EndAppend
    <3>4. CASE \/ \E t \in Transcripts : PurgeTranscript(t) \/ PurgeExpired(t) \/ SkipExpired(t) \/ Expire(t)
               \/ FindExpired
               \/ \E q \in purging : InsertTranscriptPurge(q)
               \/ \E t \in Transcripts, f \in Files : Grow(t, f)
      BY <1>5, <3>4 DEF PurgeTranscript, PurgeExpired, BeginPurge, SkipExpired, Expire, FindExpired,
                        InsertTranscriptPurge, Grow, serverVars
    <3>5. CASE \E q \in abandoned : HandleAppend(NoPusher, q)
      BY <3>2, <3>5
    <3>6. CASE \E p \in Pushers : Waiting(p) /\ HandleAppend(p, NextChunk(p))
      BY <3>2, <3>6 DEF Waiting
    <3> QED  BY <2>2, <3>1, <3>3, <3>4, <3>5, <3>6 DEF Work
  <2>3. CASE Disturbance
    <3>1. ASSUME NEW p \in Pushers, GiveUp(p)
          PROVE  \/ r \in abandoned \cup {x.req : x \in appending}
                 \/ \E q \in Pushers : pusher[q].file \in ToSend(q) /\ r = NextChunk(q)
      <4>1. /\ \A q \in abandoned' : q \in abandoned \/ (pusher[p].pc = "wait" /\ q = NextChunk(p))
            /\ appending' = {IF x.by = p THEN [x EXCEPT !.by = NoPusher] ELSE x : x \in appending}
        BY <3>1 DEF GiveUp
      <4>2. \A x \in appending : x = [by |-> x.by, req |-> x.req, seq |-> x.seq, length |-> x.length, used |-> x.used,
                                    id |-> x.id]
        BY DEF IInv, TypeOK, AppendType
      <4>3. \A y \in appending' : \E x \in appending : y.req = x.req
        BY <4>1, <4>2
      <4> QED  BY <1>5, <2>1, <4>1, <4>3
    <3>2. CASE \E by, q : Fail(by, q)
      BY <1>5, <3>2 DEF Fail, Taken, serverVars
    <3>3. CASE \E x \in appending : Rollback(x)
      BY <1>5, <3>3 DEF Rollback, Closed
    <3>4. CASE \E q \in purging : RollbackPurge(q)
      BY <1>5, <3>4 DEF RollbackPurge
    <3> QED  BY <2>3, <3>1, <3>2, <3>3, <3>4 DEF Disturbance
  <2>4. CASE UNCHANGED vars
    BY <1>5, <2>4 DEF vars, serverVars
  <2> QED  BY <2>2, <2>3, <2>4 DEF Next
<1>6. \A r \in abandoned' \cup {x.req : x \in appending'} : r.to <= source'[r.of][r.file]
  BY <1>3, <1>4, <1>5
<1> QED  BY <1>2, <1>6 DEF Written

\* While the tables do not change, neither do the pulled lines.
LEMMA SameLines ==
  ASSUME UNCHANGED <<chunks, purges>>
  PROVE  \A t, f : Lines(t, f)' = Lines(t, f)
<1>1. \A t : PulledChunks(t)' = PulledChunks(t)
  BY SameTables DEF PulledChunks
<1> QED  BY <1>1 DEF Lines

\* The lines of the chunks S.
LinesOf(S) == UNION {c.from + 1 .. c.to : c \in S}

\* A pull gets the lines that are not purged.
LEMMA LinesLive ==
  ASSUME Restorable, NEW t \in Transcripts
  PROVE  \A f : Lines(t, f) = LinesOf(LiveIn(t, f))
<1>1. PulledChunks(t) = Live(t)
  BY DEF Restorable
<1> QED  BY <1>1 DEF Lines, LinesOf, LiveIn

\* The same afterwards.
LEMMA LinesLiveAfter ==
  ASSUME Restorable', NEW t \in Transcripts
  PROVE  \A f : Lines(t, f)' = LinesOf(LiveIn(t, f)')
<1>1. PulledChunks(t)' = Live(t)'
  BY DEF Restorable
<1> QED  BY <1>1 DEF Lines, LinesOf, LiveIn

\* What a committed chunk makes of the pulled lines of its file, and of the others'.
LEMMA CommittedPulled ==
  ASSUME IInv, Contiguous, NEW x \in appending, CommitAppend(x),
         NEW t \in Transcripts, NEW f \in Files
  PROVE  LET n == NewChunk(x) IN
         /\ t = n.of /\ f = n.file =>
              /\ n.from = FileLength(t, f) /\ n.from < n.to /\ n.from \in Nat /\ n.to \in Nat
              /\ Lines(t, f)' = 1 .. n.to /\ FileLength(t, f)' = n.to
         /\ ~(t = n.of /\ f = n.file) => Lines(t, f)' = Lines(t, f) /\ FileLength(t, f)' = FileLength(t, f)
<1> DEFINE n == NewChunk(x)
<1>1. n \in Chunk /\ n.of = x.req.of /\ n.file = x.req.file /\ n.from < n.to
      /\ n.from \in Nat /\ n.to \in Nat /\ n.from = FileLength(n.of, n.file)
  BY Committed DEF NewChunk, Chunk
<1>2. Lines(t, f) = LinesOf(LiveIn(t, f)) /\ Lines(t, f)' = LinesOf(LiveIn(t, f)')
  <2>1. Restorable /\ Restorable'
    BY CommitServer DEF IInv, ServerInv
  <2> QED  BY <2>1, LinesLive, LinesLiveAfter
<1>3. CASE t = n.of /\ f = n.file
  <2>1. LiveIn(t, f)' = LiveIn(t, f) \cup {n}
    BY <1>1, <1>3, CommittedRows
  <2>2. Lines(t, f)' = Lines(t, f) \cup (n.from + 1 .. n.to)
    BY <1>2, <2>1 DEF LinesOf
  <2>3. Lines(t, f) = 1 .. n.from
    BY <1>1, <1>3 DEF Contiguous
  <2>4. Lines(t, f)' = 1 .. n.to
    BY <1>1, <2>2, <2>3
  <2>5. FileLength(t, f)' = n.to
    BY <1>1, <1>3, CommittedLengths
  <2> QED  BY <1>1, <1>3, <2>4, <2>5
<1>4. CASE ~(t = n.of /\ f = n.file)
  <2>1. LiveIn(t, f)' = LiveIn(t, f)
    BY <1>1, <1>4, CommittedRows
  <2>2. FileLength(t, f)' = FileLength(t, f)
    BY <2>1 DEF FileLength
  <2> QED  BY <1>2, <1>4, <2>1, <2>2
<1> QED  BY <1>3, <1>4

\* A purge leaves no line of its transcript to a pull, and the others' lines alone.
LEMMA PurgedPulled ==
  ASSUME IInv, NEW q \in purging, InsertTranscriptPurge(q), NEW t \in Transcripts, NEW f \in Files
  PROVE  /\ t = q.of => Lines(t, f)' = {} /\ FileLength(t, f)' = 0
         /\ t # q.of => Lines(t, f)' = Lines(t, f) /\ FileLength(t, f)' = FileLength(t, f)
<1>1. CASE t = q.of
  <2>1. PulledChunks(t)' = {} /\ Live(t)' = {}
    BY <1>1, PurgedRows
  <2>2. Lines(t, f)' = {} /\ {c.to : c \in LiveIn(t, f)'} = {}
    BY <2>1 DEF Lines, LiveIn
  <2>3. FileLength(t, f)' = 0
    BY <2>2, GreatestNone DEF FileLength
  <2> QED  BY <1>1, <2>2, <2>3
<1>2. CASE t # q.of
  <2>1. PulledChunks(t)' = PulledChunks(t) /\ Live(t)' = Live(t)
    BY <1>2, PurgedRows
  <2>2. LiveIn(t, f)' = LiveIn(t, f)
    BY <2>1 DEF LiveIn
  <2> QED  BY <1>2, <2>1, <2>2 DEF Lines, FileLength
<1> QED  BY <1>1, <1>2

\* The pulled lines stay the first ones.
LEMMA ContiguousStep == IInv /\ Contiguous /\ [Next]_vars => Contiguous'
<1> SUFFICES ASSUME IInv, Contiguous, [Next]_vars, NEW t \in Transcripts, NEW f \in Files
             PROVE  Lines(t, f)' = 1 .. FileLength(t, f)'
  BY DEF Contiguous
<1>1. Lines(t, f) = 1 .. FileLength(t, f)
  BY DEF Contiguous
<1>2. CASE UNCHANGED <<chunks, purges>>
  BY <1>1, <1>2, SameLines, SameTables
<1>3. ASSUME NEW x \in appending, CommitAppend(x)
      PROVE  Lines(t, f)' = 1 .. FileLength(t, f)'
  BY <1>1, <1>3, CommittedPulled
<1>4. ASSUME NEW q \in purging, InsertTranscriptPurge(q)
      PROVE  Lines(t, f)' = 1 .. FileLength(t, f)'
  BY <1>1, <1>4, PurgedPulled
<1> QED  BY <1>2, <1>3, <1>4, TableSteps

\* The retries stay within their number.
LEMMA RetriesStep == IInv /\ Retries /\ [Next]_vars => Retries'
<1> SUFFICES ASSUME IInv, Retries, [Next]_vars, NEW p \in Pushers
             PROVE  /\ pusher'[p].resyncs <= MaxResync
                    /\ pusher'[p].pc \in {"seq", "lens"} => pusher'[p].lens = Nothing
  BY DEF Retries
<1>1. pusher[p] \in Pushing /\ \A new : Becomes(p, new) => pusher'[p] = new
  BY DEF IInv, TypeOK, Becomes
<1>2. /\ pusher[p].resyncs <= MaxResync
      /\ pusher[p].pc \in {"seq", "lens"} => pusher[p].lens = Nothing
  BY DEF Retries
<1>3. Idle.resyncs = 0 /\ Idle.lens = Nothing /\ Idle.pc = "idle" /\ 0 <= MaxResync
  BY LimitAssumption DEF Idle
<1>4. CASE Push(p)
  <2>1. CASE Start(p)
    BY <1>1, <1>3, <2>1 DEF Start, Idle
  <2>2. CASE ReadSeq(p)
    BY <1>1, <1>2, <2>2 DEF ReadSeq, Pushing
  <2>3. CASE ReadLens(p)
    BY <1>1, <1>2, <2>3 DEF ReadLens, Pushing
  <2>4. CASE Send(p)
    BY <1>1, <1>2, <2>4 DEF Send, Pushing
  <2>5. CASE Finish(p)
    BY <1>1, <1>3, <2>5 DEF Finish
  <2>6. CASE Receive(p)
    BY <1>1, <1>2, <2>6 DEF Receive, Pushing
  <2> QED  BY <1>4, <2>1, <2>2, <2>3, <2>4, <2>5, <2>6 DEF Push
<1>5. ASSUME NEW error, pusher'[p] = After(p, error)
      PROVE  pusher'[p].resyncs <= MaxResync /\ pusher'[p].lens = Nothing
  BY <1>1, <1>2, <1>3, <1>5, LimitAssumption DEF After, Resync, Idle, Pushing
<1>6. CASE pusher'[p] = [pusher[p] EXCEPT !.pc = "stored"]
  BY <1>1, <1>2, <1>6 DEF Pushing
<1> QED  BY <1>2, <1>3, <1>4, <1>5, <1>6, PusherSteps

\* The invariant, with what it says of the lines of the log, holds in every reachable state.
THEOREM TranscriptsLogInvariant == Spec => []LogInv
<1> DEFINE LogParts == Written /\ Contiguous /\ Retries
<1>1. Init => LogParts
  <2> SUFFICES ASSUME Init PROVE LogParts
    OBVIOUS
  <2>1. \A p \in Pushers : pusher[p] = Idle
    BY DEF Init
  <2>2. Written
    BY <2>1, PusherAssumption DEF Init, Written, Idle, Nothing
  <2>3. Contiguous
    <3> SUFFICES ASSUME NEW t \in Transcripts, NEW f \in Files
                 PROVE  Lines(t, f) = 1 .. FileLength(t, f)
      BY DEF Contiguous
    <3>1. ChunksOf(t) = {}
      BY DEF Init, ChunksOf
    <3>2. Lines(t, f) = {} /\ {c.to : c \in LiveIn(t, f)} = {}
      BY <3>1 DEF Lines, PulledChunks, LiveIn, Live
    <3>3. FileLength(t, f) = 0
      BY <3>2, GreatestNone DEF FileLength
    <3> QED  BY <3>2, <3>3
  <2>4. Retries
    BY <2>1, LimitAssumption DEF Retries, Idle
  <2> QED  BY <2>2, <2>3, <2>4
<1>2. IInv /\ LogParts /\ [Next]_vars => LogParts'
  BY WrittenStep, ContiguousStep, RetriesStep
<1>3. IInv /\ LogParts => LogInv
  BY DEF LogInv
<1> QED  BY <1>1, <1>2, <1>3, TranscriptsInvariant, PTL DEF Spec

\* Every step is one of the log's, or leaves the log alone.
LEMMA LogStep == IInv /\ LogInv /\ [Next]_vars => [Log!Next]_(Log!vars)
<1> SUFFICES ASSUME IInv, LogInv, [Next]_vars
             PROVE  Log!Next \/ UNCHANGED <<source, Pulled>>
  BY DEF Log!vars
<1>1. Contiguous /\ Written
  BY DEF LogInv
<1>2. CASE UNCHANGED <<chunks, purges>>
  <2>1. Pulled' = Pulled
    BY <1>2, SameLines DEF Pulled
  <2>2. CASE UNCHANGED source
    BY <2>1, <2>2
  <2>3. ASSUME NEW t \in Transcripts, NEW f \in Files, Grow(t, f)
        PROVE  Log!Next
    BY <2>1, <2>3 DEF Grow, Log!Next, Log!Grow
  <2> QED  BY <2>2, <2>3, SourceSteps
<1>3. ASSUME NEW x \in appending, CommitAppend(x)
      PROVE  Log!Next
  <2>0. PICK n : n = NewChunk(x)
    OBVIOUS
  <2>1. PICK t \in Transcripts, f \in Files : t = n.of /\ f = n.file
    BY <1>3, <2>0, Committed DEF NewChunk, Chunk
  <2>2. /\ n.from \in Nat /\ n.to \in Nat /\ n.from < n.to /\ n.from = FileLength(t, f)
        /\ Lines(t, f)' = 1 .. n.to
    BY <1>1, <1>3, <2>0, <2>1, CommittedPulled
  <2>3. n.to <= source[t][f] /\ source[t][f] \in Nat
    <3>1. x.req.to <= source[x.req.of][x.req.file]
      BY <1>1 DEF Written
    <3> QED  BY <2>0, <2>1, <3>1 DEF NewChunk, IInv, TypeOK
  <2>4. Pulled[t][f] = 1 .. n.from
    BY <1>1, <2>1, <2>2 DEF Pulled, Contiguous
  <2>5. Pulled' = [Pulled EXCEPT ![t][f] = 1 .. n.to]
    <3>1. \A u \in Transcripts, g \in Files : ~(u = t /\ g = f) => Lines(u, g)' = Lines(u, g)
      BY <1>1, <1>3, <2>0, <2>1, CommittedPulled
    <3> QED  BY <2>1, <2>2, <3>1 DEF Pulled
  <2>6. UNCHANGED source
    BY <1>3 DEF CommitAppend
  <2>7. n.from \in 0 .. source[t][f] /\ n.to \in 0 .. source[t][f]
    BY <2>2, <2>3
  <2>8. Log!Store(t, f)
    BY <2>2, <2>4, <2>5, <2>6, <2>7 DEF Log!Store
  <2> QED  BY <2>1, <2>8 DEF Log!Next
<1>4. ASSUME NEW q \in purging, InsertTranscriptPurge(q)
      PROVE  Log!Next
  <2>1. q.of \in Transcripts
    BY <1>4, PurgedRows
  <2>2. \A t \in Transcripts, f \in Files : Lines(t, f)' = IF t = q.of THEN {} ELSE Lines(t, f)
    BY <1>4, PurgedPulled
  <2>3. Pulled' = [Pulled EXCEPT ![q.of] = [f \in Files |-> {}]]
    BY <2>1, <2>2 DEF Pulled
  <2>4. UNCHANGED source
    BY <1>4 DEF InsertTranscriptPurge
  <2>5. Log!Purge(q.of)
    BY <2>3, <2>4 DEF Log!Purge
  <2> QED  BY <2>1, <2>5 DEF Log!Next
<1> QED  BY <1>2, <1>3, <1>4, TableSteps

\* The chunks, numbers, offsets and retries implement the log of TranscriptLog (AppendTranscriptChunk, purgeTranscript, liveChunks).
THEOREM TranscriptsImplementLog == Spec => ImplementsLog
<1>1. Init => Log!Init
  <2> SUFFICES ASSUME Init PROVE Log!Init
    OBVIOUS
  <2>1. \A t, f : Lines(t, f) = {}
    BY DEF Init, Lines, PulledChunks, ChunksOf
  <2> QED  BY <2>1 DEF Init, Nothing, Pulled, Log!Init
<1> QED  BY <1>1, LogStep, TranscriptsInvariant, TranscriptsLogInvariant, PTL DEF Spec, ImplementsLog, Log!Spec

\* A log always holds a beginning of what was written.
LEMMA LogBeginning == Log!Spec => []Log!Beginning
<1> DEFINE LInv == Log!TypeOK /\ Log!Beginning
<1>1. Log!Init => LInv
  BY DEF Log!Init, Log!TypeOK, Log!Beginning
<1>2. LInv /\ [Log!Next]_(Log!vars) => LInv'
  <2> SUFFICES ASSUME LInv, [Log!Next]_(Log!vars)
               PROVE  LInv'
    OBVIOUS
  <2> HIDE DEF Pulled
  <2>0. /\ source \in [Transcripts -> [Files -> Nat]]
        /\ Pulled \in [Transcripts -> [Files -> SUBSET Nat]]
        /\ \A t \in Transcripts, f \in Files : \E n \in 0 .. source[t][f] : Pulled[t][f] = 1 .. n
    BY DEF Log!TypeOK, Log!Beginning
  <2>1. CASE UNCHANGED Log!vars
    BY <2>0, <2>1 DEF Log!vars, Log!TypeOK, Log!Beginning
  <2>2. ASSUME NEW t \in Transcripts, Log!Purge(t)
        PROVE  LInv'
    <3>1. source' = source /\ Pulled' = [Pulled EXCEPT ![t] = [f \in Files |-> {}]]
      BY <2>2 DEF Log!Purge
    <3>2. Log!TypeOK'
      BY <2>0, <3>1 DEF Log!TypeOK
    <3>3. ASSUME NEW u \in Transcripts, NEW g \in Files
          PROVE  \E n \in 0 .. source'[u][g] : Pulled'[u][g] = 1 .. n
      <4>1. CASE u = t
        <5>1. Pulled'[u][g] = 1 .. 0 /\ 0 \in 0 .. source'[u][g]
          BY <2>0, <3>1, <4>1
        <5> QED  BY <5>1
      <4>2. CASE u # t
        BY <2>0, <3>1, <4>2
      <4> QED  BY <4>1, <4>2
    <3> QED  BY <3>2, <3>3 DEF Log!Beginning
  <2>3. ASSUME NEW t \in Transcripts, NEW f \in Files, Log!Grow(t, f)
        PROVE  LInv'
    <3>1. source' = [source EXCEPT ![t] = [source[t] EXCEPT ![f] = source[t][f] + 1]] /\ Pulled' = Pulled
      BY <2>3 DEF Log!Grow
    <3>2. Log!TypeOK'
      BY <2>0, <3>1 DEF Log!TypeOK
    <3>3. ASSUME NEW u \in Transcripts, NEW g \in Files
          PROVE  \E n \in 0 .. source'[u][g] : Pulled'[u][g] = 1 .. n
      <4>1. PICK n \in 0 .. source[u][g] : Pulled[u][g] = 1 .. n
        BY <2>0
      <4>2. source[u][g] \in Nat /\ source'[u][g] \in Nat /\ source[u][g] <= source'[u][g]
        BY <2>0, <3>1
      <4>3. n \in 0 .. source'[u][g]
        BY <4>2
      <4> QED  BY <3>1, <4>1, <4>3
    <3> QED  BY <3>2, <3>3 DEF Log!Beginning
  <2>4. ASSUME NEW t \in Transcripts, NEW f \in Files, Log!Store(t, f)
        PROVE  LInv'
    <3>1. PICK n \in 0 .. source[t][f] :
            source' = source /\ Pulled' = [Pulled EXCEPT ![t] = [Pulled[t] EXCEPT ![f] = 1 .. n]]
      BY <2>4 DEF Log!Store
    <3>2. Log!TypeOK'
      BY <2>0, <3>1 DEF Log!TypeOK
    <3>3. ASSUME NEW u \in Transcripts, NEW g \in Files
          PROVE  \E m \in 0 .. source'[u][g] : Pulled'[u][g] = 1 .. m
      <4>1. CASE u = t /\ g = f
        BY <2>0, <3>1, <4>1
      <4>2. CASE ~(u = t /\ g = f)
        <5>1. Pulled'[u][g] = Pulled[u][g]
          BY <2>0, <3>1, <4>2
        <5> QED  BY <2>0, <3>1, <5>1
      <4> QED  BY <4>1, <4>2
    <3> QED  BY <3>2, <3>3 DEF Log!Beginning
  <2> QED  BY <2>1, <2>2, <2>3, <2>4 DEF Log!Next
<1> QED  BY <1>1, <1>2, PTL DEF Log!Spec

\* What a pull gets of a file is a beginning of what the agent wrote to it, whatever pushes, requests and purges there were.
THEOREM TranscriptsPullBeginning == Spec => []Log!Beginning
BY TranscriptsImplementLog, LogBeginning DEF ImplementsLog

\* A push that ends well has brought over all that it read (sendPlans).
THEOREM TranscriptsSentIsPulled == Spec => []SentIsPulled
<1>1. IInv /\ LogInv => SentIsPulled
  <2> SUFFICES ASSUME IInv, LogInv, NEW p \in Pushers,
                      pusher[p].pc = "send", ToSend(p) = {}, NotPurgedSince(p), NEW f \in Files
               PROVE  1 .. pusher[p].data[f] \subseteq Lines(TranscriptOf[p], f)
    BY DEF SentIsPulled
  <2> DEFINE t == TranscriptOf[p]
  <2>1. pusher[p] \in Pushing /\ t \in Transcripts
    BY PusherAssumption DEF IInv, TypeOK
  <2>2. pusher[p].lens[f] \in Nat /\ pusher[p].data[f] \in Nat
    BY <2>1 DEF Pushing
  <2>3. pusher[p].data[f] <= pusher[p].lens[f]
    BY <2>2 DEF ToSend
  <2>4. pusher[p].lens[f] <= FileLength(t, f) /\ FileLength(t, f) \in Nat
    BY <2>1, Results DEF IInv, AckedIsStored
  <2>5. Lines(t, f) = 1 .. FileLength(t, f)
    BY <2>1 DEF LogInv, Contiguous
  <2> QED  BY <2>2, <2>3, <2>4, <2>5
<1> QED  BY <1>1, TranscriptsInvariant, TranscriptsLogInvariant, PTL

-----------------------------------------------------------------------------
(* A push ends. *)

\* The lines from l + 1 up to d in each file.
Between(l, d) == UNION {{f} \X (l[f] + 1 .. d[f]) : f \in Files}

\* There are fewer of them the more counts as sent, ...
LEMMA BetweenShrinks ==
  ASSUME NEW l \in [Files -> Nat], NEW m \in [Files -> Nat], NEW d \in [Files -> Nat],
         \A f \in Files : l[f] <= m[f]
  PROVE  Between(m, d) \subseteq Between(l, d)
<1> SUFFICES ASSUME NEW f \in Files, NEW k \in m[f] + 1 .. d[f]
             PROVE  k \in l[f] + 1 .. d[f]
  BY DEF Between
<1>1. l[f] \in Nat /\ m[f] \in Nat /\ d[f] \in Nat /\ l[f] <= m[f]
  OBVIOUS
<1> QED  BY <1>1

\* ... and fewer for certain when a line that was missing does.
LEMMA BetweenDiffers ==
  ASSUME NEW l \in [Files -> Nat], NEW m \in [Files -> Nat], NEW d \in [Files -> Nat],
         NEW f \in Files, l[f] < d[f], l[f] < m[f]
  PROVE  Between(m, d) # Between(l, d)
<1>1. l[f] \in Nat /\ m[f] \in Nat /\ d[f] \in Nat
  OBVIOUS
<1>2. l[f] + 1 \in l[f] + 1 .. d[f] /\ l[f] + 1 \notin m[f] + 1 .. d[f]
  BY <1>1
<1>3. <<f, l[f] + 1>> \in Between(l, d)
  BY <1>2 DEF Between
<1>4. <<f, l[f] + 1>> \notin Between(m, d)
  BY <1>2 DEF Between
<1> QED  BY <1>3, <1>4

\* A refused push starts anew with one retry less or with a smaller chunk, or it ends.
LEMMA AfterCloser ==
  ASSUME TypeOK, Retries, NEW p \in Pushers, NEW error, pusher'[p] = After(p, error), pusher'[p].pc # "idle"
  PROVE  0 <= Patience(p)' /\ Patience(p)' < Patience(p)
<1>1. pusher[p].cut \in Nat \ {0} /\ pusher[p].resyncs \in Nat /\ MaxResync \in Nat
      /\ pusher[p].resyncs <= MaxResync
  BY LimitAssumption DEF TypeOK, Pushing, Retries
<1>2. ASSUME NEW cut, NEW resyncs, pusher'[p] = Resync(p, cut, resyncs)
      PROVE  pusher'[p].cut = cut /\ pusher'[p].resyncs = resyncs
  BY <1>2 DEF Resync, Idle
<1>3. CASE error = "conflict" /\ pusher[p].resyncs < MaxResync
  <2>1. pusher'[p].cut = pusher[p].cut /\ pusher'[p].resyncs = pusher[p].resyncs + 1
    BY <1>2, <1>3 DEF After
  <2> QED  BY <1>1, <1>3, <2>1 DEF Patience
<1>4. CASE error = "too_large" /\ pusher[p].cut > MinCut
  <2>1. pusher'[p].cut = pusher[p].cut \div 2 /\ pusher'[p].resyncs = pusher[p].resyncs
    BY <1>2, <1>4 DEF After
  <2>2. pusher[p].cut \div 2 < pusher[p].cut /\ pusher[p].cut \div 2 \in Nat
    BY <1>1
  <2> QED  BY <1>1, <2>1, <2>2 DEF Patience
<1>5. CASE ~(error = "conflict" /\ pusher[p].resyncs < MaxResync) /\ ~(error = "too_large" /\ pusher[p].cut > MinCut)
  BY <1>5 DEF After, Idle
<1> QED  BY <1>3, <1>4, <1>5

\* Whatever happens to a running push ends it or brings it closer to its end.
LEMMA PushCloser ==
  ASSUME IInv, Retries, [Next]_vars, NEW p \in Pushers,
         pusher[p].pc # "idle", pusher'[p] # pusher[p], pusher'[p].pc # "idle"
  PROVE  Closer(p)
<1>1. pusher[p] \in Pushing /\ \A new : Becomes(p, new) => pusher'[p] = new
  BY DEF IInv, TypeOK, Becomes
<1>2. /\ pusher[p].lens \in [Files -> Nat] /\ pusher[p].data \in [Files -> Nat]
      /\ \A f \in Files : pusher[p].lens[f] \in Nat /\ pusher[p].data[f] \in Nat
  BY <1>1 DEF Pushing
<1>3. Missing(p) = Between(pusher[p].lens, pusher[p].data)
  BY DEF Missing, Between
<1>4. Missing(p)' = Between(pusher'[p].lens, pusher'[p].data)
  BY DEF Missing, Between
<1>5. ASSUME pusher'[p].resyncs = pusher[p].resyncs, pusher'[p].cut = pusher[p].cut
      PROVE  Patience(p)' = Patience(p)
  BY <1>5 DEF Patience
<1>6. ASSUME pusher'[p] = [pusher[p] EXCEPT !.pc = pusher'[p].pc, !.seq = pusher'[p].seq, !.file = pusher'[p].file],
             StepsLeft(p)' < StepsLeft(p)
      PROVE  Closer(p)
  <2>1. /\ pusher'[p].lens = pusher[p].lens /\ pusher'[p].data = pusher[p].data
        /\ pusher'[p].resyncs = pusher[p].resyncs /\ pusher'[p].cut = pusher[p].cut
    BY <1>1, <1>6 DEF Pushing
  <2>2. Missing(p)' = Missing(p) /\ Patience(p)' = Patience(p)
    BY <1>3, <1>4, <1>5, <2>1
  <2> QED  BY <1>6, <2>2 DEF Closer
<1>7. CASE Push(p)
  <2>1. CASE Start(p)
    BY <2>1 DEF Start
  <2>2. CASE ReadSeq(p)
    <3>1. pusher[p].pc = "seq" /\ pusher'[p] = [pusher[p] EXCEPT !.pc = "lens", !.seq = TranscriptSeq(TranscriptOf[p])]
      BY <1>1, <2>2 DEF ReadSeq
    <3>2. pusher'[p].pc = "lens"
      BY <1>1, <3>1 DEF Pushing
    <3>3. pusher'[p] = [pusher[p] EXCEPT !.pc = pusher'[p].pc, !.seq = pusher'[p].seq, !.file = pusher'[p].file]
      BY <1>1, <3>1 DEF Pushing
    <3>4. StepsLeft(p)' < StepsLeft(p)
      BY <3>1, <3>2 DEF StepsLeft
    <3> QED  BY <1>6, <3>3, <3>4
  <2>3. CASE ReadLens(p)
    <3> DEFINE t == TranscriptOf[p]
               m == [f \in Files |-> FileLength(t, f)]
    <3>1. /\ pusher[p].pc = "lens" /\ pusher[p].lens = Nothing
          /\ pusher'[p] = [pusher[p] EXCEPT !.pc = "send", !.lens = m, !.known = {q \in purges : q.of = t}]
      BY <1>1, <2>3 DEF ReadLens, Retries
    <3>2. /\ pusher'[p].pc = "send" /\ pusher'[p].lens = m /\ pusher'[p].data = pusher[p].data
          /\ pusher'[p].resyncs = pusher[p].resyncs /\ pusher'[p].cut = pusher[p].cut
      BY <1>1, <3>1 DEF Pushing
    <3>3. m \in [Files -> Nat]
      BY Results, PusherAssumption DEF IInv
    <3>4. \A f \in Files : pusher[p].lens[f] <= m[f]
      <4> SUFFICES ASSUME NEW f \in Files
                   PROVE  pusher[p].lens[f] <= m[f]
        OBVIOUS
      <4>1. m[f] \in Nat /\ pusher[p].lens[f] = 0
        BY <3>1, <3>3 DEF Nothing
      <4> QED  BY <4>1
    <3>5. Missing(p)' \subseteq Missing(p)
      <4> HIDE DEF m
      <4> QED  BY <1>2, <1>3, <1>4, <3>2, <3>3, <3>4, BetweenShrinks
    <3>6. StepsLeft(p)' < StepsLeft(p)
      BY <3>1, <3>2 DEF StepsLeft
    <3>7. Patience(p)' = Patience(p)
      BY <1>5, <3>2
    <3> QED  BY <3>5, <3>6, <3>7 DEF Closer
  <2>4. CASE Send(p)
    <3>1. PICK f : pusher'[p] = [pusher[p] EXCEPT !.pc = "wait", !.file = f]
      BY <1>1, <2>4 DEF Send
    <3>2. pusher[p].pc = "send" /\ pusher'[p].pc = "wait"
      BY <1>1, <2>4, <3>1 DEF Send, Pushing
    <3>3. pusher'[p] = [pusher[p] EXCEPT !.pc = pusher'[p].pc, !.seq = pusher'[p].seq, !.file = pusher'[p].file]
      BY <1>1, <3>1 DEF Pushing
    <3>4. StepsLeft(p)' < StepsLeft(p)
      BY <3>2 DEF StepsLeft
    <3> QED  BY <1>6, <3>3, <3>4
  <2>5. CASE Finish(p)
    BY <1>1, <2>5 DEF Finish, Idle
  <2>6. CASE Receive(p)
    <3> DEFINE f == pusher[p].file
               n == NextChunk(p).to
               m == [pusher[p].lens EXCEPT ![f] = n]
    <3>1. f \in Files /\ pusher[p].lens[f] < pusher[p].data[f]
      BY <2>6 DEF Receive, IInv, Served, ToSend
    <3>2. n \in Nat /\ pusher[p].lens[f] < n
      <4>1. NextChunk(p) \in Request /\ NextChunk(p).from = pusher[p].lens[f]
        BY <2>6, RequestType DEF Receive, IInv, Served, NextChunk
      <4> QED  BY <4>1 DEF Request
    <3>3. pusher'[p] = [pusher[p] EXCEPT !.pc = "send", !.seq = TranscriptSeq(TranscriptOf[p]), !.lens = m, !.file = 0]
      BY <1>1, <2>6 DEF Receive
    <3>4. /\ pusher'[p].lens = m /\ pusher'[p].data = pusher[p].data
          /\ pusher'[p].resyncs = pusher[p].resyncs /\ pusher'[p].cut = pusher[p].cut
      <4> HIDE DEF m
      <4> QED  BY <1>1, <3>3 DEF Pushing
    <3>5. m \in [Files -> Nat] /\ m[f] = n /\ \A g \in Files : pusher[p].lens[g] <= m[g]
      <4> HIDE DEF n, f
      <4>1. m \in [Files -> Nat] /\ m[f] = n
        BY <1>2, <3>1, <3>2
      <4>2. ASSUME NEW g \in Files
            PROVE  pusher[p].lens[g] <= m[g]
        <5>1. CASE g = f
          BY <1>2, <3>1, <3>2, <5>1
        <5>2. CASE g # f
          BY <1>2, <5>2
        <5> QED  BY <5>1, <5>2
      <4> QED  BY <4>1, <4>2
    <3>6. Missing(p)' \subseteq Missing(p) /\ Missing(p)' # Missing(p)
      <4> HIDE DEF m, n, f
      <4>1. Missing(p)' = Between(m, pusher[p].data)
        BY <1>4, <3>4
      <4>2. Between(m, pusher[p].data) \subseteq Between(pusher[p].lens, pusher[p].data)
        BY <1>2, <3>5, BetweenShrinks
      <4>3. Between(m, pusher[p].data) # Between(pusher[p].lens, pusher[p].data)
        BY <1>2, <3>1, <3>2, <3>5, BetweenDiffers
      <4> QED  BY <1>3, <4>1, <4>2, <4>3
    <3> QED  BY <1>5, <3>4, <3>6 DEF Closer
  <2> QED  BY <1>7, <2>1, <2>2, <2>3, <2>4, <2>5, <2>6 DEF Push
<1>8. CASE \E error : pusher'[p] = After(p, error)
  BY <1>8, AfterCloser DEF IInv, Closer
<1>9. CASE pusher[p].pc = "wait" /\ pusher'[p] = [pusher[p] EXCEPT !.pc = "stored"]
  <2>1. pusher'[p] = [pusher[p] EXCEPT !.pc = pusher'[p].pc, !.seq = pusher'[p].seq, !.file = pusher'[p].file]
        /\ pusher'[p].pc = "stored"
    BY <1>1, <1>9 DEF Pushing
  <2>2. StepsLeft(p)' < StepsLeft(p)
    BY <1>9, <2>1 DEF StepsLeft
  <2> QED  BY <1>6, <2>1, <2>2
<1> QED  BY <1>7, <1>8, <1>9, PusherSteps DEF Idle

\* A push never goes on for ever, whatever the server, the other pushes and the purges do to it (trMaxResync in sendPlans).
THEOREM TranscriptsPushEnds == Spec => PushEnds
<1>1. IInv /\ LogInv /\ [Next]_vars =>
        [\A p \in Pushers : pusher[p].pc # "idle" /\ pusher'[p] # pusher[p]
                             => pusher'[p].pc = "idle" \/ Closer(p)]_vars
  BY PushCloser DEF LogInv
<1> QED  BY <1>1, TranscriptsInvariant, TranscriptsLogInvariant, PTL DEF Spec, PushEnds
=============================================================================
