----------------------------- MODULE Transcripts -----------------------------
(***************************************************************************)
(* The transcripts of one user's agent sessions, from both sides: the      *)
(* server's rows (internal/service/transcripts.go, internal/store/         *)
(* transcripts.go) and the clients that push what the agents' files have   *)
(* gained since the last time (internal/client/cli/transcript_push.go).    *)
(*                                                                         *)
(* A file is a number of complete lines that only grows; a chunk is the    *)
(* lines from `from` up to `to` of one file.  Several pushes of the same   *)
(* session run at once (the Stop hook of every turn starts one, a user     *)
(* types another), each works on the files as it read them, and each may   *)
(* be killed at any moment while its last request is still under way.      *)
(*                                                                         *)
(* Every write of a user's transcripts takes the row lock of that user     *)
(* first.  A transaction is several steps: its reads, the INSERT, which    *)
(* gives a chunk its id, and the commit; the lock is what keeps the reads  *)
(* true.  The bodies of the chunks are BlobStore's subject.                *)
(***************************************************************************)
EXTENDS Integers, FiniteSets

CONSTANTS Transcripts,   \* the user's transcripts
          Files,         \* 1..n: the files of a session, in the order they are sent
          Pushers,       \* processes that push
          TranscriptOf,  \* the transcript that each pushes
          MaxChunk,      \* transcript_max_chunk_bytes
          MaxUser,       \* transcript_max_user_bytes
          Retention,     \* whether transcript_retention_days is set (0: chunks are kept for ever)
          FirstCut, MinCut,  \* the client's largest chunk at first, and the smallest it goes down to
          MaxResync,     \* trMaxResync
          MaxLines,      \* bounds the growth of a file
          MaxPurges,     \* bounds the purges
          MaxAbandoned,  \* bounds the requests whose senders have gone
          NoPusher

ASSUME FileAssumption   == Files \subseteq Nat \ {0}
ASSUME PusherAssumption == TranscriptOf \in [Pushers -> Transcripts] /\ NoPusher \notin Pushers
ASSUME LimitAssumption  == MaxChunk \in Nat /\ MaxUser \in Nat /\ MaxResync \in Nat /\ Retention \in BOOLEAN
ASSUME CutAssumption    == FirstCut \in Nat \ {0} /\ MinCut \in Nat \ {0}

VARIABLES
  source,     \* complete lines in each file of each session
  chunks,     \* the table transcript_chunks
  nextId,     \* its next key
  purges,     \* the table transcript_purges
  appending,  \* open transactions that append, with what they read and the id they were given
  purging,    \* open transactions that purge
  fresh,      \* transcripts whose last chunk is younger than the retention period
  due,        \* transcripts that the retention job found expired and has not purged yet
  abandoned,  \* append requests still under way whose senders have gone
  pusher      \* the pushing processes

serverVars == <<chunks, nextId, purges, appending, purging, fresh>>
vars == <<source, serverVars, due, abandoned, pusher>>

Chunk   == [id : Nat, of : Transcripts, seq : Nat, file : Files, from : Nat, to : Nat]
Purge   == [of : Transcripts, through : Nat, cause : {"asked", "retention"}]
Request == {r \in [of : Transcripts, seq : Nat, file : Files, from : Nat, to : Nat] : r.from < r.to}
Pushing == [pc : {"idle", "seq", "lens", "send", "wait", "stored"}, data : [Files -> Nat], seq : Nat,
            lens : [Files -> Nat], file : Files \cup {0}, cut : Nat \ {0}, resyncs : Nat, known : SUBSET Purge]

\* An open transaction that appends: whose request it handles, the request, what it read, and the id of the
\* row it has inserted, 0 while it has none.
AppendType(x) ==
  /\ x = [by |-> x.by, req |-> x.req, seq |-> x.seq, length |-> x.length, used |-> x.used, id |-> x.id]
  /\ x.by \in Pushers \cup {NoPusher} /\ x.req \in Request /\ x.seq \in Nat /\ x.length \in Nat /\ x.id \in Nat

Nothing == [f \in Files |-> 0]
Idle    == [pc |-> "idle", data |-> Nothing, seq |-> 0, lens |-> Nothing,
            file |-> 0, cut |-> FirstCut, resyncs |-> 0, known |-> {}]

TypeOK ==
  /\ source \in [Transcripts -> [Files -> Nat]]
  /\ chunks \subseteq Chunk /\ nextId \in Nat /\ purges \subseteq Purge
  /\ (\A x \in appending : AppendType(x)) /\ purging \subseteq Purge
  /\ fresh \subseteq Transcripts /\ due \subseteq Transcripts
  /\ \A r \in abandoned : r \in Request
  /\ pusher \in [Pushers -> Pushing]

Init ==
  /\ source = [t \in Transcripts |-> Nothing]
  /\ chunks = {} /\ nextId = 1 /\ purges = {}
  /\ appending = {} /\ purging = {}
  /\ fresh = {} /\ due = {} /\ abandoned = {}
  /\ pusher = [p \in Pushers |-> Idle]

-----------------------------------------------------------------------------
(* Reading the tables. *)

\* chunkPurgedExpr
Purged(c) == \E p \in purges : p.of = c.of /\ p.through >= c.id

ChunksOf(t)  == {c \in chunks : c.of = t}
Live(t)      == {c \in ChunksOf(t) : ~Purged(c)}
LiveIn(t, f) == {c \in Live(t) : c.file = f}

\* COALESCE(MAX(x), 0): the largest of the numbers S, 0 when there is none
IsGreatest(n, S) == (\A m \in S : m <= n) /\ (n \in S \/ (S = {} /\ n = 0))
Greatest(S) == CHOOSE n \in S \cup {0} : IsGreatest(n, S)

\* TranscriptSeq counts the purged chunks too; TranscriptFileLengths does not.
TranscriptSeq(t) == Greatest({c.seq : c \in ChunksOf(t)})
FileLength(t, f) == Greatest({c.to : c \in LiveIn(t, f)})
\* The lines that the limit of the user counts, each with the key of its chunk.
Stored == UNION {{c.id} \X (c.from + 1 .. c.to) : c \in {d \in chunks : ~Purged(d)}}
UserBytes == Cardinality(Stored)

-----------------------------------------------------------------------------
(* A pushing process: cmdTranscriptPush and sendPlans. *)

Grow(t, f) ==
  /\ source[t][f] < MaxLines
  /\ source' = [source EXCEPT ![t][f] = @ + 1]
  /\ UNCHANGED <<serverVars, due, abandoned, pusher>>

Becomes(p, new) == pusher' = [pusher EXCEPT ![p] = new]

\* It reads the files once; what they gain later is for the next push.
Start(p) ==
  /\ pusher[p].pc = "idle"
  /\ Becomes(p, [Idle EXCEPT !.pc = "seq", !.data = source[TranscriptOf[p]]])
  /\ UNCHANGED <<source, serverVars, due, abandoned>>

\* The server answers a registration and a GET with transcriptState: two reads.
ReadSeq(p) ==
  /\ pusher[p].pc = "seq"
  /\ Becomes(p, [pusher[p] EXCEPT !.pc = "lens", !.seq = TranscriptSeq(TranscriptOf[p])])
  /\ UNCHANGED <<source, serverVars, due, abandoned>>

ReadLens(p) ==
  LET t == TranscriptOf[p] IN
  /\ pusher[p].pc = "lens"
  /\ Becomes(p, [pusher[p] EXCEPT !.pc = "send", !.lens = [f \in Files |-> FileLength(t, f)],
                                  !.known = {q \in purges : q.of = t}])
  /\ UNCHANGED <<source, serverVars, due, abandoned>>

\* A file that the server has more of than was read counts as rewritten and is not sent.
ToSend(p) == {f \in Files : pusher[p].lens[f] < pusher[p].data[f]}
Smaller(a, b) == IF a < b THEN a ELSE b

NextChunk(p) ==
  LET f == pusher[p].file
      from == pusher[p].lens[f]
  IN [of |-> TranscriptOf[p], seq |-> pusher[p].seq, file |-> f, from |-> from,
      to |-> Smaller(from + pusher[p].cut, pusher[p].data[f])]

\* While it waits, its request is NextChunk(p).
Send(p) ==
  /\ pusher[p].pc = "send"
  /\ \E f \in ToSend(p) :
       /\ \A g \in ToSend(p) : f <= g
       /\ Becomes(p, [pusher[p] EXCEPT !.pc = "wait", !.file = f])
  /\ UNCHANGED <<source, serverVars, due, abandoned>>

Finish(p) ==
  /\ pusher[p].pc = "send" /\ ToSend(p) = {}
  /\ Becomes(p, Idle)
  /\ UNCHANGED <<source, serverVars, due, abandoned>>

\* The reply to a stored chunk: the seq in it is read after the commit.
Receive(p) ==
  /\ pusher[p].pc = "stored"
  /\ Becomes(p, [pusher[p] EXCEPT !.pc = "send", !.seq = TranscriptSeq(TranscriptOf[p]),
                                  !.lens[pusher[p].file] = NextChunk(p).to, !.file = 0])
  /\ UNCHANGED <<source, serverVars, due, abandoned>>

\* Requests whose senders have gone.
Orphaned == Cardinality(abandoned) + Cardinality({x \in appending : x.by = NoPusher})

\* Killed, timed out, connection lost: a request that was sent may still be handled.
GiveUp(p) ==
  /\ pusher[p].pc # "idle"
  /\ pusher[p].pc = "wait" => Orphaned < MaxAbandoned
  /\ Becomes(p, Idle)
  /\ IF pusher[p].pc = "wait" /\ \A x \in appending : x.by # p
       THEN abandoned' = abandoned \cup {NextChunk(p)}
       ELSE UNCHANGED abandoned
  /\ appending' = {IF x.by = p THEN [x EXCEPT !.by = NoPusher] ELSE x : x \in appending}
  /\ UNCHANGED <<source, chunks, nextId, purges, purging, fresh, due>>

\* It asks the server again and cuts the same data anew.
Resync(p, cut, resyncs) == [Idle EXCEPT !.pc = "seq", !.data = pusher[p].data, !.cut = cut, !.resyncs = resyncs]

\* Faulty variants: a chunk that is refused for its place counts as stored already; a chunk that is too large ends the push.
TakenAsStored(p, error) ==
  IF error = "conflict"
    THEN [pusher[p] EXCEPT !.pc = "send", !.lens[pusher[p].file] = NextChunk(p).to, !.file = 0]
    ELSE Idle
NeverSmaller(p, error) ==
  IF error = "conflict" /\ pusher[p].resyncs < MaxResync
    THEN Resync(p, pusher[p].cut, pusher[p].resyncs + 1) ELSE Idle
\* And: the retries are not counted.
NeverCounted(p, error) ==
  CASE error = "conflict" -> Resync(p, pusher[p].cut, pusher[p].resyncs)
    [] error = "too_large" /\ pusher[p].cut > MinCut ->
         Resync(p, pusher[p].cut \div 2, pusher[p].resyncs)
    [] OTHER -> Idle

\* What a pusher makes of a refusal; nobody waits for an abandoned request.
After(p, error) ==
  CASE error = "conflict" /\ pusher[p].resyncs < MaxResync ->
         Resync(p, pusher[p].cut, pusher[p].resyncs + 1)
    [] error = "too_large" /\ pusher[p].cut > MinCut ->
         Resync(p, pusher[p].cut \div 2, pusher[p].resyncs)
    [] OTHER -> Idle

Refuse(by, error) ==
  IF by = NoPusher THEN UNCHANGED pusher ELSE Becomes(by, After(by, error))

-----------------------------------------------------------------------------
(* The server: AppendTranscriptChunk. *)

\* The request r reaches the server: it is by's, or its sender has gone.
Arrives(by, r) ==
  IF by = NoPusher
    THEN r \in abandoned
    ELSE pusher[by].pc = "wait" /\ r = NextChunk(by) /\ \A x \in appending : x.by # by

Taken(by, r) == abandoned' = IF by = NoPusher THEN abandoned \ {r} ELSE abandoned

TooLarge(by, r) ==
  /\ Arrives(by, r) /\ r.to - r.from > MaxChunk
  /\ Taken(by, r) /\ Refuse(by, "too_large")
  /\ UNCHANGED <<source, serverVars, due>>

\* Project archived, rule off, no member any more, a secret in it, a disk or database error.
Fail(by, r) ==
  /\ Arrives(by, r)
  /\ Taken(by, r) /\ Refuse(by, "other")
  /\ UNCHANGED <<source, serverVars, due>>

\* Faulty variant: the lock is left out.
NoLock == TRUE

\* One open transaction per user.
LockTranscriptUser == appending = {} /\ purging = {}

\* The transaction begins: it locks, then reads.
BeginAppend(by, r) ==
  /\ Arrives(by, r) /\ r.to - r.from <= MaxChunk
  /\ LockTranscriptUser
  /\ Taken(by, r)
  /\ appending' = appending \cup {[by |-> by, req |-> r, seq |-> TranscriptSeq(r.of),
                                   length |-> FileLength(r.of, r.file), used |-> UserBytes, id |-> 0]}
  /\ UNCHANGED <<source, chunks, nextId, purges, purging, fresh, due, pusher>>

Closed(x) == appending' = appending \ {x}

\* UNIQUE (transcript_id, seq): the row is there, or another open transaction has inserted it.
SeqTaken(x) == \E c \in chunks : c.of = x.req.of /\ c.seq = x.seq + 1
SeqHeld(x)  == \E y \in appending : y # x /\ y.id # 0 /\ y.req.of = x.req.of /\ y.seq = x.seq

\* The checks of the transaction: the place in the transcript, the place in the file, the quota.
SeqMatches(x)    == x.req.seq = x.seq
OffsetMatches(x) == x.req.from = x.length
\* Faulty variant: the quota looks at what is stored and not at what it becomes.
NotYetFull(x) == x.used <= MaxUser
WithinQuota(x) == x.used + (x.req.to - x.req.from) <= MaxUser

\* The INSERT gives the row its id, before anybody else can see it.  It waits for an open one of the same number.
InsertTranscriptChunk(x) ==
  /\ x.id = 0
  /\ SeqMatches(x) /\ OffsetMatches(x) /\ WithinQuota(x) /\ ~SeqTaken(x) /\ ~SeqHeld(x)
  /\ nextId' = nextId + 1
  /\ appending' = (appending \ {x}) \cup {[x EXCEPT !.id = nextId]}
  /\ UNCHANGED <<source, chunks, purges, purging, fresh, due, abandoned, pusher>>

CommitAppend(x) ==
  LET r == x.req IN
  /\ x.id # 0
  /\ chunks' = chunks \cup {[id |-> x.id, of |-> r.of, seq |-> x.seq + 1, file |-> r.file,
                             from |-> r.from, to |-> r.to]}
  /\ fresh' = fresh \cup {r.of}
  /\ Closed(x)
  /\ IF x.by = NoPusher THEN UNCHANGED pusher ELSE Becomes(x.by, [pusher[x.by] EXCEPT !.pc = "stored"])
  /\ UNCHANGED <<source, nextId, purges, purging, due, abandoned>>

RefuseAppend(x) ==
  /\ x.id = 0
  /\ \/ /\ ~SeqMatches(x) \/ ~OffsetMatches(x) \/ (WithinQuota(x) /\ SeqTaken(x))
        /\ Refuse(x.by, "conflict")
     \/ /\ SeqMatches(x) /\ OffsetMatches(x) /\ ~WithinQuota(x)
        /\ Refuse(x.by, "other")
  /\ Closed(x)
  /\ UNCHANGED <<source, chunks, nextId, purges, purging, fresh, due, abandoned>>

\* Deadlock, lost connection, crash: rolled back, and tried again (inTx) or answered with the error.  The id
\* of a row that is rolled back is not given again.
Rollback(x) ==
  /\ Closed(x)
  /\ \/ /\ UNCHANGED pusher
        /\ abandoned' = IF x.by = NoPusher THEN abandoned \cup {x.req} ELSE abandoned
     \/ Refuse(x.by, "other") /\ UNCHANGED abandoned
  /\ UNCHANGED <<source, chunks, nextId, purges, purging, fresh, due>>

-----------------------------------------------------------------------------
(* The server: purgeTranscript and its callers. *)

\* The largest id counts the purged chunks too.
Through(t) == Greatest({c.id : c \in ChunksOf(t)})

PurgesLeft == Cardinality(purges) + Cardinality(purging) < MaxPurges

BeginPurge(t, cause) ==
  /\ LockTranscriptUser /\ PurgesLeft
  /\ Live(t) # {}
  /\ purging' = purging \cup {[of |-> t, through |-> Through(t), cause |-> cause]}
  /\ UNCHANGED <<source, chunks, nextId, purges, appending, fresh, abandoned, pusher>>

\* By the owner, or by the server's operator.
PurgeTranscript(t) == BeginPurge(t, "asked") /\ UNCHANGED due

InsertTranscriptPurge(p) ==
  /\ purging' = purging \ {p}
  /\ purges' = purges \cup {p}
  /\ UNCHANGED <<source, chunks, nextId, appending, fresh, due, abandoned, pusher>>

RollbackPurge(p) ==
  /\ purging' = purging \ {p}
  /\ UNCHANGED <<source, chunks, nextId, purges, appending, fresh, due, abandoned, pusher>>

\* PurgeExpiredTranscripts: it lists the expired transcripts first and purges one after the other.
FindExpired ==
  /\ Retention /\ due = {} /\ PurgesLeft
  /\ due' = {t \in Transcripts \ fresh : Live(t) # {}}
  /\ UNCHANGED <<source, serverVars, abandoned, pusher>>

PurgeExpired(t) ==
  /\ t \in due
  /\ due' = due \ {t}
  /\ BeginPurge(t, "retention")

SkipExpired(t) ==
  /\ t \in due
  /\ due' = due \ {t}
  /\ UNCHANGED <<source, serverVars, abandoned, pusher>>

\* The retention period passes after the last chunk of t.
Expire(t) ==
  /\ Retention /\ t \in fresh /\ PurgesLeft
  /\ fresh' = fresh \ {t}
  /\ UNCHANGED <<source, chunks, nextId, purges, appending, purging, due, abandoned, pusher>>

-----------------------------------------------------------------------------
Push(p) ==
  \/ Start(p) \/ ReadSeq(p) \/ ReadLens(p)
  \/ Send(p) \/ Finish(p) \/ Receive(p)

Waiting(p) == pusher[p].pc = "wait"
HandleAppend(by, r) == TooLarge(by, r) \/ BeginAppend(by, r)
EndAppend(x) == InsertTranscriptChunk(x) \/ CommitAppend(x) \/ RefuseAppend(x)

Work ==
  \/ \E t \in Transcripts, f \in Files : Grow(t, f)
  \/ \E p \in Pushers : Push(p)
  \/ \E r \in abandoned : HandleAppend(NoPusher, r)
  \/ \E p \in Pushers : Waiting(p) /\ HandleAppend(p, NextChunk(p))
  \/ \E x \in appending : EndAppend(x)
  \/ \E t \in Transcripts : PurgeTranscript(t) \/ PurgeExpired(t) \/ SkipExpired(t) \/ Expire(t)
  \/ FindExpired
  \/ \E p \in purging : InsertTranscriptPurge(p)

\* Processes that stop, requests that are lost or refused, transactions that are rolled back.
Disturbance ==
  \/ \E p \in Pushers : GiveUp(p)
  \/ \E r \in abandoned : Fail(NoPusher, r)
  \/ \E p \in Pushers : Waiting(p) /\ Fail(p, NextChunk(p))
  \/ \E x \in appending : Rollback(x)
  \/ \E p \in purging : RollbackPurge(p)

Next == Work \/ Disturbance

Spec == Init /\ [][Next]_vars

-----------------------------------------------------------------------------
(* What the code promises. *)

\* A pull's reading of the list of chunks (liveChunks, transcript_pull.go): all after the last purged one.
PulledChunks(t) == {c \in ChunksOf(t) : \A d \in ChunksOf(t) : Purged(d) => d.seq < c.seq}

(***************************************************************************)
(* At every moment a pull can put the session together: the chunks that it *)
(* takes are the ones that are not purged, and in the order of their seq   *)
(* each begins where the file's chunks before it end, so that downloadRe-  *)
(* store never stops with a gap and never repeats a line.  That is so      *)
(* however pushes, abandoned requests and purges are interleaved.          *)
(***************************************************************************)
Restorable ==
  \A t \in Transcripts :
    /\ PulledChunks(t) = Live(t)
    /\ \A c \in Live(t) :
         IsGreatest(c.from, {d.to : d \in {e \in Live(t) : e.file = c.file /\ e.seq < c.seq}})

\* What a push counts as sent is stored, unless the transcript was purged since it last asked.
NotPurgedSince(p) == pusher[p].known = {q \in purges : q.of = TranscriptOf[p]}

AckedIsStored ==
  \A p \in Pushers :
    pusher[p].pc \in {"send", "wait", "stored"} /\ NotPurgedSince(p)
      => \A f \in Files : pusher[p].lens[f] <= FileLength(TranscriptOf[p], f)

\* The lines of the file f that a pull of t gets.
Lines(t, f) == UNION {c.from + 1 .. c.to : c \in {d \in PulledChunks(t) : d.file = f}}

\* A push that is about to end well has brought over every line that it read, unless they were purged meanwhile.
SentIsPulled ==
  \A p \in Pushers :
    pusher[p].pc = "send" /\ ToSend(p) = {} /\ NotPurgedSince(p)
      => \A f \in Files : 1 .. pusher[p].data[f] \subseteq Lines(TranscriptOf[p], f)

Pulled == [t \in Transcripts |-> [f \in Files |-> Lines(t, f)]]
Log == INSTANCE TranscriptLog WITH pulled <- Pulled

(***************************************************************************)
(* What the pulls get is a log of what the agent wrote (TranscriptLog): it *)
(* begins with the first line of each file, gains only the lines that      *)
(* follow, as they were written, and is taken back by whole transcripts.   *)
(***************************************************************************)
ImplementsLog == Log!Spec

\* The chunks of a user that are not purged never take more than transcript_max_user_bytes.
Quota == UserBytes <= MaxUser

\* A purge takes away all that is stored at that moment, and a file can then be sent from its start.
PurgeTakesAll ==
  [][\A p \in purges' \ purges : ChunksOf(p.of) # {} /\ Live(p.of)' = {}]_vars

(***************************************************************************)
(* The retention job purges a transcript only when its last chunk is older *)
(* than the retention period (PurgeExpiredTranscripts's comment; DESIGN).  *)
(***************************************************************************)
RetentionSparesFresh ==
  [][\A p \in purges' \ purges : p.cause = "retention" => p.of \notin fresh]_vars

\* What a push still has ahead of it: its retries, the lines that it misses, the steps of one chunk.
Patience(p) == (MaxResync - pusher[p].resyncs) + pusher[p].cut
Missing(p)  == UNION {{f} \X (pusher[p].lens[f] + 1 .. pusher[p].data[f]) : f \in Files}
StepsLeft(p) == CASE pusher[p].pc = "idle"   -> 0
                  [] pusher[p].pc = "stored" -> 1
                  [] pusher[p].pc = "wait"   -> 2
                  [] pusher[p].pc = "send"   -> 3
                  [] pusher[p].pc = "lens"   -> 4
                  [] pusher[p].pc = "seq"    -> 5

Closer(p) ==
  \/ 0 <= Patience(p)' /\ Patience(p)' < Patience(p)
  \/ Patience(p)' = Patience(p) /\ Missing(p)' \subseteq Missing(p) /\ Missing(p)' # Missing(p)
  \/ Patience(p)' = Patience(p) /\ Missing(p)' = Missing(p) /\ StepsLeft(p)' < StepsLeft(p)

(***************************************************************************)
(* A push never goes on for ever, whatever the server, the other pushes    *)
(* and the purges do to it (trMaxResync, and the halving of the chunk):    *)
(* each thing that happens to a running push ends it or brings it closer   *)
(* to its end, in an order in which nothing descends for ever.             *)
(***************************************************************************)
PushEnds ==
  [][\A p \in Pushers : pusher[p].pc # "idle" /\ pusher'[p] # pusher[p]
                          => pusher'[p].pc = "idle" \/ Closer(p)]_vars

-----------------------------------------------------------------------------
(* The inductive invariant. *)

HasGreatest(S) == \E n \in S \cup {0} : IsGreatest(n, S)

\* Keys grow with time, and the largest ones that the queries ask for exist.
Keys ==
  /\ \A c \in chunks : c.id < nextId
  /\ \A q \in purges \cup purging : q.through < nextId
  /\ \A t \in Transcripts :
       /\ HasGreatest({c.id : c \in ChunksOf(t)})
       /\ HasGreatest({c.seq : c \in ChunksOf(t)})
       /\ \A f \in Files : HasGreatest({c.to : c \in LiveIn(t, f)})

\* Chunks are numbered in the order of their ids, the purged ones too (UNIQUE (transcript_id, seq)).
Numbered ==
  \A t \in Transcripts : \A c, d \in ChunksOf(t) :
    (c.seq = d.seq => c = d) /\ (c.seq < d.seq <=> c.id < d.id)

\* The lock: at most one transaction is open, ...
OneOpen ==
  /\ \A x, y \in appending : x = y
  /\ \A q, r \in purging : q = r
  /\ appending = {} \/ purging = {}

\* ... and so what it read is still true.
Current ==
  /\ \A x \in appending : /\ x.seq = TranscriptSeq(x.req.of)
                          /\ x.length = FileLength(x.req.of, x.req.file)
                          /\ x.used = UserBytes
  /\ \A q \in purging : ChunksOf(q.of) # {} /\ q.through = Through(q.of)

\* A row that was inserted has passed the checks, and its id is larger than all that can be seen.
Accepted ==
  \A x \in appending : x.id # 0 =>
    /\ SeqMatches(x) /\ OffsetMatches(x) /\ WithinQuota(x)
    /\ x.id < nextId
    /\ \A c \in chunks : c.id < x.id
    /\ \A q \in purges : q.through < x.id

\* A push waits for the request that is handled for it, and knows no purge that is not there.
Served ==
  /\ \A x \in appending : x.by \in Pushers => pusher[x.by].pc = "wait" /\ x.req = NextChunk(x.by)
  /\ \A p \in Pushers :
       /\ pusher[p].known \subseteq purges
       /\ pusher[p].pc \in {"wait", "stored"} => pusher[p].file \in ToSend(p)

\* What a reply on its way reports is stored.
ReplyIsStored ==
  \A p \in Pushers :
    pusher[p].pc = "stored" /\ NotPurgedSince(p)
      => NextChunk(p).to <= FileLength(TranscriptOf[p], pusher[p].file)

IInv == TypeOK /\ Keys /\ Numbered /\ OneOpen /\ Current /\ Accepted /\ Served
        /\ Restorable /\ AckedIsStored /\ ReplyIsStored

\* Nothing is sent, or still under way, that the agent has not written.
Written ==
  /\ \A p \in Pushers, f \in Files : pusher[p].data[f] <= source[TranscriptOf[p]][f]
  /\ \A r \in abandoned \cup {x.req : x \in appending} : r.to <= source[r.of][r.file]

\* The pulled lines of a file are the first ones, without a gap.
Contiguous == \A t \in Transcripts, f \in Files : Lines(t, f) = 1 .. FileLength(t, f)

\* A push retries so often and no more, and knows no lengths before it has asked for them.
Retries ==
  \A p \in Pushers : /\ pusher[p].resyncs <= MaxResync
                     /\ pusher[p].pc \in {"seq", "lens"} => pusher[p].lens = Nothing

\* Everything that is known of a reachable state.
LogInv == IInv /\ Written /\ Contiguous /\ Retries
=============================================================================
