--------------------------- MODULE HandoffProofs ---------------------------
(***************************************************************************)
(* Nothing that was written is lost, written twice or brought back, for    *)
(* any entries, hooks and limits, and however often things fail.           *)
(***************************************************************************)
EXTENDS Handoff, MemoryProofs, SequenceTheorems

-----------------------------------------------------------------------------
(* The client's steps write to the memory as module Memory says. *)

\* What an entry's request does is a write of the memory.
LEMMA AcceptIsWrite ==
  ASSUME HandoffAssumption, HandoffTypeOK, NEW e \in Entries, Accept(e)
  PROVE  MemoryNext
<1>1. CASE e \in Appends
  BY <1>1 DEF HandoffAssumption, Entries, Accept, KeyOf, MemoryNext
<1>2. CASE e \in Compacts
  <2>1. draft[e].version \in Nat /\ draft[e].content \in Contents /\ e \in Texts /\ e \notin Appends
    BY <1>2 DEF HandoffTypeOK, HandoffAssumption, Entries
  <2> QED  BY <2>1 DEF Accept, MemoryNext
<1> QED  BY <1>1, <1>2 DEF Entries

\* What others do is a step of the memory.
LEMMA OthersAreSteps ==
  ASSUME HandoffAssumption, HandoffTypeOK, OthersStep
  PROVE  MemoryNext
<1>1. memory.version \in Nat /\ Other \in Texts /\ <<>> \in Contents
  BY DEF HandoffTypeOK, MemoryTypeOK, MemoryRow, HandoffAssumption, Contents
<1>2. \A n \in 1..memory.version : n \in Nat
  BY <1>1
<1> QED
  BY <1>1, <1>2 DEF OthersStep, OthersAppend, OthersCreate, OthersReplace, OthersDelete, OthersPurge,
     OthersPurgeAll, RetentionPurges, MemoryNext

\* The entry a process has at hand while it waits for the server.
LEMMA AtHand ==
  ASSUME HandoffTypeOK, AtWork, NEW p \in Procs, proc[p].pc = "wait"
  PROVE  proc[p].entry \in Entries
BY DEF AtWork

\* Every other step of a client leaves the memory alone.
LEMMA HandoffIsMemory ==
  ASSUME HandoffAssumption, HandoffTypeOK, AtWork, [Next]_vars
  PROVE  [MemoryNext]_memoryVars
<1>1. ASSUME NEW p \in Procs, FlushStep(p) \/ ProcFails(p)
      PROVE  UNCHANGED memoryVars
  BY <1>1 DEF FlushStep, ProcFails, Stat, Recover, List, Claim, Touch, Flushed, OutOfTime, NoAnswer, Crash
<1>2. ASSUME NEW p \in Procs, SendStep(p)
      PROVE  [MemoryNext]_memoryVars
  <2>1. CASE HandleWrite(p)
    <3>1. proc[p].entry \in Entries
      BY <2>1 DEF HandleWrite, AtWork
    <3> QED  BY <2>1, <3>1, AcceptIsWrite DEF HandleWrite
  <2>2. CASE HandleGet(p) \/ Sent(p) \/ Keep(p)
    BY <2>2 DEF HandleGet, Sent, Keep
  <2> QED  BY <1>2, <2>1, <2>2 DEF SendStep
<1>3. ASSUME NEW e \in Entries, CallStep(e)
      PROVE  UNCHANGED memoryVars
  BY <1>3 DEF CallStep, Call, Begin, Answer, Spool, SpoolFails
<1>4. ASSUME NEW e \in Entries, EntryStep(e)
      PROVE  [MemoryNext]_memoryVars
  <2>1. CASE HandleLate(e)
    BY <2>1, AcceptIsWrite DEF HandleLate
  <2>2. CASE Drop(e) \/ Age(e)
    BY <2>2 DEF Drop, Age
  <2> QED  BY <1>4, <2>1, <2>2 DEF EntryStep
<1>5. ASSUME NEW c \in Compacts, Compose(c)
      PROVE  UNCHANGED memoryVars
  BY <1>5 DEF Compose
<1>6. ASSUME NEW h \in Hooks, Stop(h)
      PROVE  UNCHANGED memoryVars
  BY <1>6 DEF Stop, Begin
<1>7. CASE OthersStep
  BY <1>7, OthersAreSteps
<1>8. CASE UNCHANGED vars
  BY <1>8 DEF vars
<1> QED  BY <1>1, <1>2, <1>3, <1>4, <1>5, <1>6, <1>7, <1>8 DEF Next

-----------------------------------------------------------------------------
(* What a step adds to the memory. *)

\* A new version with this key, section and content; no other body appears.
Advance(key, text, content) ==
  /\ memory'.version = memory.version + 1 /\ memory'.content = content
  /\ versions' = versions \cup {[version |-> memory.version + 1, key |-> key, text |-> text]}
  /\ \A b \in bodies' : b \in bodies \/ b.content = content

Same == UNCHANGED <<memory, versions>> /\ bodies' \subseteq bodies

\* The sections of content are those of the row, and text.
Extends(content, text) ==
  \A i \in DOMAIN content : content[i] = text \/ \E j \in DOMAIN memory.content : content[i] = memory.content[j]

ByOthers ==
  \E text \in {Other, NoText}, content \in Contents :
    Advance(NoKey, text, content) /\ Extends(content, text)
ByAppend(a) ==
  /\ ~Written(a)
  /\ \E content \in Contents : Advance(a, a, content) /\ Extends(content, a)
ByRewriting(c) ==
  /\ memory.version = draft[c].version /\ proc[c].pc # "new"
  /\ Advance(NoKey, c, Rewriting(c))
Moves ==
  \/ Same \/ ByOthers
  \/ \E a \in Appends : ByAppend(a)
  \/ \E c \in Compacts : ByRewriting(c)

\* A write makes one version.
LEMMA WriteAdvances ==
  ASSUME NEW deleted, NEW key, NEW text, NEW content, WriteMemory(deleted, key, text, content)
  PROVE  Advance(key, text, content)
BY DEF WriteMemory, Thin, Advance

\* A purge takes bodies away, and makes at most an empty version.
LEMMA PurgeMoves ==
  ASSUME HandoffTypeOK, NEW chosen, ApplyPurge(chosen)
  PROVE  Same \/ ByOthers
<1>1. PICK last \in chosen :
         /\ bodies' \subseteq bodies
         /\ IF last.version = memory.version
            THEN /\ memory' = Cleared
                 /\ versions' = versions \cup {[version |-> memory.version + 1, key |-> NoKey, text |-> NoText]}
            ELSE UNCHANGED <<memory, versions>>
  BY DEF ApplyPurge
<1>2. CASE last.version = memory.version
  <2>1. Advance(NoKey, NoText, <<>>)
    BY <1>1, <1>2 DEF Advance, Cleared
  <2>2. Extends(<<>>, NoText) /\ <<>> \in Contents
    BY DEF Extends, Contents
  <2> QED  BY <2>1, <2>2 DEF ByOthers
<1>3. CASE last.version # memory.version
  BY <1>1, <1>3 DEF Same
<1> QED  BY <1>2, <1>3

\* What a content with one more section consists of.
LEMMA OneMore ==
  ASSUME NEW content \in Contents, NEW text \in Texts
  PROVE  /\ Append(content, text) \in Contents
         /\ Len(Append(content, text)) = Len(content) + 1
         /\ Append(content, text)[Len(content) + 1] = text
         /\ \A i \in DOMAIN Append(content, text) :
              Append(content, text)[i] = text \/ (i \in DOMAIN content /\ Append(content, text)[i] = content[i])
BY AppendProperties DEF Contents

\* An append adds its section to what the row says.
LEMMA JoinedExtends ==
  ASSUME HandoffTypeOK, NEW text \in Texts
  PROVE  Joined(text) \in Contents /\ Extends(Joined(text), text)
<1>1. memory.content \in Contents /\ <<>> \in Contents
  BY DEF HandoffTypeOK, MemoryTypeOK, MemoryRow, Contents
<1>2. CASE Exists
  BY <1>1, <1>2, OneMore DEF Joined, Extends
<1>3. CASE ~Exists
  <2>1. Joined(text) = Append(<<>>, text)
    BY <1>3 DEF Joined
  <2>2. \A i \in DOMAIN Append(<<>>, text) : Append(<<>>, text)[i] = text
    BY <1>1, OneMore
  <2> QED  BY <1>1, <2>1, <2>2, OneMore DEF Extends
<1> QED  BY <1>2, <1>3

\* An entry's request adds its section once: never again with the same key, or to another version.
LEMMA AcceptMoves ==
  ASSUME HandoffAssumption, HandoffTypeOK, NEW e \in Entries, Accept(e),
         e \in Compacts => proc[e].pc # "new"
  PROVE  Moves
<1>1. CASE e \in Appends
  <2>1. AppendMemory(e, e) /\ e \in Texts
    BY <1>1 DEF Accept, KeyOf, HandoffAssumption, Entries
  <2>2. ~Written(e) /\ Advance(e, e, Joined(e))
    BY <2>1, WriteAdvances DEF AppendMemory, AppendedBefore
  <2> QED  BY <1>1, <2>1, <2>2, JoinedExtends DEF Moves, ByAppend
<1>2. CASE e \in Compacts
  <2>1. ReplaceMemory(draft[e].version, draft[e].content, e)
    BY <1>2 DEF Accept, HandoffAssumption
  <2>2. memory.version = draft[e].version /\ Advance(NoKey, e, Rewriting(e))
    BY <2>1, WriteAdvances DEF ReplaceMemory, Rewriting
  <2> QED  BY <1>2, <2>2 DEF Moves, ByRewriting
<1> QED  BY <1>1, <1>2 DEF Entries

\* Others add what they write themselves, and keep no more than what the row says.
LEMMA OthersMove ==
  ASSUME HandoffAssumption, HandoffTypeOK, OthersStep
  PROVE  Moves
<1>1. Other \in Texts /\ memory.content \in Contents /\ <<>> \in Contents
  BY DEF HandoffAssumption, HandoffTypeOK, MemoryTypeOK, MemoryRow, Contents
<1>2. CASE OthersAppend
  <2>1. Advance(NoKey, Other, Joined(Other))
    BY <1>2, WriteAdvances DEF OthersAppend, AppendMemory
  <2> QED  BY <1>1, <2>1, JoinedExtends DEF Moves, ByOthers
<1>3. CASE OthersCreate
  <2>1. Advance(NoKey, Other, <<Other>>)
    BY <1>3, WriteAdvances DEF OthersCreate, CreateMemory
  <2>2. <<Other>> \in Contents /\ Extends(<<Other>>, Other)
    BY <1>1 DEF Contents, Extends
  <2> QED  BY <2>1, <2>2 DEF Moves, ByOthers
<1>4. CASE OthersReplace
  <2>1. Advance(NoKey, Other, Append(<<>>, Other))
    BY <1>4, WriteAdvances DEF OthersReplace, ReplaceMemory
  <2>2. Append(<<>>, Other) \in Contents /\ Extends(Append(<<>>, Other), Other)
    <3>1. \A i \in DOMAIN Append(<<>>, Other) : Append(<<>>, Other)[i] = Other
      BY <1>1, OneMore
    <3> QED  BY <1>1, <3>1, OneMore DEF Extends
  <2> QED  BY <2>1, <2>2 DEF Moves, ByOthers
<1>5. CASE OthersDelete
  <2>1. Advance(NoKey, NoText, memory.content)
    BY <1>5, WriteAdvances DEF OthersDelete, DeleteMemory
  <2> QED  BY <1>1, <2>1 DEF Moves, ByOthers, Extends
<1>6. ASSUME NEW n \in Nat, OthersPurge(n) \/ RetentionPurges(n) \/ OthersPurgeAll
      PROVE  Moves
  <2>1. \E chosen \in SUBSET bodies : ApplyPurge(chosen)
    BY <1>6 DEF OthersPurge, RetentionPurges, OthersPurgeAll, PurgeMemoryVersion, PurgeExpiredMemories,
       PurgeAllVersions, Expired
  <2> QED  BY <2>1, PurgeMoves DEF Moves
<1>7. \A n \in 1..memory.version : n \in Nat
  OBVIOUS
<1> QED  BY <1>2, <1>3, <1>4, <1>5, <1>6, <1>7 DEF OthersStep

\* Every step moves the memory in one of these ways, or leaves it alone.
LEMMA StepMoves ==
  ASSUME HandoffAssumption, HandoffTypeOK, AtWork, Unprepared, [Next]_vars
  PROVE  Moves
<1>1. ASSUME NEW p \in Procs, FlushStep(p) \/ ProcFails(p)
      PROVE  Same
  BY <1>1 DEF FlushStep, ProcFails, Stat, Recover, List, Claim, Touch, Flushed, OutOfTime, NoAnswer, Crash,
     memoryVars, Same
<1>2. ASSUME NEW p \in Procs, SendStep(p)
      PROVE  Moves
  <2>1. CASE HandleWrite(p)
    <3>1. proc[p].entry \in Entries
      BY <2>1 DEF HandleWrite, AtWork
    <3>2. proc[p].entry \in Compacts => proc[proc[p].entry].pc # "new"
      BY DEF Unprepared
    <3>3. UNCHANGED memoryVars => Moves
      BY DEF memoryVars, Same, Moves
    <3> QED  BY <2>1, <3>1, <3>2, <3>3, AcceptMoves DEF HandleWrite
  <2>2. CASE HandleGet(p) \/ Sent(p) \/ Keep(p)
    BY <2>2 DEF HandleGet, Sent, Keep, memoryVars, Same, Moves
  <2> QED  BY <1>2, <2>1, <2>2 DEF SendStep
<1>3. ASSUME NEW e \in Entries, CallStep(e)
      PROVE  Same
  BY <1>3 DEF CallStep, Call, Begin, Answer, Spool, SpoolFails, memoryVars, Same
<1>4. ASSUME NEW e \in Entries, EntryStep(e)
      PROVE  Moves
  <2>1. CASE HandleLate(e)
    <3>1. e \in Compacts => proc[e].pc # "new"
      BY <2>1 DEF HandleLate, Unprepared
    <3>2. UNCHANGED memoryVars => Moves
      BY DEF memoryVars, Same, Moves
    <3> QED  BY <2>1, <3>1, <3>2, AcceptMoves DEF HandleLate
  <2>2. CASE Drop(e) \/ Age(e)
    BY <2>2 DEF Drop, Age, memoryVars, Same, Moves
  <2> QED  BY <1>4, <2>1, <2>2 DEF EntryStep
<1>5. ASSUME NEW c \in Compacts, Compose(c)
      PROVE  Same
  BY <1>5 DEF Compose, memoryVars, Same
<1>6. ASSUME NEW h \in Hooks, Stop(h)
      PROVE  Same
  BY <1>6 DEF Stop, Begin, memoryVars, Same
<1>7. CASE OthersStep
  BY <1>7, OthersMove
<1>8. CASE UNCHANGED vars
  BY <1>8 DEF vars, memoryVars, Same, Moves
<1> QED  BY <1>1, <1>2, <1>3, <1>4, <1>5, <1>6, <1>7, <1>8 DEF Next, Moves

\* A rewriting is only prepared once, and by nobody else.
LEMMA DraftMoves ==
  ASSUME [Next]_vars
  PROVE  draft' = draft \/ \E c \in Compacts : Compose(c)
BY DEF Next, FlushStep, SendStep, ProcFails, CallStep, EntryStep, OthersStep,
   Stat, Recover, List, Claim, Touch, Flushed, HandleGet, HandleWrite, Sent, Keep, OutOfTime, NoAnswer, Crash,
   Call, Stop, Begin, Answer, Spool, SpoolFails, HandleLate, Drop, Age,
   OthersAppend, OthersCreate, OthersReplace, OthersDelete, OthersPurgeAll, OthersPurge, RetentionPurges,
   MayWrite, Elsewhere, clientVars, vars

\* What is in a version stays there, and a rewriting nobody has prepared does not get into one.
LEMMA StoredGrows ==
  ASSUME HandoffAssumption, MemoryAssumption, Moves
  PROVE  /\ versions \subseteq versions'
         /\ \A e \in Entries : Stored(e) => Stored(e)'
         /\ \A c \in Compacts : ~Stored(c) /\ proc[c].pc = "new" => ~Stored(c)'
<1>1. versions \subseteq versions'
  BY DEF Moves, Same, ByOthers, ByAppend, ByRewriting, Advance
<1>2. ASSUME NEW c \in Compacts, ~Stored(c), proc[c].pc = "new", NEW v \in versions', v.text = c
      PROVE  FALSE
  <2>1. v \notin versions
    BY <1>2 DEF Stored
  <2>2. c \notin Appends /\ c # Other /\ c # NoText
    BY DEF HandoffAssumption, MemoryAssumption, Entries
  <2>3. CASE ByOthers
    BY <1>2, <2>1, <2>2, <2>3 DEF ByOthers, Advance
  <2>4. ASSUME NEW a \in Appends, ByAppend(a) PROVE FALSE
    BY <1>2, <2>1, <2>2, <2>4 DEF ByAppend, Advance
  <2>5. ASSUME NEW d \in Compacts, ByRewriting(d) PROVE FALSE
    BY <1>2, <2>1, <2>5 DEF ByRewriting, Advance
  <2> QED  BY <2>1, <2>3, <2>4, <2>5 DEF Moves, Same
<1> QED  BY <1>1, <1>2 DEF Stored

-----------------------------------------------------------------------------
(* The clients. *)

ClientType ==
  /\ file \in [Entries -> {"none", "waiting", "sending"}]
  /\ stale \subseteq Entries /\ older \in [Entries -> SUBSET Entries]
  /\ draft \in [Compacts -> [version : Nat, content : Contents]]
  /\ told \in [Entries -> Answers]
  /\ proc \in [Procs -> Process]
  /\ late \in [Entries -> Nat] /\ failures \in Nat

Client == ClientType /\ NothingLost /\ Unprepared /\ AtWork

\* What StoredGrows says of a step.
Grows ==
  /\ \A e \in Entries : Stored(e) => Stored(e)'
  /\ \A c \in Compacts : ~Stored(c) /\ proc[c].pc = "new" => ~Stored(c)'

\* An entry that is in a version after the step.
WillBeStored(e) == \E v \in versions' : v.text = e

\* A rewriting nobody has prepared stays out of the files and the requests.
Hidden == \A c \in Compacts : proc[c].pc = "new" => late'[c] = 0 /\ file'[c] = "none"

\* A process may go on like this.
Apt(p, new) ==
  /\ new \in Process /\ new.pc # "new"
  /\ new.pc \in {"recover", "touch", "get", "wait", "ok", "refused"} => new.entry \in Entries
  /\ new.own => new.entry = p /\ new.pc \in {"wait", "ok", "refused", "off"}
  /\ new.pc = "ok" => WillBeStored(new.entry)
  /\ new.pc = "get" => new.entry \in Compacts
  /\ \A c \in Compacts : c \in new.todo \/ new.entry = c => c = p \/ proc[c].pc # "new"

\* What is stored stays stored.
LEMMA StoredStays ==
  ASSUME Grows
  PROVE  \A e \in Entries : Stored(e) => WillBeStored(e)
BY DEF Grows, Stored, WillBeStored

\* What the processes know stays true when none of them moves.
LEMMA NobodyMoves ==
  ASSUME Client, Grows, Hidden, UNCHANGED proc
  PROVE  Unprepared' /\ AtWork'
BY DEF Client, Grows, Hidden, Unprepared, AtWork

\* What the processes know stays true when one of them goes on as it may.
LEMMA ProcMoves ==
  ASSUME HandoffAssumption, MemoryAssumption, Client, Grows, Hidden,
         NEW p \in Procs, NEW new, Apt(p, new), Becomes(p, new)
  PROVE  proc' \in [Procs -> Process] /\ Unprepared' /\ AtWork'
<1>1. proc \in [Procs -> Process] /\ new \in Process
  BY DEF Client, ClientType, Apt
<1>2. proc' \in [Procs -> Process] /\ proc'[p] = new /\ \A q \in Procs : q # p => proc'[q] = proc[q]
  BY <1>1 DEF Becomes
<1>3. ASSUME NEW c \in Compacts, proc'[c].pc = "new"
      PROVE  c # p /\ proc[c].pc = "new"
  BY <1>2, <1>3 DEF Apt, Procs, Entries
<1>4. Unprepared'
  BY <1>2, <1>3 DEF Client, Grows, Hidden, Unprepared, Apt
<1>5. AtWork'
  BY <1>2 DEF Client, Grows, AtWork, Apt, Stored, WillBeStored
<1> QED  BY <1>2, <1>4, <1>5

\* A process that has just started, ended or given up has nothing at hand.
LEMMA AtIsApt ==
  ASSUME MemoryAssumption, HandoffAssumption, NEW p \in Procs, NEW pc \in Places,
         pc \in {"read", "off", "scan", "flush", "spool"}
  PROVE  Apt(p, At(pc))
BY DEF At, Process, Places, Apt, MemoryAssumption, HandoffAssumption, Entries

\* What callers were told stays true when a step tells nobody and removes no file.
LEMMA NobodyTold ==
  ASSUME Client, Grows, UNCHANGED told, \A e \in Entries : file[e] # "none" => file'[e] # "none"
  PROVE  NothingLost'
BY DEF Client, Grows, NothingLost

\* A process looks at a file or passes it.
LEMMA LookingOn ==
  ASSUME MemoryAssumption, HandoffAssumption, Client, NEW p \in Procs, NEW e \in proc[p].todo,
         proc[p].pc \in {"scan", "flush"}
  PROVE  /\ Apt(p, [proc[p] EXCEPT !.pc = "recover", !.entry = e, !.todo = @ \ {e}])
         /\ Apt(p, [proc[p] EXCEPT !.pc = "touch", !.entry = e, !.todo = @ \ {e}])
         /\ Apt(p, [proc[p] EXCEPT !.todo = @ \ {e}])
<1>1. proc[p] \in Process /\ e \in Entries /\ ~proc[p].own
  BY DEF Client, ClientType, Process, AtWork
<1>2. \A c \in Compacts : c \in proc[p].todo \/ proc[p].entry = c => proc[c].pc # "new"
  BY DEF Client, Unprepared
<1>3. ASSUME NEW pc \in {"recover", "touch"}
      PROVE  Apt(p, [proc[p] EXCEPT !.pc = pc, !.entry = e, !.todo = @ \ {e}])
  BY <1>1, <1>2 DEF Apt, Process, Places
<1>4. Apt(p, [proc[p] EXCEPT !.todo = @ \ {e}])
  BY <1>1, <1>2 DEF Apt, Process, Places
<1> QED  BY <1>3, <1>4

\* A process goes on with the same file, or to the next.
LEMMA GoingOn ==
  ASSUME MemoryAssumption, HandoffAssumption, Client, NEW p \in Procs, ~proc[p].own
  PROVE  /\ \A pc \in {"scan", "flush"} : Apt(p, [proc[p] EXCEPT !.pc = pc, !.entry = NoText])
         /\ proc[p].entry \in Entries =>
              \A pc \in {"touch", "wait", "refused"} : Apt(p, [proc[p] EXCEPT !.pc = pc])
         /\ proc[p].entry \in Compacts => Apt(p, [proc[p] EXCEPT !.pc = "get"])
         /\ proc[p].entry \in Entries /\ WillBeStored(proc[p].entry) => Apt(p, [proc[p] EXCEPT !.pc = "ok"])
<1>1. proc[p] \in Process /\ NoText \notin Entries /\ Compacts \subseteq Entries
  BY DEF Client, ClientType, MemoryAssumption, HandoffAssumption, Entries
<1>2. \A c \in Compacts : c \in proc[p].todo \/ proc[p].entry = c => proc[c].pc # "new"
  BY DEF Client, Unprepared
<1>3. ASSUME NEW pc \in {"scan", "flush"}
      PROVE  Apt(p, [proc[p] EXCEPT !.pc = pc, !.entry = NoText])
  BY <1>1, <1>2 DEF Apt, Process, Places
<1>4. ASSUME proc[p].entry \in Entries, NEW pc \in {"touch", "wait", "refused"}
      PROVE  Apt(p, [proc[p] EXCEPT !.pc = pc])
  BY <1>1, <1>2, <1>4 DEF Apt, Process, Places
<1>5. ASSUME proc[p].entry \in Compacts
      PROVE  Apt(p, [proc[p] EXCEPT !.pc = "get"])
  BY <1>1, <1>2, <1>5 DEF Apt, Process, Places
<1>6. ASSUME proc[p].entry \in Entries, WillBeStored(proc[p].entry)
      PROVE  Apt(p, [proc[p] EXCEPT !.pc = "ok"])
  BY <1>1, <1>2, <1>6 DEF Apt, Process, Places, WillBeStored
<1> QED  BY <1>3, <1>4, <1>5, <1>6

\* The files that are listed are none of a rewriting that nobody has prepared.
LEMMA Listing ==
  ASSUME MemoryAssumption, HandoffAssumption, Client, NEW p \in Procs, NEW where \in {"waiting", "sending"}
  PROVE  /\ Apt(p, [At("scan") EXCEPT !.todo = FilesThatAre(where)])
         /\ proc[p].pc = "scan" => Apt(p, [proc[p] EXCEPT !.pc = "flush", !.todo = FilesThatAre(where)])
<1>1. /\ proc[p] \in Process /\ FilesThatAre(where) \subseteq Entries
      /\ NoText \notin Entries /\ Compacts \subseteq Entries
  BY DEF Client, ClientType, FilesThatAre, MemoryAssumption, HandoffAssumption, Entries
<1>2. \A c \in Compacts : c \in FilesThatAre(where) \/ proc[p].entry = c => proc[c].pc # "new"
  BY DEF Client, Unprepared, FilesThatAre
<1>3. proc[p].pc = "scan" => ~proc[p].own
  BY DEF Client, AtWork
<1> QED  BY <1>1, <1>2, <1>3 DEF Apt, At, Process, Places

\* The steps of a flush up to a request.
LEMMA FlushSteps ==
  ASSUME HandoffAssumption, MemoryAssumption, Client, Grows, NEW p \in Procs, FlushStep(p)
  PROVE  Client'
<1>1. /\ Compacts \subseteq Entries /\ Entries \subseteq Procs /\ proc[p] \in Process
      /\ NoText \notin Entries /\ \A c \in Compacts : proc[c].pc = "new" => late[c] = 0 /\ file[c] = "none"
  BY DEF HandoffAssumption, MemoryAssumption, Entries, Procs, Client, ClientType, Unprepared
<1>2. CASE Stat(p)
  <2>1. PICK e \in proc[p].todo : IF LeftBehind(e) THEN Takes(p, e, "recover") ELSE Passes(p, e)
    BY <1>2 DEF Stat
  <2>2. \E new : Apt(p, new) /\ Becomes(p, new)
    BY <1>2, <2>1, LookingOn DEF Stat, Takes, Passes
  <2>3. proc' \in [Procs -> Process] /\ Unprepared' /\ AtWork'
    BY <1>1, <1>2, <2>2, ProcMoves DEF Stat, Hidden, spoolVars
  <2> QED  BY <1>2, <2>3, NobodyTold DEF Stat, Client, ClientType, spoolVars
<1>3. CASE Recover(p)
  <2>1. proc[p].entry \in Entries /\ ~proc[p].own
    BY <1>3 DEF Recover, Client, AtWork
  <2>2. \E new : Apt(p, new) /\ Becomes(p, new)
    BY <1>3, <2>1, GoingOn DEF Recover, NextFile
  <2>3. /\ file' \in [Entries -> {"none", "waiting", "sending"}]
        /\ \A e \in Entries : file'[e] = "none" <=> file[e] = "none"
    BY <1>3, <2>1 DEF Recover, BackToWaiting, Client, ClientType
  <2>4. proc' \in [Procs -> Process] /\ Unprepared' /\ AtWork'
    BY <1>1, <1>3, <2>2, <2>3, ProcMoves DEF Recover, Hidden
  <2> QED  BY <1>3, <2>3, <2>4, NobodyTold DEF Recover, Client, ClientType
<1>4. CASE List(p)
  <2>1. \E new : Apt(p, new) /\ Becomes(p, new)
    BY <1>4, Listing DEF List
  <2>2. proc' \in [Procs -> Process] /\ Unprepared' /\ AtWork'
    BY <1>1, <1>4, <2>1, ProcMoves DEF List, Hidden, spoolVars
  <2> QED  BY <1>4, <2>2, NobodyTold DEF List, Client, ClientType, spoolVars
<1>5. CASE Claim(p)
  <2>1. PICK e \in proc[p].todo :
          IF file[e] = "waiting"
          THEN file' = [file EXCEPT ![e] = "sending"] /\ Takes(p, e, "touch")
          ELSE UNCHANGED file /\ Passes(p, e)
    BY <1>5 DEF Claim
  <2>2. \E new : Apt(p, new) /\ Becomes(p, new)
    BY <1>5, <2>1, LookingOn DEF Claim, Takes, Passes
  <2>3. e \in Entries
    BY <1>1 DEF Process
  <2>4. /\ file' \in [Entries -> {"none", "waiting", "sending"}]
        /\ \A f \in Entries : file'[f] = "none" <=> file[f] = "none"
    BY <2>1, <2>3 DEF Client, ClientType
  <2>5. proc' \in [Procs -> Process] /\ Unprepared' /\ AtWork'
    BY <1>1, <1>5, <2>2, <2>4, ProcMoves DEF Claim, Hidden
  <2> QED  BY <1>5, <2>4, <2>5, NobodyTold DEF Claim, Client, ClientType
<1>6. CASE Touch(p)
  <2>1. proc[p].entry \in Entries /\ ~proc[p].own
    BY <1>6 DEF Touch, Client, AtWork
  <2>2. \E new : Apt(p, new) /\ Becomes(p, new)
    BY <1>6, <2>1, GoingOn DEF Touch, Going, NextFile
  <2>3. proc' \in [Procs -> Process] /\ Unprepared' /\ AtWork'
    BY <1>1, <1>6, <2>2, ProcMoves DEF Touch, Hidden
  <2> QED  BY <1>6, <2>3, NobodyTold DEF Touch, Client, ClientType
<1>7. CASE Flushed(p)
  <2>1. p \notin Hooks => Apt(p, [At("wait") EXCEPT !.entry = p, !.own = TRUE])
    BY <1>1 DEF At, Apt, Process, Places, Procs
  <2>2. \E new : Apt(p, new) /\ Becomes(p, new)
    <3>1. Apt(p, At("off")) /\ Apt(p, At("spool"))
      BY AtIsApt DEF Places
    <3> QED  BY <1>7, <2>1, <3>1 DEF Flushed
  <2>3. proc' \in [Procs -> Process] /\ Unprepared' /\ AtWork'
    BY <1>1, <1>7, <2>2, ProcMoves DEF Flushed, Hidden, spoolVars
  <2> QED  BY <1>7, <2>3, NobodyTold DEF Flushed, Client, ClientType, spoolVars
<1> QED  BY <1>2, <1>3, <1>4, <1>5, <1>6, <1>7 DEF FlushStep

\* What a row shows was written in some version, and a key is the section of its version.
LEMMA SaidIsStored ==
  ASSUME HandoffAssumption, MemoryAssumption, HandoffTypeOK, KeyIsText, SectionsKnown, NEW e \in Entries
  PROVE  /\ e \in Compacts /\ ShownContent = Rewriting(e) => Stored(e)
         /\ Repeated(e) => Stored(e)
<1>1. ASSUME e \in Compacts, ShownContent = Rewriting(e)
      PROVE  Stored(e)
  <2>1. draft[e].content \in Contents /\ e \in Texts
    BY <1>1 DEF HandoffTypeOK, HandoffAssumption
  <2>2. Rewriting(e)[Len(draft[e].content) + 1] = e /\ Len(Rewriting(e)) = Len(draft[e].content) + 1
        /\ Rewriting(e) \in Contents
    BY <2>1, OneMore DEF Rewriting
  <2>3. Len(draft[e].content) + 1 \in DOMAIN Rewriting(e) /\ Rewriting(e) # <<>>
    BY <2>1, <2>2 DEF Contents
  <2>4. memory.content = Rewriting(e)
    BY <1>1, <2>3 DEF ShownContent
  <2> QED  BY <2>2, <2>3, <2>4 DEF SectionsKnown, Stored
<1>2. ASSUME Repeated(e) PROVE Stored(e)
  BY <1>2 DEF Repeated, AppendedBefore, Written, KeyOf, KeyIsText, Stored
<1> QED  BY <1>1, <1>2

\* A request that is accepted leaves a version with its section.
LEMMA AcceptStores ==
  ASSUME NEW e, Accept(e)
  PROVE  WillBeStored(e)
<1>1. ASSUME NEW key, NEW content, WriteMemory(FALSE, key, e, content)
      PROVE  WillBeStored(e)
  <2>1. [version |-> memory.version + 1, key |-> key, text |-> e] \in versions'
    <3>1. Advance(key, e, content)
      BY <1>1, WriteAdvances
    <3> QED  BY <3>1 DEF Advance
  <2>2. [version |-> memory.version + 1, key |-> key, text |-> e].text = e
    OBVIOUS
  <2> QED  BY <2>1, <2>2, Zenon DEF WillBeStored
<1>2. CASE e \in Appends
  BY <1>1, <1>2 DEF Accept, AppendMemory
<1>3. CASE e \notin Appends
  BY <1>1, <1>3 DEF Accept, ReplaceMemory
<1> QED  BY <1>2, <1>3

\* What a process does with its request and the answer.
LEMMA SendSteps ==
  ASSUME HandoffAssumption, MemoryAssumption, HandoffTypeOK, Client, Grows, KeyIsText, SectionsKnown,
         NEW p \in Procs, SendStep(p)
  PROVE  Client'
<1>1. /\ Compacts \subseteq Entries /\ Entries \subseteq Procs /\ proc[p] \in Process
      /\ \A c \in Compacts : proc[c].pc = "new" => late[c] = 0 /\ file[c] = "none"
  BY DEF Entries, Procs, Client, ClientType, Unprepared
<1>2. CASE HandleGet(p)
  <2>1. proc[p].entry \in Compacts /\ proc[p].entry \in Entries /\ ~proc[p].own
    BY <1>1, <1>2 DEF HandleGet, Client, AtWork
  <2>2. ShownContent = Rewriting(proc[p].entry) => WillBeStored(proc[p].entry)
    BY <2>1, SaidIsStored, StoredStays
  <2>3. \E new : Apt(p, new) /\ Becomes(p, new)
    BY <1>2, <2>1, <2>2, GoingOn DEF HandleGet, Going
  <2>4. proc' \in [Procs -> Process] /\ Unprepared' /\ AtWork'
    BY <1>1, <1>2, <2>3, ProcMoves DEF HandleGet, Hidden, spoolVars
  <2> QED  BY <1>2, <2>4, NobodyTold DEF HandleGet, Client, ClientType, spoolVars
<1>3. CASE HandleWrite(p)
  <2>1. proc[p].entry \in Entries
    BY <1>3 DEF HandleWrite, Client, AtWork
  <2>2. Going(p, "refused") \/ (Going(p, "ok") /\ WillBeStored(proc[p].entry))
    <3>1. Accept(proc[p].entry) => WillBeStored(proc[p].entry)
      BY AcceptStores
    <3>2. Repeated(proc[p].entry) => WillBeStored(proc[p].entry)
      BY <2>1, SaidIsStored, StoredStays
    <3> QED  BY <1>3, <3>1, <3>2 DEF HandleWrite
  <2>3. \E new : Apt(p, new) /\ Becomes(p, new)
    <3>1. CASE Going(p, "refused") /\ ~proc[p].own
      BY <2>1, <3>1, GoingOn DEF Going
    <3>2. CASE Going(p, "ok") /\ WillBeStored(proc[p].entry) /\ ~proc[p].own
      BY <2>1, <3>2, GoingOn DEF Going
    <3>3. CASE proc[p].own
      <4>1. proc[p].entry = p /\ \A c \in Compacts : c \in proc[p].todo => proc[c].pc # "new"
        BY <3>3 DEF Client, AtWork, Unprepared
      <4>2. Apt(p, [proc[p] EXCEPT !.pc = "refused"])
        BY <1>1, <2>1, <4>1 DEF Apt, Process, Places
      <4>3. WillBeStored(proc[p].entry) => Apt(p, [proc[p] EXCEPT !.pc = "ok"])
        BY <1>1, <2>1, <4>1 DEF Apt, Process, Places, WillBeStored
      <4> QED  BY <2>2, <4>2, <4>3 DEF Going
    <3> QED  BY <2>2, <3>1, <3>2, <3>3
  <2>4. proc' \in [Procs -> Process] /\ Unprepared' /\ AtWork'
    BY <1>1, <1>3, <2>3, ProcMoves DEF HandleWrite, Hidden, spoolVars
  <2> QED  BY <1>3, <2>4, NobodyTold DEF HandleWrite, Client, ClientType, spoolVars
<1>4. CASE Sent(p)
  <2>1. proc[p].entry \in Entries /\ ~proc[p].own /\ Stored(proc[p].entry)
    BY <1>4 DEF Sent, Client, AtWork
  <2>2. \E new : Apt(p, new) /\ Becomes(p, new)
    BY <1>4, <2>1, GoingOn DEF Sent, NextFile
  <2>3. /\ file' \in [Entries -> {"none", "waiting", "sending"}] /\ stale' \subseteq Entries
        /\ \A e \in Entries : file[e] = "none" => file'[e] = "none"
        /\ \A e \in Entries : e # proc[p].entry => file'[e] = file[e]
    BY <1>4, <2>1 DEF Sent, Removed, Client, ClientType
  <2>4. proc' \in [Procs -> Process] /\ Unprepared' /\ AtWork'
    BY <1>1, <1>4, <2>2, <2>3, ProcMoves DEF Sent, Hidden
  <2>5. NothingLost'
    BY <1>4, <2>1, <2>3 DEF Sent, Client, Grows, NothingLost
  <2> QED  BY <1>4, <2>3, <2>4, <2>5 DEF Sent, Client, ClientType
<1>5. CASE Keep(p)
  <2>1. proc[p].entry \in Entries /\ ~proc[p].own
    BY <1>5 DEF Keep, Client, AtWork
  <2>2. \E new : Apt(p, new) /\ Becomes(p, new)
    BY <1>5, <2>1, GoingOn DEF Keep, NextFile
  <2>3. /\ file' \in [Entries -> {"none", "waiting", "sending"}] /\ stale' = stale
        /\ \A e \in Entries : file'[e] = "none" <=> file[e] = "none"
    BY <1>5, <2>1 DEF Keep, Kept, BackToWaiting, Client, ClientType
  <2>4. proc' \in [Procs -> Process] /\ Unprepared' /\ AtWork'
    BY <1>1, <1>5, <2>2, <2>3, ProcMoves DEF Keep, Hidden
  <2> QED  BY <1>5, <2>3, <2>4, NobodyTold DEF Keep, Client, ClientType
<1> QED  BY <1>2, <1>3, <1>4, <1>5 DEF SendStep

\* A request that is given up is one of the entry at hand.
LEMMA Abandoning ==
  ASSUME HandoffAssumption, Client, NEW p \in Procs, Abandoned(p)
  PROVE  /\ late' \in [Entries -> Nat]
         /\ \A c \in Compacts : proc[c].pc = "new" => late'[c] = 0
<1>1. late \in [Entries -> Nat] /\ Compacts \subseteq Entries /\ (proc[p].pc = "wait" => proc[p].entry \in Entries)
  BY DEF Client, ClientType, AtWork, Entries
<1>2. \A c \in Compacts : proc[c].pc = "new" => late[c] = 0 /\ proc[p].entry # c
  BY DEF Client, Unprepared
<1> QED  BY <1>1, <1>2 DEF Abandoned

\* Whatever fails, the files stay.
LEMMA FailSteps ==
  ASSUME HandoffAssumption, MemoryAssumption, Client, Grows, NEW p \in Procs, ProcFails(p)
  PROVE  Client'
<1>1. /\ Compacts \subseteq Entries /\ proc[p] \in Process /\ failures \in Nat
      /\ \A c \in Compacts : proc[c].pc = "new" => late[c] = 0 /\ file[c] = "none"
  BY DEF Entries, Client, ClientType, Unprepared
<1>2. CASE OutOfTime(p)
  <2>1. Apt(p, [proc[p] EXCEPT !.todo = {}])
    BY <1>1, <1>2 DEF OutOfTime, Client, Unprepared, AtWork, Apt, Process, Places
  <2>2. proc' \in [Procs -> Process] /\ Unprepared' /\ AtWork'
    BY <1>1, <1>2, <2>1, ProcMoves DEF OutOfTime, Hidden, spoolVars
  <2> QED  BY <1>2, <2>2, NobodyTold DEF OutOfTime, Client, ClientType, spoolVars
<1>3. CASE NoAnswer(p)
  <2>1. Apt(p, At("spool")) /\ Apt(p, At("flush"))
    BY AtIsApt DEF Places
  <2>2. \A down \in BOOLEAN : Apt(p, [At("flush") EXCEPT !.down = down])
    BY <2>1 DEF At, Apt, Process
  <2>3. \E new : Apt(p, new) /\ Becomes(p, new)
    BY <1>3, <2>1, <2>2 DEF NoAnswer
  <2>4. /\ file' \in [Entries -> {"none", "waiting", "sending"}]
        /\ \A e \in Entries : file'[e] = "none" <=> file[e] = "none"
    BY <1>3 DEF NoAnswer, BackToWaiting, Client, ClientType
  <2>5. late' \in [Entries -> Nat] /\ Hidden /\ failures' \in Nat
    BY <1>1, <1>3, <2>4, Abandoning DEF NoAnswer, Hidden
  <2>6. proc' \in [Procs -> Process] /\ Unprepared' /\ AtWork'
    BY <2>3, <2>5, ProcMoves
  <2> QED  BY <1>3, <2>4, <2>5, <2>6, NobodyTold DEF NoAnswer, Client, ClientType
<1>4. CASE Crash(p)
  <2>1. Apt(p, At("off"))
    BY AtIsApt DEF Places
  <2>2. late' \in [Entries -> Nat] /\ Hidden /\ failures' \in Nat
    BY <1>1, <1>4, Abandoning DEF Crash, Hidden, spoolVars
  <2>3. proc' \in [Procs -> Process] /\ Unprepared' /\ AtWork'
    BY <1>4, <2>1, <2>2, ProcMoves DEF Crash
  <2> QED  BY <1>4, <2>2, <2>3, NobodyTold DEF Crash, Client, ClientType, spoolVars
<1> QED  BY <1>2, <1>3, <1>4 DEF ProcFails

\* The command line calls, tells its caller and puts aside.
LEMMA CallSteps ==
  ASSUME HandoffAssumption, MemoryAssumption, Client, Grows, NEW e \in Entries, CallStep(e)
  PROVE  Client'
<1>1. /\ Compacts \subseteq Entries /\ e \in Procs /\ proc[e] \in Process
      /\ \A c \in Compacts : proc[c].pc = "new" => late[c] = 0 /\ file[c] = "none"
  BY DEF Entries, Procs, Client, ClientType, Unprepared
<1>2. CASE Call(e)
  <2>1. \E new : Apt(e, new) /\ Becomes(e, new)
    BY <1>1, <1>2, Listing DEF Call, Begin
  <2>2. proc' \in [Procs -> Process] /\ Unprepared' /\ AtWork'
    BY <1>1, <1>2, <2>1, ProcMoves DEF Call, Begin, Hidden, spoolVars
  <2> QED  BY <1>2, <2>2, NobodyTold DEF Call, Begin, Client, ClientType, spoolVars
<1>3. ASSUME Going(e, "off"), Hidden, proc[e].pc # "new"
      PROVE  proc' \in [Procs -> Process] /\ Unprepared' /\ AtWork'
  <2>1. \A c \in Compacts : c \in proc[e].todo \/ proc[e].entry = c => proc[c].pc # "new"
    BY <1>1 DEF Client, Unprepared
  <2>2. Apt(e, [proc[e] EXCEPT !.pc = "off"])
    BY <1>1, <2>1 DEF Client, AtWork, Apt, Process, Places
  <2> QED  BY <1>1, <1>3, <2>2, ProcMoves DEF Going
<1>4. CASE Answer(e)
  <2>1. proc[e].pc = "ok" => Stored(e)
    BY <1>1, <1>4 DEF Answer, Client, AtWork
  <2>2. NothingLost'
    BY <1>4, <2>1 DEF Answer, Tell, Client, ClientType, Grows, NothingLost, spoolVars
  <2>3. told' \in [Entries -> Answers]
    BY <1>4 DEF Answer, Tell, Client, ClientType, Answers
  <2> QED  BY <1>1, <1>3, <1>4, <2>2, <2>3 DEF Answer, Tell, Hidden, Client, ClientType, spoolVars
<1>5. CASE Spool(e)
  <2>1. file' \in [Entries -> {"none", "waiting", "sending"}] /\ older' \in [Entries -> SUBSET Entries]
    BY <1>5 DEF Spool, Client, ClientType
  <2>2. told' \in [Entries -> Answers]
    BY <1>5 DEF Spool, Tell, Client, ClientType, Answers
  <2>3. NothingLost'
    BY <1>5 DEF Spool, Tell, Client, ClientType, Grows, NothingLost
  <2>4. Hidden
    BY <1>1, <1>5 DEF Spool, Hidden, Client, ClientType
  <2> QED  BY <1>1, <1>3, <1>5, <2>1, <2>2, <2>3, <2>4 DEF Spool, Tell, Client, ClientType
<1>6. CASE SpoolFails(e)
  <2>1. told' \in [Entries -> Answers]
    BY <1>6 DEF SpoolFails, Tell, Client, ClientType, Answers
  <2>2. NothingLost'
    BY <1>6 DEF SpoolFails, Tell, Client, ClientType, Grows, NothingLost, spoolVars
  <2> QED  BY <1>1, <1>3, <1>6, <2>1, <2>2 DEF SpoolFails, Tell, Hidden, Client, ClientType, spoolVars
<1> QED  BY <1>2, <1>4, <1>5, <1>6 DEF CallStep

\* Late requests, dropped files and time.
LEMMA EntrySteps ==
  ASSUME HandoffAssumption, MemoryAssumption, Client, Grows, NEW e \in Entries, EntryStep(e)
  PROVE  Client'
<1>1. /\ Compacts \subseteq Entries
      /\ \A c \in Compacts : proc[c].pc = "new" => late[c] = 0 /\ file[c] = "none"
  BY DEF Entries, Client, ClientType, Unprepared
<1>2. CASE HandleLate(e)
  <2>1. late' \in [Entries -> Nat] /\ Hidden
    BY <1>1, <1>2 DEF HandleLate, Client, ClientType, Hidden, spoolVars
  <2> QED  BY <1>2, <2>1, NobodyMoves, NobodyTold DEF HandleLate, Client, ClientType, spoolVars, clientVars
<1>3. CASE Drop(e)
  <2>1. /\ file' \in [Entries -> {"none", "waiting", "sending"}] /\ stale' \subseteq Entries
        /\ \A f \in Entries : file[f] = "none" => file'[f] = "none"
        /\ \A f \in Entries : f # e => file'[f] = file[f]
    BY <1>3 DEF Drop, Removed, Client, ClientType
  <2>2. told' \in [Entries -> Answers] /\ NothingLost'
    BY <1>3, <2>1 DEF Drop, Client, ClientType, Grows, NothingLost, Answers
  <2>3. Hidden
    BY <1>1, <1>3, <2>1 DEF Drop, Hidden
  <2> QED  BY <1>3, <2>1, <2>2, <2>3, NobodyMoves DEF Drop, Client, ClientType
<1>4. CASE Age(e)
  BY <1>1, <1>4, NobodyMoves, NobodyTold DEF Age, Hidden, Client, ClientType, clientVars
<1> QED  BY <1>2, <1>3, <1>4 DEF EntryStep

\* A rewriting is prepared, and a session stops.
LEMMA FirstSteps ==
  ASSUME HandoffAssumption, MemoryAssumption, HandoffTypeOK, Client, Grows,
         NEW p \in Procs, (p \in Compacts /\ Compose(p)) \/ (p \in Hooks /\ Stop(p))
  PROVE  Client'
<1>1. \A c \in Compacts : proc[c].pc = "new" => late[c] = 0 /\ file[c] = "none"
  BY DEF Client, Unprepared
<1>2. CASE p \in Compacts /\ Compose(p)
  <2>1. proc' \in [Procs -> Process] /\ Unprepared' /\ AtWork'
    <3>1. Apt(p, At("read"))
      BY AtIsApt DEF Places
    <3> QED  BY <1>1, <1>2, <3>1, ProcMoves DEF Compose, Hidden, spoolVars
  <2>2. draft' \in [Compacts -> [version : Nat, content : Contents]]
    <3>1. ShownVersion \in Nat /\ ShownContent \in Contents /\ <<>> \in Contents
      BY DEF HandoffTypeOK, MemoryTypeOK, MemoryRow, ShownVersion, ShownContent, Contents
    <3> QED  BY <1>2, <3>1 DEF Compose, Client, ClientType
  <2> QED  BY <1>2, <2>1, <2>2, NobodyTold DEF Compose, Client, ClientType, spoolVars
<1>3. CASE p \in Hooks /\ Stop(p)
  <2>1. \E new : Apt(p, new) /\ Becomes(p, new)
    BY <1>3, Listing DEF Stop, Begin
  <2>2. proc' \in [Procs -> Process] /\ Unprepared' /\ AtWork'
    BY <1>1, <1>3, <2>1, ProcMoves DEF Stop, Begin, Hidden, spoolVars
  <2> QED  BY <1>3, <2>2, NobodyTold DEF Stop, Begin, Client, ClientType, spoolVars
<1> QED  BY <1>2, <1>3

\* What the clients know and were told stays true in every step.
LEMMA ClientStep ==
  ASSUME HandoffAssumption, MemoryAssumption, HandoffTypeOK, Client, Grows, KeyIsText, SectionsKnown, [Next]_vars
  PROVE  Client'
<1>1. ASSUME UNCHANGED <<spoolVars, clientVars, late, failures>>
      PROVE  Client'
  <2>1. Hidden
    BY <1>1 DEF Hidden, Client, Unprepared, spoolVars
  <2> QED  BY <1>1, <2>1, NobodyMoves, NobodyTold DEF Client, ClientType, spoolVars, clientVars
<1>2. CASE OthersStep \/ UNCHANGED vars
  <2>1. UNCHANGED <<spoolVars, clientVars, late, failures>>
    BY <1>2 DEF OthersStep, OthersAppend, OthersCreate, OthersReplace, OthersDelete, OthersPurgeAll, OthersPurge,
       RetentionPurges, MayWrite, Elsewhere, vars
  <2> QED  BY <1>1, <2>1
<1>3. Compacts \subseteq Procs /\ Hooks \subseteq Procs
  BY DEF Procs, Entries
<1> QED  BY <1>2, <1>3, FlushSteps, SendSteps, FailSteps, CallSteps, EntrySteps, FirstSteps DEF Next

-----------------------------------------------------------------------------
(* The memory as the clients count on it. *)

\* Keys and sections belong together.
LEMMA KeyIsTextStep ==
  ASSUME HandoffAssumption, MemoryAssumption, KeyIsText, Moves
  PROVE  KeyIsText'
<1>1. Other \notin Appends /\ NoText \notin Appends /\ \A c \in Compacts : c \notin Appends
  BY DEF HandoffAssumption, MemoryAssumption, Entries
<1>2. CASE ByOthers
  BY <1>1, <1>2 DEF ByOthers, Advance, KeyIsText
<1>3. ASSUME NEW a \in Appends, ByAppend(a) PROVE KeyIsText'
  BY <1>3 DEF ByAppend, Advance, KeyIsText
<1>4. ASSUME NEW c \in Compacts, ByRewriting(c) PROVE KeyIsText'
  BY <1>1, <1>4 DEF ByRewriting, Advance, KeyIsText
<1>5. CASE Same
  BY <1>5 DEF Same, KeyIsText
<1> QED  BY <1>2, <1>3, <1>4, <1>5 DEF Moves

\* The content of a rewriting is what the row says, and the new section.
LEMMA RewritingExtends ==
  ASSUME HandoffAssumption, HandoffTypeOK, DraftOfPast, NEW c \in Compacts, draft[c].version = memory.version
  PROVE  Extends(Rewriting(c), c)
<1>1. draft[c].content \in Contents /\ c \in Texts
  BY DEF HandoffTypeOK, HandoffAssumption, Entries
<1>2. draft[c].content = <<>> \/ draft[c].content = memory.content
  BY DEF DraftOfPast
<1>3. \A i \in DOMAIN Rewriting(c) :
        Rewriting(c)[i] = c \/ (i \in DOMAIN draft[c].content /\ Rewriting(c)[i] = draft[c].content[i])
  BY <1>1, OneMore DEF Rewriting
<1> QED  BY <1>2, <1>3 DEF Extends

\* A step leaves the row as it is, or makes a version with a section that the row says beside its old ones.
Extending(text) ==
  /\ text = NoText \/ text = Other \/ text \in Appends \/ text \in Compacts
  /\ \E v \in versions' : v.text = text
  /\ Extends(memory'.content, text)
  /\ \A b \in bodies' : b \in bodies \/ b.content = memory'.content

\* Whatever a step writes extends the row.
LEMMA MovesExtend ==
  ASSUME HandoffAssumption, HandoffTypeOK, DraftOfPast, Moves
  PROVE  /\ versions \subseteq versions'
         /\ Same \/ \E text : Extending(text)
<1>1. versions \subseteq versions'
  BY DEF Moves, Same, ByOthers, ByAppend, ByRewriting, Advance
<1>2. CASE ByOthers
  <2>1. PICK text \in {Other, NoText}, content \in Contents :
          Advance(NoKey, text, content) /\ Extends(content, text)
    BY <1>2 DEF ByOthers
  <2> QED  BY <1>1, <2>1 DEF Advance, Extending
<1>3. ASSUME NEW a \in Appends, ByAppend(a) PROVE \E text : Extending(text)
  <2>1. PICK content \in Contents : Advance(a, a, content) /\ Extends(content, a)
    BY <1>3 DEF ByAppend
  <2> QED  BY <2>1 DEF Advance, Extending
<1>4. ASSUME NEW c \in Compacts, ByRewriting(c) PROVE \E text : Extending(text)
  <2>1. Extends(Rewriting(c), c) /\ Advance(NoKey, c, Rewriting(c))
    BY <1>4, RewritingExtends DEF ByRewriting
  <2> QED  BY <2>1 DEF Advance, Extending
<1> QED  BY <1>1, <1>2, <1>3, <1>4 DEF Moves

\* What the row says was written.
LEMMA SectionsKnownStep ==
  ASSUME HandoffAssumption, HandoffTypeOK, DraftOfPast, SectionsKnown, Moves
  PROVE  SectionsKnown'
<1>1. versions \subseteq versions' /\ (Same \/ \E text : Extending(text))
  BY MovesExtend
<1>2. CASE Same
  BY <1>2 DEF Same, SectionsKnown
<1>3. ASSUME NEW text, Extending(text) PROVE SectionsKnown'
  BY <1>1, <1>3 DEF Extending, Extends, SectionsKnown
<1> QED  BY <1>1, <1>2, <1>3

\* Rewritings stay behind the row.
LEMMA DraftOfPastStep ==
  ASSUME HandoffAssumption, HandoffTypeOK, DraftOfPast, Moves, [Next]_vars
  PROVE  DraftOfPast'
<1>1. memory.version \in Nat /\ \A c \in Compacts : draft[c].version \in Nat
  BY DEF HandoffTypeOK, MemoryTypeOK, MemoryRow
<1>2. CASE draft' = draft
  <2>1. UNCHANGED memory \/ memory'.version = memory.version + 1
    BY DEF Moves, Same, ByOthers, ByAppend, ByRewriting, Advance
  <2> QED  BY <1>1, <1>2, <2>1 DEF DraftOfPast
<1>3. ASSUME NEW c \in Compacts, Compose(c) PROVE DraftOfPast'
  <2>1. UNCHANGED memory /\ draft \in [Compacts -> [version : Nat, content : Contents]]
    BY <1>3 DEF Compose, memoryVars, HandoffTypeOK
  <2>2. PICK kept \in {<<>>, ShownContent} :
          draft' = [draft EXCEPT ![c] = [version |-> ShownVersion, content |-> kept]]
    BY <1>3 DEF Compose
  <2>3. ShownVersion <= memory.version /\ (ShownContent = <<>> \/ ShownContent = memory.content)
    BY <1>1 DEF ShownVersion, ShownContent
  <2> QED  BY <2>1, <2>2, <2>3 DEF DraftOfPast
<1> QED  BY <1>2, <1>3, DraftMoves

\* An accepted rewriting followed what it was made from.
LEMMA DraftAppliedStep ==
  ASSUME HandoffAssumption, MemoryAssumption, HandoffTypeOK, Unprepared, DraftApplied, Moves, [Next]_vars
  PROVE  DraftApplied'
<1>1. \A a \in Appends : a \notin Compacts
  BY DEF HandoffAssumption
<1>2. Other \notin Compacts /\ NoText \notin Compacts
  BY DEF HandoffAssumption, MemoryAssumption, Entries
<1>3. CASE draft' = draft
  <2>1. CASE Same
    BY <1>3, <2>1 DEF Same, DraftApplied
  <2>2. CASE ByOthers
    BY <1>2, <1>3, <2>2 DEF ByOthers, Advance, DraftApplied
  <2>3. ASSUME NEW a \in Appends, ByAppend(a) PROVE DraftApplied'
    BY <1>1, <1>3, <2>3 DEF ByAppend, Advance, DraftApplied
  <2>4. ASSUME NEW c \in Compacts, ByRewriting(c) PROVE DraftApplied'
    BY <1>3, <2>4 DEF ByRewriting, Advance, DraftApplied
  <2> QED  BY <2>1, <2>2, <2>3, <2>4 DEF Moves
<1>4. ASSUME NEW c \in Compacts, Compose(c) PROVE DraftApplied'
  <2>1. UNCHANGED versions /\ ~Stored(c) /\ \A d \in Compacts : d # c => draft'[d] = draft[d]
    BY <1>4 DEF Compose, memoryVars, Unprepared, HandoffTypeOK
  <2> QED  BY <2>1 DEF Stored, DraftApplied
<1> QED  BY <1>3, <1>4, DraftMoves

-----------------------------------------------------------------------------
(* The theorems. *)

\* The parts of the invariant together.
LEMMA Parts == IInv <=> HandoffTypeOK /\ MemoryInv /\ KeyIsText /\ SectionsKnown /\ DraftOfPast /\ DraftApplied /\ Client
BY DEF IInv, HandoffTypeOK, Client, ClientType

\* Nothing has been written, and nobody has begun.
LEMMA HandoffStart ==
  ASSUME HandoffAssumption, MemoryAssumption, Init
  PROVE  IInv
<1>1. MemoryInv
  BY MemoryStart DEF Init
<1>2. ClientType
  <2>1. <<>> \in Contents
    BY DEF Contents
  <2>2. \A pc \in Places : At(pc) \in Process
    BY DEF At, Process
  <2> QED  BY <2>1, <2>2 DEF Init, ClientType, Answers, Places
<1>3. HandoffTypeOK
  BY <1>1, <1>2 DEF MemoryInv, HandoffTypeOK, ClientType
<1>4. Unprepared /\ AtWork
  <2>1. \A p \in Procs : \E pc \in {"new", "read", "off"} : proc[p] = At(pc)
    BY DEF Init
  <2> QED  BY <2>1 DEF Init, MemoryInit, At, Unprepared, AtWork, Stored, Entries, HandoffAssumption, MemoryAssumption
<1>5. NothingLost /\ KeyIsText /\ SectionsKnown /\ DraftOfPast /\ DraftApplied
  BY DEF Init, MemoryInit, NothingLost, KeyIsText, SectionsKnown, DraftOfPast, DraftApplied
<1> QED  BY <1>1, <1>3, <1>4, <1>5 DEF IInv

\* Every step keeps the invariant.
LEMMA HandoffStep ==
  ASSUME HandoffAssumption, MemoryAssumption, IInv, [Next]_vars
  PROVE  IInv'
<1>1. HandoffTypeOK /\ MemoryInv /\ KeyIsText /\ SectionsKnown /\ DraftOfPast /\ DraftApplied /\ Client
      /\ Unprepared /\ AtWork
  BY Parts DEF Client
<1>2. Moves
  BY <1>1, StepMoves
<1>3. Grows
  BY <1>1, <1>2, StoredGrows DEF Grows
<1>4. Client'
  BY <1>1, <1>3, ClientStep
<1>5. MemoryInv'
  BY <1>1, HandoffIsMemory, MemoryStep DEF memoryVars
<1>6. KeyIsText' /\ SectionsKnown' /\ DraftOfPast' /\ DraftApplied'
  BY <1>1, <1>2, KeyIsTextStep, SectionsKnownStep, DraftOfPastStep, DraftAppliedStep
<1>7. HandoffTypeOK'
  BY <1>4, <1>5 DEF Client, ClientType, MemoryInv, HandoffTypeOK
<1> QED  BY <1>4, <1>5, <1>6, <1>7 DEF IInv, Client

\* One version has an entry's section.
LEMMA OnceNow == HandoffAssumption /\ MemoryAssumption /\ IInv => WrittenOnce
<1> SUFFICES ASSUME HandoffAssumption, MemoryAssumption, IInv,
                    NEW v \in versions, NEW w \in versions, v.text = w.text, v.text \in Entries
             PROVE  v = w
  BY DEF WrittenOnce
<1>1. CASE v.text \in Appends
  BY <1>1 DEF IInv, KeyIsText, MemoryInv, KeyOnce, HandoffAssumption, MemoryAssumption
<1>2. CASE v.text \in Compacts
  BY <1>2 DEF IInv, DraftApplied, MemoryInv, Numbered
<1> QED  BY <1>1, <1>2 DEF Entries

\* No step brings back what was taken away.
LEMMA GoneStaysGone ==
  ASSUME HandoffAssumption, MemoryAssumption, IInv, [Next]_vars,
         NEW e \in Entries, Stored(e), ~Readable(e)
  PROVE  ~Readable(e)'
<1>1. HandoffTypeOK /\ MemoryInv /\ KeyIsText /\ DraftOfPast /\ DraftApplied /\ AtWork /\ Unprepared
  BY DEF IInv
<1>2. Moves
  BY <1>1, StepMoves
<1>3. \A i \in DOMAIN memory.content : memory.content[i] # e
  <2>1. memory.content = <<>> \/ \E b \in bodies : b.content = memory.content
    BY <1>1 DEF MemoryInv, RowIsBody, HasBody
  <2> QED  BY <2>1 DEF Readable
<1>4. ASSUME NEW content, NEW text, text # e, Extends(content, text), NEW i \in DOMAIN content
      PROVE  content[i] # e
  BY <1>3, <1>4 DEF Extends
<1>5. PICK v \in versions : v.text = e
  BY DEF Stored
<1>6. ASSUME NEW content, NEW text, text # e, Extends(content, text),
             \A b \in bodies' : b \in bodies \/ b.content = content
      PROVE  ~Readable(e)'
  BY <1>4, <1>6 DEF Readable
<1>7. CASE ByOthers
  <2>1. Other # e /\ NoText # e
    BY DEF HandoffAssumption, MemoryAssumption, Entries
  <2> QED  BY <1>6, <1>7, <2>1 DEF ByOthers, Advance
<1>8. ASSUME NEW a \in Appends, ByAppend(a) PROVE ~Readable(e)'
  <2>1. a # e
    BY <1>1, <1>5, <1>8 DEF ByAppend, Written, KeyIsText, HandoffAssumption, MemoryAssumption
  <2> QED  BY <1>6, <1>8, <2>1 DEF ByAppend, Advance
<1>9. ASSUME NEW c \in Compacts, ByRewriting(c) PROVE ~Readable(e)'
  <2>1. memory.version \in Nat /\ v.version <= memory.version
    BY <1>1 DEF HandoffTypeOK, MemoryTypeOK, MemoryRow, MemoryInv, Numbered
  <2>2. c # e
    BY <1>1, <1>5, <1>9, <2>1 DEF ByRewriting, DraftApplied
  <2> QED  BY <1>1, <1>6, <1>9, <2>2, RewritingExtends DEF ByRewriting, Advance
<1>10. CASE Same
  BY <1>10 DEF Same, Readable
<1> QED  BY <1>2, <1>7, <1>8, <1>9, <1>10 DEF Moves

(***************************************************************************)
(* However many processes send the same files, whatever is lost, repeated, *)
(* late or left behind: the invariant, and with it what is needed to see   *)
(* that a process that says "stored" is right.                             *)
(***************************************************************************)
THEOREM HandoffInvariant == Spec => []IInv
<1>1. Init => IInv
  BY HandoffStart, HandoffAssumption, MemoryAssumption
<1>2. IInv /\ [Next]_vars => IInv'
  BY HandoffStep, HandoffAssumption, MemoryAssumption
<1> QED  BY <1>1, <1>2, PTL DEF Spec

\* The clients, with their files, retries and late requests, do nothing to the
\* memory that the transactions of module Memory do not allow.
THEOREM HandoffImplementsMemory == Spec => MemorySpec
<1>1. Init => MemoryInit
  BY DEF Init
<1>2. IInv /\ [Next]_vars => [MemoryNext]_memoryVars
  BY HandoffIsMemory, HandoffAssumption DEF IInv
<1> QED  BY <1>1, <1>2, HandoffInvariant, PTL DEF Spec, MemorySpec

\* A section is never lost: one that was called stored is in a version, one that was put aside has its file or is.
THEOREM HandoffNothingLost == Spec => []NothingLost
<1>1. IInv => NothingLost
  BY DEF IInv
<1> QED  BY <1>1, HandoffInvariant, PTL

\* A section is in one version, however often it was sent.
THEOREM HandoffWrittenOnce == Spec => []WrittenOnce
<1>1. IInv => WrittenOnce
  BY OnceNow, HandoffAssumption, MemoryAssumption
<1> QED  BY <1>1, HandoffInvariant, PTL

\* The records account for every version without a body, whatever the clients do.
THEOREM HandoffAccounted == Spec => []Accounted
<1>1. IInv => Accounted
  BY DEF IInv, MemoryInv
<1> QED  BY <1>1, HandoffInvariant, PTL

\* What was taken away is not brought back by what clients still hold.
THEOREM HandoffPurgedStaysGone == Spec => PurgedStaysGone
<1>1. IInv /\ [Next]_vars => [\A e \in Entries : Stored(e) /\ ~Readable(e) => ~Readable(e)']_vars
  BY GoneStaysGone, HandoffAssumption, MemoryAssumption
<1> QED  BY <1>1, HandoffInvariant, PTL DEF Spec, PurgedStaysGone

\* Lost replies, late requests and files sent twice do not show: the readers of the memory see a history (MemoryHistory).
THEOREM HandoffImplementsHistory == Spec => ImplementsHistory
BY HandoffImplementsMemory, MemoryImplementsHistory
=============================================================================
