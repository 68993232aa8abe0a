------------------------------ MODULE Handoff ------------------------------
(***************************************************************************)
(* Writing the handoff of a project (a row of module Memory) from a client *)
(* whose server may be out of reach.  What cannot be sent is put aside in  *)
(* a file, and every later process (a hook, or the command line before it  *)
(* writes) first sends the files that wait.  A process claims a file by    *)
(* renaming it; a file that stays claimed for ten minutes is taken back.   *)
(*                                                                         *)
(* An entry is one call of "looptrack handoff append" or "compact": a      *)
(* section with its idempotency key, or the whole content, rewritten by    *)
(* someone who has read a version.  The process that makes the call has    *)
(* the name of its entry.  Other clients write, delete and purge too.      *)
(***************************************************************************)
EXTENDS Memory

CONSTANTS
  Appends, Compacts,  \* the entries
  Hooks,              \* the Stop hooks of the sessions
  Other,              \* what other clients write
  MaxVersion,         \* bound: the others write while the memory's version is below it
  MaxFailures         \* bound: how often a connection or a process fails

Entries == Appends \cup Compacts
Procs   == Entries \cup Hooks

ASSUME HandoffAssumption ==
  /\ Appends \cap Compacts = {} /\ Entries \cap Hooks = {} /\ Other \notin Entries
  /\ Texts = Entries \cup {Other} /\ Keys = Appends
  /\ MaxVersion \in Nat /\ MaxFailures \in Nat

VARIABLES
  file,      \* where an entry's file is: none, waiting, or sending (claimed)
  stale,     \* the entries whose file was written or claimed more than ten minutes ago
  older,     \* the entries whose files have older names than an entry's file
  draft,     \* the version and the content a rewriting was made from
  told,      \* what the caller was told: nothing, stored, spooled, failed; or that it dropped it
  proc,      \* what a process does: its place, the files it has yet to look at, the entry at hand,
             \* whether that is its own and not one from a file, and whether the server was out of reach
  late,      \* requests under way that nobody waits for
  failures

spoolVars  == <<file, stale, older>>
clientVars == <<draft, told, proc>>
vars == <<memoryVars, spoolVars, clientVars, late, failures>>

Places == {"new", "read", "off", "scan", "recover", "flush", "touch", "get", "wait",
           "ok", "refused", "spool"}
Process == [pc : Places, todo : SUBSET Entries, entry : Entries \cup {NoText}, own : BOOLEAN, down : BOOLEAN]
Answers == {"nothing", "stored", "spooled", "failed", "dropped"}

HandoffTypeOK ==
  /\ MemoryTypeOK
  /\ file \in [Entries -> {"none", "waiting", "sending"}]
  /\ stale \subseteq Entries /\ older \in [Entries -> SUBSET Entries]
  /\ draft \in [Compacts -> [version : Nat, content : Contents]]
  /\ told \in [Entries -> Answers]
  /\ proc \in [Procs -> Process]
  /\ late \in [Entries -> Nat] /\ failures \in Nat

Becomes(p, new) == proc' = [proc EXCEPT ![p] = new]
At(pc) == [pc |-> pc, todo |-> {}, entry |-> NoText, own |-> FALSE, down |-> FALSE]

Init ==
  /\ MemoryInit
  /\ file = [e \in Entries |-> "none"] /\ stale = {} /\ older = [e \in Entries |-> {}]
  /\ draft = [c \in Compacts |-> [version |-> 0, content |-> <<>>]]
  /\ told = [e \in Entries |-> "nothing"]
  /\ proc = [p \in Procs |-> At(IF p \in Compacts THEN "new" ELSE IF p \in Appends THEN "read" ELSE "off")]
  /\ late = [e \in Entries |-> 0] /\ failures = 0

-----------------------------------------------------------------------------
(* Reading: GetMemory shows no version of a memory that is marked deleted. *)

ShownVersion == IF Exists THEN memory.version ELSE 0
ShownContent == IF Exists THEN memory.content ELSE <<>>

\* Someone reads the handoff and prepares its rewriting, with or without what it said.
Compose(c) ==
  /\ proc[c].pc = "new"
  /\ \E kept \in {<<>>, ShownContent} :
       draft' = [draft EXCEPT ![c] = [version |-> ShownVersion, content |-> kept]]
  /\ Becomes(c, At("read"))
  /\ UNCHANGED <<memoryVars, spoolVars, told, late, failures>>

-----------------------------------------------------------------------------
(* flushHandoffSpool: first the files that dead processes left claimed.    *)

FilesThatAre(where) == {e \in Entries : file[e] = where}

Begin(p, at) ==
  /\ proc[p].pc = at
  /\ Becomes(p, [At("scan") EXCEPT !.todo = FilesThatAre("sending")])
  /\ UNCHANGED <<memoryVars, spoolVars, draft, told, late, failures>>

\* handoffServerAppend and handoffServerCompact flush before they send what they were called with.
Call(e) == Begin(e, "read")

\* flushServerSpoolOnStop
Stop(h) == (\E e \in Entries : file[e] # "none") /\ Begin(h, "off")

Oldest(e, files) == e \in files /\ older[e] \cap files = {}
Going(p, pc)    == Becomes(p, [proc[p] EXCEPT !.pc = pc])
Takes(p, e, pc) == Becomes(p, [proc[p] EXCEPT !.pc = pc, !.entry = e, !.todo = @ \ {e}])
Passes(p, e)    == Becomes(p, [proc[p] EXCEPT !.todo = @ \ {e}])
NextFile(p, pc) == Becomes(p, [proc[p] EXCEPT !.pc = pc, !.entry = NoText])

\* Faulty variant: the comparison the wrong way round.
JustClaimed(e) == file[e] = "sending" /\ e \notin stale

LeftBehind(e) == file[e] = "sending" /\ e \in stale

\* recoverSending looks at a file's time ...
Stat(p) ==
  /\ proc[p].pc = "scan"
  /\ \E e \in proc[p].todo :
       /\ Oldest(e, proc[p].todo)
       /\ IF LeftBehind(e) THEN Takes(p, e, "recover") ELSE Passes(p, e)
  /\ UNCHANGED <<memoryVars, spoolVars, draft, told, late, failures>>

\* A claimed file waits again, whoever claimed it; the rename of one that is not there fails.
BackToWaiting(e) == file' = [file EXCEPT ![e] = IF @ = "sending" THEN "waiting" ELSE @]

\* ... and renames it, although another process may have renamed and claimed it meanwhile.
Recover(p) ==
  /\ proc[p].pc = "recover"
  /\ BackToWaiting(proc[p].entry)
  /\ NextFile(p, "scan")
  /\ UNCHANGED <<memoryVars, stale, older, draft, told, late, failures>>

List(p) ==
  /\ proc[p].pc = "scan" /\ proc[p].todo = {}
  /\ Becomes(p, [proc[p] EXCEPT !.pc = "flush", !.todo = FilesThatAre("waiting")])
  /\ UNCHANGED <<memoryVars, spoolVars, draft, told, late, failures>>

\* The rename that claims a file fails when another process has renamed it.
Claim(p) ==
  /\ proc[p].pc = "flush"
  /\ \E e \in proc[p].todo :
       /\ Oldest(e, proc[p].todo)
       /\ IF file[e] = "waiting"
          THEN file' = [file EXCEPT ![e] = "sending"] /\ Takes(p, e, "touch")
          ELSE UNCHANGED file /\ Passes(p, e)
  /\ UNCHANGED <<memoryVars, stale, older, draft, told, late, failures>>

\* The file gets the time of the claim; until then its old time makes it look left behind.
Touch(p) ==
  LET e == proc[p].entry IN
  /\ proc[p].pc = "touch"
  /\ IF file[e] = "sending"
     THEN /\ stale' = stale \ {e}
          /\ Going(p, IF e \in Compacts THEN "get" ELSE "wait")
     ELSE UNCHANGED stale /\ NextFile(p, "flush")
  /\ UNCHANGED <<memoryVars, file, older, draft, told, late, failures>>

\* Time runs out between two files.
OutOfTime(p) ==
  /\ proc[p].pc = "flush" /\ proc[p].todo # {}
  /\ Becomes(p, [proc[p] EXCEPT !.todo = {}])
  /\ UNCHANGED <<memoryVars, spoolVars, draft, told, late, failures>>

\* After the flush the command line sends its own entry, unless the server was out of reach.
Flushed(p) ==
  /\ proc[p].pc = "flush" /\ proc[p].todo = {}
  /\ Becomes(p, IF p \in Hooks THEN At("off")
                ELSE IF proc[p].down THEN At("spool")
                ELSE [At("wait") EXCEPT !.entry = p, !.own = TRUE])
  /\ UNCHANGED <<memoryVars, spoolVars, draft, told, late, failures>>

-----------------------------------------------------------------------------
(* sendSpool, AppendHandoff and ReplaceHandoff at the server.              *)

\* Faulty variant: an entry that is put aside gets a new key.
NewKey(e) == NoKey

\* The key is made with the entry and goes with it wherever it is sent from.
KeyOf(e) == e

Rewriting(c) == Append(draft[c].content, c)

Accept(e) ==
  IF e \in Appends THEN AppendMemory(KeyOf(e), e)
  ELSE ReplaceMemory(draft[e].version, draft[e].content, e)

Repeated(e) == e \in Appends /\ AppendedBefore(KeyOf(e))

Refusal(e) ==
  /\ ~Repeated(e)
  /\ IF e \in Appends THEN ~Fits(Joined(e))
     ELSE memory.version # draft[e].version \/ ~Fits(Rewriting(e))

\* A rewriting that waits is sent only if it is still due: it was not applied, and nothing was added.
HandleGet(p) ==
  LET c == proc[p].entry IN
  /\ proc[p].pc = "get"
  /\ Going(p, IF ShownContent = Rewriting(c) THEN "ok"
              ELSE IF ShownVersion # draft[c].version THEN "refused" ELSE "wait")
  /\ UNCHANGED <<memoryVars, spoolVars, draft, told, late, failures>>

HandleWrite(p) ==
  LET e == proc[p].entry IN
  /\ proc[p].pc = "wait"
  /\ \/ Accept(e) /\ Going(p, "ok")
     \/ Repeated(e) /\ UNCHANGED memoryVars /\ Going(p, "ok")
     \/ Refusal(e) /\ UNCHANGED memoryVars /\ Going(p, "refused")
  /\ UNCHANGED <<spoolVars, draft, told, late, failures>>

\* A request that nobody waits for takes effect, or is a repetition, or is refused.
HandleLate(e) ==
  /\ late[e] > 0
  /\ late' = [late EXCEPT ![e] = @ - 1]
  /\ Accept(e) \/ ((Repeated(e) \/ Refusal(e)) /\ UNCHANGED memoryVars)
  /\ UNCHANGED <<spoolVars, clientVars, failures>>

-----------------------------------------------------------------------------
(* What the process does with the answer. *)

Removed(e, where) ==
  IF file[e] = where
  THEN file' = [file EXCEPT ![e] = "none"] /\ stale' = stale \ {e}
  ELSE UNCHANGED <<file, stale>>

\* The file that was sent is removed, if it is still under the name it was claimed with.
Sent(p) ==
  /\ proc[p].pc = "ok" /\ ~proc[p].own
  /\ Removed(proc[p].entry, "sending")
  /\ NextFile(p, "flush")
  /\ UNCHANGED <<memoryVars, older, draft, told, late, failures>>

\* Faulty variant: what the server refuses is thrown away.
ThrownAway(e) == Removed(e, "sending")

Kept(e) == BackToWaiting(e) /\ UNCHANGED stale

Keep(p) ==
  /\ proc[p].pc = "refused" /\ ~proc[p].own
  /\ Kept(proc[p].entry)
  /\ NextFile(p, "flush")
  /\ UNCHANGED <<memoryVars, older, draft, told, late, failures>>

Tell(e, answer) ==
  /\ told' = [told EXCEPT ![e] = answer]
  /\ Going(e, "off")

Answer(e) ==
  /\ proc[e].own
  /\ \/ proc[e].pc = "ok" /\ Tell(e, "stored")
     \/ proc[e].pc = "refused" /\ Tell(e, "failed")
  /\ UNCHANGED <<memoryVars, spoolVars, draft, late, failures>>

\* The request may be lost on its way or still arrive.
Abandoned(p) ==
  \/ UNCHANGED late
  \/ proc[p].pc = "wait" /\ late' = [late EXCEPT ![proc[p].entry] = @ + 1]

Requesting(p) == proc[p].pc \in {"get", "wait", "ok", "refused"}

(***************************************************************************)
(* No answer arrives: the server is out of reach (down), or the flush's    *)
(* time is over.  The file waits again and the flush ends; an entry of the *)
(* process's own is put aside.                                             *)
(***************************************************************************)
NoAnswer(p) ==
  /\ Requesting(p) /\ failures < MaxFailures
  /\ failures' = failures + 1
  /\ Abandoned(p)
  /\ IF proc[p].own
     THEN Becomes(p, At("spool")) /\ UNCHANGED file
     ELSE /\ BackToWaiting(proc[p].entry)
          /\ \E down \in BOOLEAN : Becomes(p, [At("flush") EXCEPT !.down = down])
  /\ UNCHANGED <<memoryVars, stale, older, draft, told>>

\* handoffSpoolEntry: a file with a name of its own, complete before it is seen.
Spool(e) ==
  /\ proc[e].pc = "spool"
  /\ file' = [file EXCEPT ![e] = "waiting"]
  /\ older' = [older EXCEPT ![e] = {f \in Entries : file[f] # "none"}]
  /\ Tell(e, "spooled")
  /\ UNCHANGED <<memoryVars, stale, draft, late, failures>>

SpoolFails(e) ==
  /\ proc[e].pc = "spool"
  /\ Tell(e, "failed")
  /\ UNCHANGED <<memoryVars, spoolVars, draft, late, failures>>

\* A process dies wherever it is; what it claimed stays claimed.
Crash(p) ==
  /\ proc[p].pc \notin {"new", "read", "off"} /\ failures < MaxFailures
  /\ failures' = failures + 1
  /\ Abandoned(p)
  /\ Becomes(p, At("off"))
  /\ UNCHANGED <<memoryVars, spoolVars, draft, told>>

\* looptrack handoff spool --drop
Drop(e) ==
  /\ file[e] = "waiting"
  /\ Removed(e, "waiting")
  /\ told' = [told EXCEPT ![e] = "dropped"]
  /\ UNCHANGED <<memoryVars, older, draft, proc, late, failures>>

\* Ten minutes pass.
Age(e) ==
  /\ file[e] # "none" /\ e \notin stale
  /\ stale' = stale \cup {e}
  /\ UNCHANGED <<memoryVars, file, older, clientVars, late, failures>>

-----------------------------------------------------------------------------
(* The other clients, the operator and the retention job. *)

Elsewhere == UNCHANGED <<spoolVars, clientVars, late, failures>>
MayWrite  == memory.version < MaxVersion /\ Elsewhere

\* (an append to a memory that is marked deleted does what creating it does)
OthersAppend  == Exists /\ AppendMemory(NoKey, Other) /\ MayWrite
OthersCreate  == CreateMemory(Other) /\ MayWrite
OthersReplace == ReplaceMemory(memory.version, <<>>, Other) /\ MayWrite
OthersDelete  == DeleteMemory /\ MayWrite
OthersPurge(n)     == PurgeMemoryVersion(n) /\ Elsewhere
OthersPurgeAll     == PurgeAllVersions /\ Elsewhere
RetentionPurges(n) == PurgeExpiredMemories(n) /\ Elsewhere

FlushStep(p)  == Stat(p) \/ Recover(p) \/ List(p) \/ Claim(p) \/ Touch(p) \/ Flushed(p)
SendStep(p)   == HandleGet(p) \/ HandleWrite(p) \/ Sent(p) \/ Keep(p)
ProcFails(p)  == OutOfTime(p) \/ NoAnswer(p) \/ Crash(p)
CallStep(e)   == Call(e) \/ Answer(e) \/ Spool(e) \/ SpoolFails(e)
EntryStep(e)  == HandleLate(e) \/ Drop(e) \/ Age(e)
OthersStep ==
  \/ OthersAppend \/ OthersCreate \/ OthersReplace \/ OthersDelete \/ OthersPurgeAll
  \/ \E n \in 1..memory.version : OthersPurge(n) \/ RetentionPurges(n)

Next ==
  \/ \E p \in Procs : FlushStep(p) \/ SendStep(p) \/ ProcFails(p)
  \/ \E e \in Entries : CallStep(e) \/ EntryStep(e)
  \/ \E c \in Compacts : Compose(c)
  \/ \E h \in Hooks : Stop(h)
  \/ OthersStep

Spec == Init /\ [][Next]_vars

-----------------------------------------------------------------------------
(* What whoever writes a handoff counts on. *)

Stored(e) == \E v \in versions : v.text = e
Readable(e) == \E b \in bodies : \E i \in DOMAIN b.content : b.content[i] = e

\* Whoever was told that the entry is written finds a version with it, and
\* one that was put aside is in a version or still waits to be sent.
NothingLost ==
  \A e \in Entries :
    /\ told[e] = "stored" => Stored(e)
    /\ told[e] = "spooled" => file[e] # "none" \/ Stored(e)

(***************************************************************************)
(* However often an entry is sent (after a lost reply, from its file, by   *)
(* two processes that both hold the file, by a request that was given up), *)
(* one version has it: the key of an append and the version of a rewriting *)
(* see to that (the head comment of memoryspool.go).                       *)
(***************************************************************************)
WrittenOnce ==
  \A v, w \in versions : v.text = w.text /\ v.text \in Entries => v = w

(***************************************************************************)
(* What was taken away does not come back through what clients still hold: *)
(* an append sent again after its body was purged, or a rewriting prepared *)
(* before the purge (applyMemoryPurge advances the version for that).      *)
(***************************************************************************)
PurgedStaysGone ==
  [][\A e \in Entries : Stored(e) /\ ~Readable(e) => ~Readable(e)']_vars

-----------------------------------------------------------------------------
(* Why: the parts of the inductive invariant of HandoffProofs. *)

\* A key and the section of an append are in the same version.
KeyIsText == \A v \in versions : v.key # NoKey \/ v.text \in Appends => v.key = v.text

\* What is in the row was written in some version.
SectionsKnown == \A i \in DOMAIN memory.content : \E v \in versions : v.text = memory.content[i]

\* A rewriting is of a past version or of the current one, and then of what the current one says.
DraftOfPast ==
  \A c \in Compacts :
    /\ draft[c].version <= memory.version
    /\ draft[c].version = memory.version /\ draft[c].content # <<>> => draft[c].content = memory.content

\* A rewriting that was accepted made the version after the one it was made from.
DraftApplied == \A v \in versions : v.text \in Compacts => v.version = draft[v.text].version + 1

\* A rewriting nobody has prepared yet is nowhere.
Unprepared ==
  \A c \in Compacts : proc[c].pc = "new" =>
    /\ ~Stored(c) /\ late[c] = 0 /\ file[c] = "none"
    /\ \A p \in Procs : c \notin proc[p].todo /\ proc[p].entry # c

\* A process at work has a file or its own entry at hand, and "ok" is only said of what is stored.
AtWork ==
  \A p \in Procs :
    /\ proc[p].pc \in {"recover", "touch", "get", "wait", "ok", "refused"} => proc[p].entry \in Entries
    /\ proc[p].own => proc[p].entry = p /\ proc[p].pc \in {"wait", "ok", "refused", "off"}
    /\ proc[p].pc = "ok" => Stored(proc[p].entry)
    /\ proc[p].pc = "get" => proc[p].entry \in Compacts

IInv ==
  /\ HandoffTypeOK /\ MemoryInv /\ NothingLost
  /\ KeyIsText /\ SectionsKnown /\ DraftOfPast /\ DraftApplied /\ Unprepared /\ AtWork
=============================================================================
