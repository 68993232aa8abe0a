# Looptrack: TLA+ models and proofs

Looptrack is an issue tracker for AI coding agents. A server offers REST, MCP and Web over
one set of services; the clients are a command line, the hooks of the agents (Claude Code, Codex,
Copilot) and a desktop application. What several agents, servers, hooks and administrators do at
once is decided by a few hundred lines of that code: row locks, versions, keys, marks in a
directory, and the order in which things are read. This directory models those lines, checks the
models with TLC on small instances, and proves their safety with TLAPS for every value of the
parameters.

    tlc -workers 2 -config Lease.cfg MCLeaseLive.tla # a run; PROJECT.json lists them all
    tlapm LeaseProofs.tla                            # the proofs of a component

`PROJECT.json` maps every definition to the lines that it models, and lists the runs, for each
property a change of the code that would break it ("mutants"), the hazards and the theorems.

Contents: [the system](#the-system), [what the models assume](#what-the-models-assume-of-the-world),
one section for each component modelled ([body store](#the-body-store), [leases](#leases),
[transcripts](#transcripts), [issues](#issues-next-and-assignees),
[memory and the handoff spool](#memory-and-the-handoff-spool),
[OAuth tokens](#oauth-tokens-and-the-credentials-file), [desktop](#the-desktop-application)), [the runs](#the-runs),
[what the code does not keep](#where-code-and-documents-disagree), [what is proved](#what-is-proved),
[what is not modelled](#what-is-not-modelled), [the plan](#the-plan).

## The system

`internal/server` decodes requests of REST, MCP and Web, authenticates and authorises them and calls
`internal/service`, where every change is a transaction (`Service.inTx`) on MySQL or SQLite
(`internal/store`). `internal/domain` are rules without state. Several server processes can share
the database and the directories of bodies; the subcommands of `looptrack` (repair, purge, settings)
run beside them. Clients share the user's files: credentials, spools, the state of pushes, the
transcripts that the agents write. There is no queue and no broker: components meet in rows,
files and requests.

| Component (source) | State | Operations | Interacts with | What is hard | What makes it correct |
|---|---|---|---|---|---|
| Body store (`service/blobstore.go`, `repair.go`) | files by sha256, `.tmp` with marks and set-aside bodies | place, remove guarded by two counts and marks, restore, recover | attachments and transcripts record rows over bodies; processes share only the directory | interleaving of processes, crash at every file operation, ages of files, lost commit replies | content that a row points at is never deleted, and returns to its path; purged content goes |
| Attachments (`service/attachments.go`) | rows, purge records, quota | add, purge, list | body store, issues | quota under a lock; a purge covers ids up to a bound | quota kept; a purge covers what it saw and nothing later |
| Transcripts, server (`service/transcripts.go`) | transcripts, chunks, purges | register, append (If-Match, offset), purge by owner, operator, retention | body store, push, pull | a purge between the reads and the commit of an append; late appends | a pull can always put the session together; quota; nothing purged stays readable |
| Transcript push and pull (`client/cli/transcript_*.go`) | agents' files, state file | plan, send chunks, resynchronise, pull | server, hooks | several pushes at once, killed at any time, replies lost | every line arrives once |
| Transcript conversion and commands (`client/transcript`, `client/cli/transcript.go`) | none | mask and restore lines, list, show, purge | push, pull | (pure functions) | not modelled |
| Leases (`service/lease.go`) | one row for a resource: key, session, expiry | acquire, extend, release, break | clients by requests that are late or lost | time, retries, optional keys | two clients never both count on a lease |
| Issues and `next` (`service/service.go`, `next.go`) | issues with version, status, starter | next, status, update, comment, create | assignees, members, rules | next reads without a transaction and decides later | no two AIs on one issue; no edit lost; nothing hidden for ever |
| Assignees, members (`assignee.go`, `membership.go`, `project_archive.go`) | assignee of an issue, roles, archived project | assign, hand over when a member leaves, archive | issues | members change while calls are between check and commit | assignees can work |
| Memory (`service/memory.go`, `memory_purge.go`) | text with versions, bodies, purge records | append with key, replace by version, delete, thin, purge, retention | handoff spool, hooks | retries, purges mixed with writes | an append lands once; purged text stays gone; bodyless versions have a record |
| Handoff spool (`client/hook/loop/memoryspool.go`) | files waiting to be sent | spool, claim by rename, send, recover | memory | processes that die or are slow while sending | nothing lost, nothing sent twice |
| Messages (`service/messages.go`, `hook/loop/messages.go`) | messages, reads of a session | send with comment, inbox, mark as read | issues, leases, hooks | two transactions; a hook that dies | a message is shown at least once |
| OAuth and credentials (`server/oauth.go`, `client/api/refresh.go`, `client/cred`) | token families; credentials file | rotate, revoke the family on reuse, refresh under a file lock | every client | several processes refresh at once, lost replies | no family is revoked without a reuse |
| Sessions (`event_sessions.go`, `presence.go`, `session_binds.go`) | links from MCP connections to conversations, presence, binds in memory | bind, link, report | next compares sessions | bounded table, expiry | losing one only makes sessions incomparable |
| Verification (`service/verify.go`, `client/verify`) | records of runs of an issue's commands | plan, run, record | closing rules | the text changes between plan and record | a record counts for the text it was made from |
| Desktop (`client/desktop`) | lock, state file, application files | single instance, quit, replace, undo, take over | updates, local server | stale state files, renames that fail or stop half-way, a successor that waits for the lock | the instance can be found; an update is whole or undone; somebody serves again unless the new version cannot boot |
| Accounts, login, two factors (`server/login.go`, `two_factor.go`) | users, sessions, attempts | log in, enrol, require | all | attempts counted at once | a code is used once |
| Store (`store/migrate.go`, `sqlite.go`) | schema, settings | migrate under a lock | all | two processes migrate | each migration once |
| Usage, reports, transfer, kit, setup, hooks that parse commands, worktrees, i18n | files and rows | parse, aggregate, print, copy | | formats | out of scope, see below |

## What the models assume of the world

* A transaction is atomic; `SELECT ... FOR UPDATE` excludes other holders of the row until it
  commits or rolls back, and queries after it see what was committed before it. A commit can succeed
  and its reply be lost: in BlobStore a commit can lead to the cleanup of a failed one, in Lease
  and Transcripts a client can have given up. A failing statement rolls back.
* On MySQL the reads of one transaction come from one snapshot; on SQLite transactions exclude each
  other. The models have the weaker of the two.
* Clocks of the servers agree. Ages and expiries are small numbers that time moves; what counts is
  their order, e.g. that `blobPlaceWindow` is smaller than `OrphanGrace`.
* A file operation is atomic, two of them are not. Operations that directly follow each other
  without waiting take no time that the ages of files notice (`BlobStore!Tick`).
* Random names and keys are never given twice while somebody knows them.
* A refresh of OAuth tokens is one step of the server: it locks the row of the token, and revoking a
  family locks the rows of the family.
* The system releases a file lock when its process dies; a rename within a directory is atomic.

## The body store

`internal/service/blobstore.go` keeps bodies under their sha256 for attachments and transcripts.
`BlobStore.tla` follows **one** body: every file it uses carries that hash in its name, so bodies do
not interact. A process (server or repair subcommand) has a program counter; each step is one file
operation, one query or one commit.

| Code | Model |
|---|---|
| `beginBlobPlace`, `placeBlob`, the transaction of `Attach` or `AppendTranscriptChunk` | `BeginPlace`, `LookForBody`, `TouchBody`/`RenameTemp`, `Commit`, `Abort`, `Unmark` |
| `removeBlobGuarded` | `CountRows`, `FindMarkBefore`, `TakeName`, `SetAside`, `KeepRecent`, `ListAfter`, `StatAfter`, `Recount`, `Unlink`; `FailAfter` for any failing query or operation |
| `restoreBlob` | `LookBeforeRestore`, `PutBack`, `DropAside` |
| `recoverBlobLeftovers`, `recoverAside`, `removeOrphanBlobs`, the repair subcommands | `CheckOrphan`, `OpenAside`, `RecoverAside`, `SweepMarks` |
| files `inflight-<sha>-*`, `remove-<sha>-*` in `.tmp`, with their ages | `mark`, `aside`, `inner` |
| a process killed at any point | `Crash` |

`BlobRefs.tla` is what the store promises: a row is recorded only while the body is stored, and the
last copy is given up only when no row points at it. `ImplementsRefs` says BlobStore implements it
under `stored <- Stored`.

Properties: `NoLostBody`, `ImplementsRefs`, `IInv`; `LiveBodyReturns` (a body that rows point at is
at its path again in the end), `OrphanGoes` (purged content leaves the disk); `PurgeRemovesBody` is
what a comment promises and the code does not keep.

A purge of attachments reads the rows and records the largest id. Ids are given at the INSERT, before
the commit: `PurgeAttachments` therefore keeps rows that another server commits between the two
(`gone`), and covers others that are not committed yet (`late`, then `CommitCovered`). Of the rows of
attachments nothing else is modelled; the quota of a project is left out.

Left out: copying the content, temporary files of uploads (removed by age alone), the walk over the
directories. A restore that fails is modelled as a process that stops: the aside stays in both.

Fairness (`MCBlobStoreLive`): a running process goes on, time passes, and the operator runs the
repair again and again (the documentation asks for a regular run after crashes). Crashes and
failing operations come to an end (`NoFailure`), after any number of them, because a store whose
every repair crashes recovers nothing. Names in `.tmp` are random in the code: behaviours in which
leftovers hold all of the model's few names for ever are left out (`NameFree`).

## Leases

`Lease.tla` is one resource seen from its clients. The server's side of a request is one
transaction under the row's lock, so `AcquireLease`, `ExtendLease`, `ReleaseLease`, `BreakLease` and
`Refuse` are one step each. What is hard lies between: `AskAcquire` ... send a request,
`GiveUp` is a client that stops waiting while its request is still under way, and the request is
handled later, in any order, or never; a granted reply travels while time passes (`Tick`).

`belief` is what a process knows from its replies. `Exclusive` compares beliefs, not rows: two
processes that both count on a lease that nobody entitled to it has ended are of one session that
shares it without keys. `KeeperGetsIt`: a holder that died, or a grant whose reply was lost, does
not keep the resource from a process that patiently asks.

Fairness (`MCLeaseLive`): time passes; a request under way is answered; the Keeper asks again
whenever it holds nothing, and not every one of its requests is refused for other reasons
(no role, archived project) or lost. Nothing is assumed of the others, except that the property
speaks of behaviours in which they have stopped.

Times are what is left until the expiry. Keys are recycled only when neither a row, a request, a
reply nor a process knows them (`Known`), which keeps the model finite.

## Transcripts

`Transcripts.tla` has the server's rows and the clients that push what the agents' files have
gained. A file is a number of complete lines, a chunk the lines from `from` to `to`.

| Code | Model |
|---|---|
| `trPlanAll`, `sendPlans`, `appendChunk` of the push | `Start` (reads the files once), `ReadSeq` and `ReadLens` (the state, two queries), `Send`, `Receive`, `Finish`; three conflicts end a push (`MaxResync`), a chunk too large halves it (`cut`) |
| `AppendTranscriptChunk` | `TooLarge`, `BeginAppend` (lock and reads), `InsertTranscriptChunk` (the INSERT, which gives the id) or `RefuseAppend`, `CommitAppend`; `Rollback` at any moment, after which the id is not given again |
| `purgeTranscript`, `PurgeTranscript`, `PurgeExpiredTranscripts` | `BeginPurge`, `InsertTranscriptPurge`, `FindExpired`, `PurgeExpired` |
| a push killed by the hook's timeout with its request under way | `GiveUp`, `abandoned` |
| `liveChunks`, the order in which a pull takes chunks | `PulledChunks`, `Restorable` |

A transaction that appends is three steps, its reads, the INSERT and the commit, so that the lock is what
keeps its reads true: without `LockTranscriptUser` the run fails. A row that is inserted and not committed
has its id and is seen by nobody (`appending`); another transaction with the same number waits for it
(`SeqHeld`). The limit of a user is over all his transcripts, so the lock
is on the user and not on the transcript.

Properties: `Restorable` (at every moment a pull can put every session together, no gap, no line
twice), `PurgeTakesAll` (no chunk that commits around a purge escapes it), `Quota`, `SentIsPulled` (a push that is about to end well has
brought over every line that it read; what it counts as sent at any time is stored, `AckedIsStored`, a part
of the invariant), `PushEnds` (whatever the server, other pushes and purges do, each
thing that happens to a push ends it or brings it closer to its end: it has fewer retries and halvings left,
else fewer lines to send, else fewer steps of its chunk, and nothing descends for ever in that order), `EverythingArrives`
(the server ends up with every line, or the chunk that a new push would send first does not fit under the limit
of the user, `NoRoom`: a chunk that `transcript_quota` refuses is not halved, so a room that is smaller than
it stays empty);
`RetentionSparesFresh` is promised and not kept.

`TranscriptLog.tla` is what all this is for, in three actions: the agent writes a line, the next lines of a
file are stored, a purge takes the session back. A pull gets the first lines of each file, as written.
`ImplementsLog` says that Transcripts implements it under `pulled <- Pulled`, the lines that the chunks of
a pull hold: chunks, ids, sequence numbers, offsets, limits and retries are gone.

Left out: files that were rewritten and the state file that recognises them; the masking of lines;
where a pull writes; the registration of a transcript.

Fairness (`MCTranscriptsLive`): the Stop hook of every turn starts a push, so `p1` pushes again and
again and its steps go on; the server answers and ends its transactions. At most `MaxFaults` disturbances
(killed pushes, lost or refused requests, rollbacks), or one push of the same session by another process: the
two keep each other from ending only as long as both go on, and a push gives up after `MaxResync` conflicts.
Nobody is promised to purge, or to write.

## Issues, next and assignees

`Issues.tla` is one project. Sessions of several users take work with `next`, close it, change
status, assignee, text; administrators change members and archive.

| Code | Model |
|---|---|
| `next`: `ProjectIssues`, `InProgressStarters` without a transaction, then each candidate again | `CallNext`, `Resume` (rule 1), `ListCandidates`, `TryCandidate`, `FindNothing` |
| `mutate`: row lock, then reads from the snapshot, then commit | `LockRow` (takes the `view`), `Commit`, `Reject` |
| `SetStatusAssign`, `Assign`, `AddComment`, `Update` | `CallStatus`, `CallAssign`, `CallComment`, `CallUpdate`; what they decide under the lock is `StatusAllowed`, `AssignAllowed`, `UpdateAllowed` |
| `LoadDocument`: the row and the lists beside it, by several queries | `ReadRow`, `ReadValues` |
| `SetMembership`, `SetProjectArchived`, `Create` | `Demote`, `Promote`, `SetProjectArchived`, `Create` |

`hand[s]` is the issue that a session was last told to work on, `moved` the issues whose assignee
somebody changed on purpose.

Properties: `OneUserAtWork` (sessions of different users are not told to work on one issue that
nobody gave from one to the other), `NoLostEdit` (an accepted edit was made from the text and the
lists it replaces, although these were read at different times), `EverythingDone` (no issue is
hidden from everybody by its assignee, its starter or its parts); `OneSessionAtWork` and
`AssigneesAreMembers` are promised and not kept. The second is kept where the transactions that
change members and assignees come one after the other (`OneAfterTheOther`), which SQLite makes them do
(`_txlock=immediate`, store/sqlite.go): it fails on MySQL only.

Left out: titles, labels, search; the rules of a project except that they refuse some issues
(`Refused`); the limit of 50 candidates; disabling a user; sessions of MCP connections that are
linked to a conversation later. Parents, blockers and types do not change. One administrator at a
time changes members: `SetMembership` is one step, taken when no row it hands over is locked.

Fairness (`MCIssuesLive`): a session goes on asking for work, its calls go on, and the wait for a
row ends when nobody keeps it; an agent that is told of an issue again and again closes it some
time (strong fairness of `Finish`: other calls can keep taking it away from it). Administrators and
other calls are promised nothing.

## Memory and the handoff spool

`Memory.tla` is one row of a project's memory on the server: its versions, their bodies, and the
records of purges. Every write locks the row first, so each is one step. `Handoff.tla` extends it with
the clients that write the handoff: calls of `handoff append` and `handoff compact`, and the Stop hooks
that send what an earlier call could not.

| Code | Model |
|---|---|
| `WriteMemory` with append, create, replace, delete; `thinMemoryBodies` | `AppendMemory`, `CreateMemory`, `ReplaceMemory`, `DeleteMemory`; `Thin` is part of each |
| `applyMemoryPurge` for a version, for all, for the retention job | `PurgeMemoryVersion`, `PurgeAllVersions`, `PurgeExpiredMemories` |
| `flushHandoffSpool`, `recoverSending` | `Begin`, `Stat`, `Recover`, `List`, `Claim`, `Touch`, `OutOfTime`, `Flushed` |
| `sendSpool`, `AppendHandoff`, `ReplaceHandoff` | `HandleGet`, `HandleWrite`, `Sent`, `Keep`, `NoAnswer`; `HandleLate` for a request that nobody waits for |
| `handoffServerAppend`, `handoffServerCompact`, `writeSpool`, `spool --drop` | `Compose`, `Call`, `Answer`, `Spool`, `SpoolFails`, `Drop` |

A file is claimed by a rename and gets the time of the claim only afterwards (`Touch`); a file that
stays claimed for ten minutes is taken back. Two processes can therefore hold one file: a slow one and
the one that took the file back, and, between the rename and the new time, two that are both alive
(the head comment of `memoryspool.go` says that only one process sends; the model shows that
more than one can, and that nothing depends on it). What must not depend on it are the properties:
`NothingLost` (what a caller was told is written is in a version; what was put aside waits or is in
one), `WrittenOnce` (one version has a section, however often it was sent), `PurgedStaysGone` (what was
purged does not come back through a key, a file or a draft), `Accounted` (a version without a body is
covered by a purge or by thinning), `SectionsArrive` (what was put aside is sent, although the caller
is gone).

`MemoryHistory.tla` is the memory as its readers see it: contents numbered in the order in which they were
written, that never change and never come back, of which the last `Kept` stay. What a purge takes away is
all that lies between two versions; when the current content goes, its number is passed over (the bodyless
version that a purge or a deletion adds). `ImplementsHistory` says that Memory, and Handoff with all of its
retries, implements it: `shown` are the versions that still have a body.

Left out: checks of names, texts and rights; the conflict that a key with another text gets; what the
hooks print of the spool; the local handoff file of a project without a server. Files are sent in the
order of their names by each process; when one of them is claimed by another process, later ones
can overtake it, and no property speaks of the order. A rewriting is made from the version that was current
when its writer read it, and names that version (`Compose`): one that a writer makes from the text of an
older version, while naming the current one, is not modelled, and `PurgedStaysGone` says nothing of it when
that older version alone is purged.

Fairness (`MCHandoff`): the hooks of some session go on running and their server answers, except
`MaxFailures` times; time passes; the time of a flush is not over before the same file for ever
(strong fairness of `Claim` of the oldest). The processes of the command line are promised nothing:
they may stop anywhere and keep what they have claimed.

## OAuth tokens and the credentials file

`Refresh.tla` has the tokens of one user at one server and the credentials file that the processes of
one machine share: hooks and commands that call, and `looptrack login --browser`. An access token and
its refresh token are a pair; a refresh puts it out of force and gives the next pair of its family. A
refresh token that comes twice ends the family, which is right for a thief and wrong for a client whose
own processes do it.

| Code | Model |
|---|---|
| `oauthTokenFromRefresh`, `issueOAuthTokens`, `RevokeRefreshFamily`, `bearer`, `accountRevokeToken` | `Rotate`, `Deny`, `Issue`, `RevokeRefreshFamily`, `Accepts`, `UserRevokes`; `Late` for a request that nobody waits for |
| `Do`, `refreshIfExpiring`, `refresh` with `credentials.json.lock` | `Start`, `Check`, `UseNewer`, `NothingToPresent`, `Ask`, `Granted`, `Denied`, `NoAnswer`, `Save`, `Forget`, `SaveFails`, `CallOnce` |
| `loginBrowser` | `Open`, `Register`, `Approve`, `SaveLogin`, `TimeOut`, `Quit` |
| the dates of a pair | `age`: far from its end, within a day, ended, the refresh token ended too |

Properties: `OneInForce` of the server; `StaysLoggedIn` (as long as nothing of `NothingWentWrong` failed,
the processes never make the server revoke a family, and the file keeps a refresh token that will be
accepted, while its 90 days last and it has the client that the token was issued to); `UserIsTold` (a refresh token that is no longer good does not stay in the file, so
the user is sent to log in).

`NothingWentWrong` is what the code does not protect against: a process that dies, a reply that is lost or
a write that fails between the rotation and the saved file (the next refresh is a reuse and ends the
family), and a revocation by the user. The other condition, `SameClient`, is where the code does not keep
the sentence of DESIGN.md 3-2 that a terminal used within 90 days is not cut off: `loginBrowser` takes the
client away from the entry in use when nobody answers in the browser (login.go:236), the next login writes
a new client there before it has tokens of it, and so does the slower of two first logins. The entry cannot
be refreshed from then on, although nothing died, was lost or revoked. The first half of `StaysLoggedIn`
holds even then: no token is presented twice.

`UserIsTold` speaks of an entry with
a client for the same reason: an entry without one is not presented. A 401 that is left after an early refresh that was
refused is shown as it came, without the sentence that DESIGN.md has for it.

`TokenFamilies.tla` is the server's side as a promise: a login begins a family, a rotation puts the next pair
in the place of the last, and a family is ended as a whole and for good. `ImplementsFamilies` says that
Refresh implements it, with `good` for the issued pairs that are not dead and `ended` for the families of
which a pair carries the mark of a revocation: no order of requests, late answers, logins and revocations
makes two chains out of one, or brings a family back (`RevokedTogether` of the invariant is a part of this).

Left out: the exchange of the code with its challenge, tokens pasted by hand, other servers in the same
file, the scopes. The age of a pair that is out of force and not in the file stays as it is (`Matters`):
no step looks at it.

Fairness (`LiveSpec`): a process that calls goes on, and the hooks of the sessions call again and
again. Logins, the user, and time are promised nothing.

## The desktop application

`Desktop.tla` is what keeps one instance of the application running through starts, `--quit` and updates.
An instance holds `desktop.lock`, which the system releases when its process dies, and is found through
`desktop.json`, which stays. An update renames each of its pieces (one AppImage, or the four files of the
Windows zip) to `<name>.prev` and the new one to its name, undoes that from the last piece on when
something fails, and starts the new version, which waits for the lock while the old one shuts down.

| Code | Model |
|---|---|
| `Main`, `secondary`, `primary`, `App.Quit` of app.go | `Start`, `StartLocks`, `FindsLocked`, `ReadsState`, `TakeoverTimesOut`, `Boot`, `BootFails`, `Quit`, `Close`, `ClearState`, `Leave` |
| `quit`, `stopped` of app.go (`--quit`) | `RunQuit`, `AskFinds`, `Signal`, `Probe`, `ProbeEnds`, `GiveUp` |
| `runUpdate`, `apply`, `applyAppImage`, `applyZip`, `place`, `swap` | `Begin`, `Fetch`, `Place`, `SetAside`, `Put`, `Restore` and what fails in each |
| `applied.undo`, `move.undo` | `UndoClear`, `UndoMove`, `PutBack`, `PutAgain`, `UndoDrop`, `UndoFails` |
| the end of `runUpdate` | `Relaunch`, `RelaunchFails`, `QuitAfter` |
| a process that dies anywhere; PIDs that are given again | `Kill`; a process is its PID |

What only the instance has (that it quits, its update, what it has handed over to) is one variable each:
it goes with the lock. The release of the lock and the end of the process are one step, as are a signal and
the reading of the file before it.

Properties: `Findable` (while an instance serves and until it has shut down, `desktop.json` names it,
whatever others left behind), `OldVersionThere` (no moment of an update is without the copy that was in
place), `AllOrNothing` (an update that ends in a living process replaced every piece or none, unless undoing
failed), `UpdateEnds` (every step of an update, failed or not, brings its end nearer, counted by
`StepsLeft`: an instance that waits for its update before it ends is not kept waiting),
`HandedOver` (the successor is not started from pieces that still change), `KeepsServing`
(somebody serves again after every update, failed or not, unless the user ends the instance, what is left
is killed, or the new version starts and then fails to boot; `wanted` names which). The last of these ends
is the code's: `primary` reports the error and exits, the old version has quit, and nobody undoes the update. That there is one instance is in
`LockInv`, a part of `IInv`.

`AllOrNothing` does not speak of an instance that ends during an update: the automatic one is waited for,
but one that the user began ends with the process, between any two renames. `OldVersionThere` is then
what is left.

Left out: macOS (a bundle is one piece; whether its `.prev` survives a failed restore differs, see
below), the installer of Windows, `--status`, the bytes of the download and their verification, the
settings that remember a failed automatic update, errors in writing `desktop.json` (`Findable` would not
hold with them: the code only logs them), and the moment between the server's first answer and the PID. The
goroutine that cancels a download when the instance quits is immediate: a download is never finished after
`quitting` (`Fetch`).

Fairness (`Fairness`): the code of a process goes on. The process with `--after-update` asks for the lock
every 200 ms (strong fairness: `--quit` takes the lock for a moment to see whether it is free). Its 60 s
are well above the 15 s of a shutdown, so `TakeoverTimesOut` is only possible while another instance
stays. Users, `--quit` and starts are promised nothing.

## The runs

| Run | Bounds | Shows |
|---|---|---|
| `BlobStoreAttach` | 2 servers, 1 repair, 3 names, 1 row, any number of crashes | no interleaving loses a body under a row; the refinement; the inductive invariant |
| `BlobStoreLive` | 1 server, 1 repair, 2 names, 2 rows, any finite number of failures, transcripts' kind of purge | bodies return, orphans go |
| `BlobStorePurge` | 2 servers, no failure | counterexample to `PurgeRemovesBody` |
| `Lease` | 2 processes of 1 session, one of them (`Keeper`) with keys, 3 keys, 1 request of each under way, late and lost messages | exclusion, the inductive invariant, takeover after the expiry |
| `Transcripts` | 2 pushes of one session, 3 lines, a limit of 2 lines, chunks of 2 where 3 are sent first and halved to 1, 1 purge (owner or retention), 2 disturbances (which bound the ids that rollbacks use up), 2 abandoned requests, 1 conflict | restorable, acknowledged, quota, purge, the inductive invariants, the refinement of the log, pushes end, every line arrives unless the next chunk does not fit |
| `TranscriptsRetention` | 2 pushes, retention job | counterexample to `RetentionSparesFresh` |
| `Issues` | 2 sessions of 2 users, an issue and its part that is created later, 1 other call of any kind, 1 edited version | no shared work between users, no lost edit, everything done |
| `Handoff` | 1 append, 1 rewriting, 1 hook, others that write and purge up to version 2, 1 failure | nothing lost, written once, purged stays gone, accounted for, the refinement of the history, arrives |
| `Refresh` | 2 processes that call, 1 login, 2 pairs, 2 clients, 1 failure | one pair in force, families revoked as a whole, no self-made reuse, the refinement of the families, the user is told |
| `Desktop` | 2 PIDs, 2 pieces of which the second may be missing, 2 versions, 3 failures or deaths | found, whole or undone, comes to its end, old copy kept, handed over whole, somebody serves again unless ended, killed or unable to boot |
| `IssuesNext` | 2 sessions of 1 user, 1 issue | counterexample to `OneSessionAtWork` |
| `IssuesMembers` | 2 users, an assignment and a change of members | counterexample to `AssigneesAreMembers` |

Why these bounds are enough to be of interest: a violation of the body store needs one placer, one
remover and somebody who fails (two servers and a repair are all roles at once, three names let
each hold a file); of the lease, two believers and a late request; of transcripts, two writers of
one file, a purge between them and one request from the past; of issues, two users and one change
that neither made; of the handoff, two processes that hold one file (its writer's call and the hook), a
version by somebody else and a purge; of the tokens, two processes that find one token expired, and a login
between them: two pairs are a rotation with a reuse, or two families; of the desktop, an instance and its
successor or a `--quit`, and an undoing that goes over one placed piece and fails itself (two pieces, two
failures, and a death). For every property there is a small change of the code's logic (a dropped lock,
a count left out, a guard without its second half) that makes the same run fail. What the bounds
cut off, the proofs cover: they hold for any number of processes, files, rows, sessions and calls.
Symmetry is used in runs that check safety only. No run has two sessions of one user that share a
quota, or a lease between processes of two sessions or of none: the theorems cover these
(`TranscriptsQuota`, `LeaseExclusive`). The run `Issues` has no blockers and no epics: the operators that
read them (`Ready`, `Wanted`, `Bundles`) are translated and the theorems of `IssuesProofs` hold with them, but
these are about who works on an issue; that no blocker or epic hides one for ever (`EverythingDone`) is
neither checked nor proved.

## Where code and documents disagree

* **A purge yields to the mark of what it purges** (`BlobStorePurge`, blobstore.go:332). An
  attachment has committed and not yet taken its mark away; a purge of that very attachment finds
  the mark, keeps the body and reports success. The comment above `PurgeAttachment` promises an error
  whenever the body could not be removed. A later repair removes it (`OrphanGoes`).
* **Retention purges fresh chunks** (`TranscriptsRetention`, transcripts.go:1020). The job lists
  transcripts by the age of their last chunk and does not look again under the lock.
* **Two sessions of one user start one issue** (`IssuesNext`, next.go:199). `next` passes the status
  of its second read as the one to expect; when another session has started the issue before that
  read, "In Progress" is expected and found.
* **An assignment overtakes the removal of its target** (`IssuesMembers`, assignee.go:267, on MySQL).
  The removal locks only the rows that its target already has.

`PROJECT.json` quotes the sentences in question. Each run stops at a counterexample of a few steps.

Met while modelling, without a run that asserts the document's sentence:

* An attachment whose transaction commits behind a purge that saw a larger id is purged at birth, although
  its caller is told that it is attached (`CommitCovered` of BlobStore; store/attachments.go:36). For
  transcripts it cannot happen, with or without the lock: ids are compared within one transcript, and there the
  unique number (`SeqHeld`) lets only one row be inserted at a time, so ids commit in their order (`Numbered`).
* A chunk that the limit of the user refuses (transcripts.go:751) is offered again as it is by every later push,
  although a smaller one would fit: the client halves it only when the chunk is too large
  (transcript_push.go:568). DESIGN.md promises nothing else (`NoRoom` in `EverythingArrives`).
* More than one process can send a spooled file at once (head comment of `memoryspool.go`); nothing depends
  on it (`WrittenOnce`).
* A `login --browser` that nobody answers leaves the entry of the credentials without its client, so that it
  cannot be refreshed any more, within the 90 days of DESIGN.md 3-2 (`TimeOut` and the condition `SameClient`
  of `StaysLoggedIn`; login.go:236).
* DESIGN.md:1178 says that a failed update leaves the current version and the earlier `.prev` alone. `swap`
  removes the earlier `.prev` before it renames, so a step that fails later has lost it (`Place`).
* CHANGELOG-desktop.md:1241 says that the previous version is put back if the new one does not start. It is
  when the process cannot be started (`RelaunchFails`), not when it starts and its server does not
  (`BootFails` after `Relaunch`, the end "unbooted" of `KeepsServing`): the new one has then ended, the old one
  has quit, and the user finds no instance.
* An update that the user began does not survive his Quit: the process can end between the two renames, and
  the pieces are then of two versions or missing from their place (`Leave` with an update that is not waited
  for). A Quit while the pieces are being placed does not stop the successor from being started either.
* After a crash the PID in `desktop.json` is stale: a start that meets `--quit`'s short hold of the lock then
  reports an instance that does not answer, and `--quit` can signal whichever process has that PID now
  (`ReadsState`, `Signal`). A start while the old instance shuts down ends without an instance.
* A retry after an undoing that failed removes `<name>.prev`, which may be the version that runs (`Place`
  after `torn`). On macOS the application itself is not looked for first, so that copy can be the only
  one.

## What is proved

`*Proofs.tla` prove, for all values of the constants that the named assumptions admit:

| Module | Theorems | Along which argument |
|---|---|---|
| `BlobStoreProofs` | `BodyNeverLost`, `StoreImplementsRefs`, `StoreInvariant`, `TypeCorrect` | A copy is safe for the rows if everybody who holds it has its recount ahead (`SafeForRows`), and safe for a placer whose transaction can still commit if everybody has its listing ahead or has seen the placer's mark (`SafeForPlacer`). Each is needed for the other: the recount of a remover is only right because no placer that it did not see can commit after it. |
| `LeaseProofs` | `LeaseExclusive`, `LeaseInvariant` | What a process knows of a generation that nobody cut is what the row says, or less (`Sound`); a generation is known in one session (`Shared`, `KnownInSession`); at most one request is waited for (`Waits`). |
| `TranscriptsProofs` | `TranscriptsInvariant`, `TranscriptsRestorable`, `TranscriptsAcked`, `TranscriptsPurgeTakesAll`, `TranscriptsQuota` | At most one transaction of a user is open (`OneOpen`), so its reads are current (`Current`) and a row that it has inserted has passed the checks and has an id above all that are there (`Accepted`); ids and sequence numbers grow together, past purges too (`Keys`, `Numbered`). The quota is the cardinality of a set of stored lines, each named by its chunk: what an open append has read as used is still used when it commits. |
| | `TranscriptsLogInvariant`, `TranscriptsImplementLog`, `TranscriptsPullBeginning`, `TranscriptsSentIsPulled`, `TranscriptsPushEnds` | The chunks of a pull follow each other without a gap (`Contiguous`) and hold no line that was not written (`Written`), so the union of their lines is a beginning of the file, and a commit that starts where the last one ends makes a longer one. Pushes end by a lexicographic order (`Closer`) that every step of a running push descends. |
| `IssuesProofs` | `OneUserAtATime`, `EditsKept`, `IssuesInvariant` | While nobody gave an issue away, its assignee is whom it was given to and who started it (`HandsOwn`, `StartersOwn`) and who was seen as its assignee (`SeenOwn`); one lock for a row (`OneLock`); a draft of the current version holds the current text and lists (`DraftsTrue`). |
| | `MembersAssigned` | The counterpart of the finding of `IssuesMembers`: if no change of members falls between the reads and the commit of a call (`OneAfterTheOther`), what an open call has seen of the members is true when it commits (`ViewsTrue`), so assignees are members. |
| `MemoryProofs` | `MemoryAccounted`, `MemoryImplementsHistory`, `MemoryReadable` | Versions are numbered without gaps, and each without a body is covered by a purge or by thinning at the moment it loses it; thinning keeps the newest. What thinning takes is older than all that stays, and it takes nothing unless `Kept` are left; what a purge takes is an interval of the numbers. |
| `HandoffProofs` | `HandoffInvariant`, `HandoffImplementsMemory`, `HandoffImplementsHistory`, `HandoffNothingLost`, `HandoffWrittenOnce`, `HandoffAccounted`, `HandoffPurgedStaysGone` | Every step of the clients is a step of Memory or leaves it unchanged, so Memory's invariant, and the history it implements, carry over; a key stands for one section wherever it is held (file, request, version), and a draft of a rewriting names the version it was made from. |
| `RefreshProofs` | `RefreshInvariant`, `RefreshOneInForce`, `RefreshRevokedTogether`, `RefreshStaysLoggedIn` | Whoever holds the file's lock presents what the file says (`LockInv`); as long as nothing went wrong, every refresh token in the file or on its way there is unused (`Calm`), so none comes twice. An entry without a refresh token, or whose refresh token is refused, has lapsed or lost its client (`Lapsed`); no client that a login writes over a token in use is the one of that token, because numbers of clients are not given twice (`ClientInv`). |
| | `RefreshImplementsFamilies`, `RefreshOneGood`, `RefreshOverForGood` | A pair is issued with the next number and the family of the one presented, or a new one (`Numbered`); a rotation and its reuse check are one step of the row's lock, so the pair that it puts out of force was the only good one. |
| `DesktopProofs` | `DesktopInvariant`, `DesktopFindable`, `DesktopHandedOver`, `DesktopOldVersionThere`, `DesktopAllOrNothing`, `DesktopUpdateEnds` | Only the holder of the lock has an update (`InstanceInv`); the pieces below the one it is at are placed, those above are not touched or put back (`UpdateInv`); once a successor was started nothing but the Quit is left, or a download that the Quit cuts off. `StepsLeft` counts four steps for each piece still to be placed and undone. |

None of the safety properties is inductive by itself: each says nothing of what is between a read
and a commit. The named conjuncts of `IInv` (of `LogInv` for transcripts) do; the runs check
it too, so that TLC finds a wrong conjunct before a proof is tried. The assumptions on the constants are
typing, distinct null values and what the code makes true, for example: the placing window is smaller
than the grace period, lengths of leases are positive, an issue that is not created has no assignee,
what is started is a required piece. `MembersAssigned` alone has a hypothesis on behaviours, and names
the line that justifies it.

The refinements are proved step by step under the mappings given with the modules: initial states map to
initial states, and every step, with the inductive invariant, to a step of the abstract module or a
stutter. A promise of the abstract module (`Beginning`, `Readable`, `OneGood`, `OverForGood`) is proved there
once and carried over.

That a push and an update end is proved as far as steps go: each lowers something that cannot be lowered for
ever. That the steps are taken is liveness and stays with TLC.

Model-checked only: the liveness properties (`LiveBodyReturns`, `OrphanGoes`, `KeeperGetsIt`,
`EverythingArrives`, `EverythingDone`, `SectionsArrive`, `UserIsTold`, `KeepsServing`), which rest on
fairness and are out of reach of the provers used here, and the four counterexamples. Every invariant and
action property of a passing run is a theorem. The provers cannot use the library's rules of induction;
where an argument needs one (the first of some issues, the oldest of some versions), the theorems take the
least number of a set, which the library's theorems on well-founded relations give.

## What is not modelled

Parsing and printing (commands, agents' files, reports, texts), pure rules of the domain,
configuration and setup, cryptography and downloads, the migrations' SQL: `PROJECT.json` lists each
part with the reason. Hazards that no property covers yet carry a note that names their place in the
plan.

## The plan

Done, in this order because loss of content comes before loss of work, and loss of work before
inconvenience: body store, leases, transcripts with pushes, issues with next and members, memory with
the handoff spool, OAuth tokens with the credentials file, desktop.

What is left, most important first:

1. **Attachments** (`Attachments.tla` above `BlobRefs`): the rows of several attachments, and the quota of a
   project under its lock. The purge by ids is in BlobStore.
2. **Messages** (`Messages.tla`): sending in two transactions; a hook that reads, marks and prints, and
   whether a message is then shown at least once (the mark comes first, and the unread ids are read before
   the inbox, which hides older ones).
3. **Transcripts**: files that were rewritten after a lost reply (transcript_push.go:226), with the state
   file that recognises them; the registration.
4. **Desktop**: the bundle of macOS, the installer of Windows, what remembers a failed automatic update.
5. **OAuth**: tokens pasted by hand, several servers in one file.
6. Sessions linked later and disabled users in Issues; verification records against the text they were made
   from; two administrators at once.
7. Proofs: an abstract specification for the leases and one for the issues (who works on what, and
   edits in a line), as there is for the other components.
