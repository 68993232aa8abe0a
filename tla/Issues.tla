------------------------------- MODULE Issues -------------------------------
(***************************************************************************)
(* The issue tracker of one project: several AI sessions, some of them of  *)
(* one user, take work with next, change the status, the assignee and the  *)
(* text of issues, and administrators change who is a member.              *)
(*                                                                         *)
(* Every change goes through mutate: a transaction that locks the row of   *)
(* the issue and then reads the rest (members, archived project) from its  *)
(* snapshot.  next reads several times without a transaction first.        *)
(*                                                                         *)
(* Titles, texts, labels and comments are left out, except that an edit    *)
(* replaces the text of the row and the lists beside it.  Types, parents   *)
(* and blockers do not change.                                             *)
(***************************************************************************)
EXTENDS Integers, FiniteSets

CONSTANTS Issues,    \* numbers: the smaller is listed first
          Epics,     \* issues of a type that next does not want
          Refused,   \* issues that the project's rules do not let into progress
          Parent,    \* the issue that an issue is a part of, or itself
          Blockers,  \* the issues that must be closed before
          Users, Nobody,
          Sessions, NoSession,
          UserOf,
          KindOf,    \* the kind of identifier a session sends, or Silent
          Silent,
          Starts,    \* what the rows may hold at first
          Targets,   \* the statuses that calls ask for
          Calls,     \* the calls that sessions make beside next and closing
          MaxCalls,  \* bounds those but the edits, and the changes of members and archive
          MaxEdited  \* bounds the versions of each issue that are edited

ASSUME IssueAssumption == /\ Issues \subseteq Nat /\ IsFiniteSet(Issues)
                          /\ Epics \subseteq Issues /\ Refused \subseteq Issues
                          /\ Parent \in [Issues -> Issues]
                          /\ Blockers \in [Issues -> SUBSET Issues]
ASSUME UserAssumption  == Nobody \notin Users
ASSUME SessionAssumption == NoSession \notin Sessions /\ UserOf \in [Sessions -> Users]

Closed   == {"Done", "Canceled"}
Opened   == {"Backlog", "Todo", "In Progress", "In Review"}
Unborn   == "unborn"
Statuses == Opened \cup Closed \cup {Unborn}

NoStatus == "any"      \* no status is expected
Keep     == "keep"     \* no assignee is asked for
NoIssue  == -1

Kinds    == {"status", "assign", "update", "comment"}

ASSUME CallAssumption ==
  /\ Targets \subseteq Opened \cup Closed
  /\ Calls \subseteq Kinds \cup {"member", "archive"}
  /\ MaxCalls \in Nat /\ MaxEdited \in [Issues -> Nat]
  /\ Keep \notin Users \cup {Nobody}
  /\ NoIssue \notin Issues
  /\ Starts \subseteq [Issues -> [status : Statuses, assignee : Users \cup {Nobody}]]
  /\ \A start \in Starts, i \in Issues : start[i].status = Unborn => start[i].assignee = Nobody

VARIABLES
  row,       \* issues: status, assignee, version, text; values: the lists beside it
  starter,   \* issue_events: who made it In Progress last
  editors,   \* project_members: who may write, and so can be an assignee
  archived,
  pc,        \* how far the call of a session is
  seen,      \* what next has read of the rows
  cand,      \* the candidates that next has not tried
  prefer,    \* those it tries first
  call,      \* the change that a session asks for
  view,      \* the snapshot of its transaction
  hand,      \* the issue that an AI was told to work on
  moved,     \* issues that were given from one user to another
  work       \* calls made so far

rows  == <<row, starter>>
ask   == <<seen, cand, prefer>>
vars  == <<row, starter, editors, archived, pc, seen, cand, prefer, call, view, hand, moved, work>>

Row   == [status : Statuses, assignee : Users \cup {Nobody}, version : Nat, text : Nat, values : Nat]
Entry == [status : Statuses, assignee : Users \cup {Nobody}]
Call  == [kind : {"none", "next"} \cup Kinds, issue : Issues \cup {NoIssue}, to : Opened \cup Closed \cup {NoStatus},
          assignee : Users \cup {Nobody, Keep}, reason : BOOLEAN, expect : Statuses \cup {NoStatus},
          version : Nat, text : Nat, values : Nat]
View  == [editors : SUBSET Users, archived : BOOLEAN]

NoCall == [kind |-> "none", issue |-> NoIssue, to |-> NoStatus, assignee |-> Keep, reason |-> FALSE,
           expect |-> NoStatus, version |-> 0, text |-> 0, values |-> 0]
Blank  == [i \in Issues |-> [status |-> Unborn, assignee |-> Nobody]]
NoView == [editors |-> {}, archived |-> FALSE]

TypeOK ==
  /\ row \in [Issues -> Row]
  /\ starter \in [Issues -> Sessions \cup {NoSession}]
  /\ editors \subseteq Users /\ archived \in BOOLEAN
  /\ pc \in [Sessions -> {"idle", "listed", "picking", "reading", "drafting", "waiting", "locked"}]
  /\ seen \in [Sessions -> [Issues -> Entry]]
  /\ cand \in [Sessions -> SUBSET Issues] /\ prefer \in [Sessions -> SUBSET Issues]
  /\ call \in [Sessions -> Call]
  /\ view \in [Sessions -> View]
  /\ hand \in [Sessions -> Issues \cup {NoIssue}]
  /\ moved \subseteq Issues
  /\ work \in Nat

Init ==
  /\ \E start \in Starts :
       row = [i \in Issues |-> [status |-> start[i].status, assignee |-> start[i].assignee,
                                version |-> 1, text |-> 1, values |-> 1]]
  /\ starter = [i \in Issues |-> NoSession]
  /\ editors = Users /\ archived = FALSE
  /\ pc = [s \in Sessions |-> "idle"]
  /\ seen = [s \in Sessions |-> Blank]
  /\ cand = [s \in Sessions |-> {}] /\ prefer = [s \in Sessions |-> {}]
  /\ call = [s \in Sessions |-> NoCall]
  /\ view = [s \in Sessions |-> NoView]
  /\ hand = [s \in Sessions |-> NoIssue]
  /\ moved = {}
  /\ work = 0

Me(s) == UserOf[s]

\* What the handlers ask for before the service: a member who may write, a
\* project that is not archived.
MayWrite(s) == Me(s) \in editors /\ ~archived

-----------------------------------------------------------------------------
(* next: what it reads. *)

\* Faulty variant: a closed part still counts.
HasChild(entries, i) == \E j \in Issues \ {i} : Parent[j] = i

HasOpenChild(entries, i) == \E j \in Issues \ {i} : Parent[j] = i /\ entries[j].status \in Opened

Wanted(i) == i \notin Epics

\* ComparableSessions: both send an identifier, and of one kind.
Comparable(s, t) == KindOf[s] # Silent /\ KindOf[s] = KindOf[t]

\* InProgressStarters lists only issues that are in progress now.
StarterOf(i) == IF row[i].status = "In Progress" THEN starter[i] ELSE NoSession

OtherSession(s, i) ==
  LET t == StarterOf(i)
  IN  t # NoSession /\ t # s /\ UserOf[t] = Me(s) /\ Comparable(s, t)

\* Rule 1: in progress, and as far as can be told this session's work.
Mine(s, i) ==
  /\ seen[s][i].status = "In Progress"
  /\ ~OtherSession(s, i)
  /\ \/ seen[s][i].assignee = Me(s)
     \/ /\ seen[s][i].assignee = Nobody
        /\ StarterOf(i) # NoSession /\ UserOf[StarterOf(i)] = Me(s)

Bundles(s) == {i \in Issues : Mine(s, i) /\ HasOpenChild(seen[s], i)}
Units(s)   == {i \in Issues : Mine(s, i) /\ ~HasOpenChild(seen[s], i) /\ Wanted(i)}

Ready(entries, i) == \A j \in Blockers[i] : entries[j].status \in Closed

\* Rule 2.
Candidates(s) ==
  {i \in Issues : /\ seen[s][i].status = "Todo" /\ Ready(seen[s], i)
                  /\ Wanted(i) /\ ~HasOpenChild(seen[s], i)
                  /\ seen[s][i].assignee \in {Nobody, Me(s)}}

Ancestors(i) ==
  LET up[n \in Nat] == IF n = 0 THEN {Parent[i]} ELSE up[n - 1] \cup {Parent[j] : j \in up[n - 1]}
  IN  up[Cardinality(Issues)] \ {i}

First(S)  == CHOOSE i \in S : \A j \in S : i <= j
Choice(s) == First(IF cand[s] \cap prefer[s] # {} THEN cand[s] \cap prefer[s] ELSE cand[s])

CallNext(s) ==
  /\ pc[s] = "idle" /\ MayWrite(s)
  /\ pc' = [pc EXCEPT ![s] = "listed"]
  /\ seen' = [seen EXCEPT ![s] = [i \in Issues |-> [status |-> row[i].status, assignee |-> row[i].assignee]]]
  /\ hand' = [hand EXCEPT ![s] = NoIssue]
  /\ UNCHANGED <<row, starter, editors, archived, cand, prefer, call, view, moved, work>>

\* The work in progress is given again (resumed).
Resume(s) ==
  /\ pc[s] = "listed" /\ Units(s) # {}
  /\ hand' = [hand EXCEPT ![s] = First(Units(s))]
  /\ pc' = [pc EXCEPT ![s] = "idle"]
  /\ seen' = [seen EXCEPT ![s] = Blank]
  /\ UNCHANGED <<row, starter, editors, archived, cand, prefer, call, view, moved, work>>

ListCandidates(s) ==
  /\ pc[s] = "listed" /\ Units(s) = {}
  /\ pc' = [pc EXCEPT ![s] = "picking"]
  /\ cand' = [cand EXCEPT ![s] = Candidates(s)]
  /\ prefer' = [prefer EXCEPT ![s] = {i \in Candidates(s) : Ancestors(i) \cap Bundles(s) # {}}]
  /\ seen' = [seen EXCEPT ![s] = Blank]
  /\ UNCHANGED <<row, starter, editors, archived, call, view, hand, moved, work>>

\* Rule 3: the candidate is read again, and a start from the status it has
\* now is asked for.
TryCandidate(s) ==
  /\ pc[s] = "picking" /\ cand[s] # {}
  /\ cand' = [cand EXCEPT ![s] = @ \ {Choice(s)}]
  /\ IF Choice(s) \in Refused THEN UNCHANGED <<pc, call>>
     ELSE /\ pc' = [pc EXCEPT ![s] = "waiting"]
          /\ call' = [call EXCEPT ![s] = [NoCall EXCEPT !.kind = "next", !.issue = Choice(s), !.to = "In Progress",
                                                        !.expect = row[Choice(s)].status]]
  /\ UNCHANGED <<row, starter, editors, archived, seen, prefer, view, hand, moved, work>>

\* Rule 4, or nothing to do.
FindNothing(s) ==
  /\ pc[s] = "picking" /\ cand[s] = {}
  /\ pc' = [pc EXCEPT ![s] = "idle"]
  /\ prefer' = [prefer EXCEPT ![s] = {}]
  /\ UNCHANGED <<row, starter, editors, archived, seen, cand, call, view, hand, moved, work>>

-----------------------------------------------------------------------------
(* The other calls. *)

\* The AI closes what it was told to do.
Finish(s) ==
  /\ pc[s] = "idle" /\ MayWrite(s) /\ hand[s] # NoIssue
  /\ pc' = [pc EXCEPT ![s] = "waiting"]
  /\ call' = [call EXCEPT ![s] = [NoCall EXCEPT !.kind = "status", !.issue = hand[s], !.to = "Done"]]
  /\ UNCHANGED <<row, starter, editors, archived, seen, cand, prefer, view, hand, moved, work>>

Begin(s, c) ==
  /\ pc[s] = "idle" /\ MayWrite(s)
  /\ c.kind \in Calls /\ row[c.issue].status # Unborn
  /\ work < MaxCalls /\ work' = work + 1
  /\ pc' = [pc EXCEPT ![s] = "waiting"]
  /\ call' = [call EXCEPT ![s] = c]
  /\ UNCHANGED <<row, starter, editors, archived, seen, cand, prefer, view, hand, moved>>

CallStatus(s) ==
  \E i \in Issues, to \in Targets, a \in Users \cup {Nobody, Keep}, reason \in BOOLEAN :
    Begin(s, [NoCall EXCEPT !.kind = "status", !.issue = i, !.to = to, !.assignee = a, !.reason = reason])

\* Its answers before the lock change nothing and are left out.
CallAssign(s) ==
  \E i \in Issues, a \in Users \cup {Nobody}, reason \in BOOLEAN :
    Begin(s, [NoCall EXCEPT !.kind = "assign", !.issue = i, !.assignee = a, !.reason = reason])

CallComment(s) ==
  \E i \in Issues : Begin(s, [NoCall EXCEPT !.kind = "comment", !.issue = i])

\* An edit starts from what the editor reads: the row, with the version,
\* before the lists beside it.
ReadRow(s) ==
  \E i \in Issues :
    /\ pc[s] = "idle" /\ MayWrite(s)
    /\ "update" \in Calls /\ row[i].status # Unborn /\ row[i].version <= MaxEdited[i]
    /\ pc' = [pc EXCEPT ![s] = "reading"]
    /\ call' = [call EXCEPT ![s] = [NoCall EXCEPT !.kind = "update", !.issue = i,
                                                  !.version = row[i].version, !.text = row[i].text]]
    /\ UNCHANGED <<row, starter, editors, archived, seen, cand, prefer, view, hand, moved, work>>

ReadValues(s) ==
  /\ pc[s] = "reading"
  /\ pc' = [pc EXCEPT ![s] = "drafting"]
  /\ call' = [call EXCEPT ![s].values = row[call[s].issue].values]
  /\ UNCHANGED <<row, starter, editors, archived, seen, cand, prefer, view, hand, moved, work>>

CallUpdate(s) ==
  /\ pc[s] = "drafting" /\ MayWrite(s)
  /\ pc' = [pc EXCEPT ![s] = "waiting"]
  /\ \E reason \in BOOLEAN : call' = [call EXCEPT ![s].reason = reason]
  /\ UNCHANGED <<row, starter, editors, archived, seen, cand, prefer, view, hand, moved, work>>

-----------------------------------------------------------------------------
(* The transaction of mutate. *)

\* Faulty variant: the row is read without FOR UPDATE.
NeverLocked(i) == FALSE

Locked(i) == \E t \in Sessions : pc[t] = "locked" /\ call[t].issue = i

\* The row is locked; what is read besides is of this moment (REPEATABLE READ).
LockRow(s) ==
  /\ pc[s] = "waiting" /\ ~Locked(call[s].issue)
  /\ pc' = [pc EXCEPT ![s] = "locked"]
  /\ view' = [view EXCEPT ![s] = [editors |-> editors, archived |-> archived]]
  /\ UNCHANGED <<row, starter, editors, archived, seen, cand, prefer, call, hand, moved, work>>

Cur(s) == row[call[s].issue]

\* Faulty variant: the assignee is not looked at.
NoOther(s) == FALSE

\* otherActive: assigned to somebody else who can still work.
Other(s) == /\ Cur(s).assignee \notin {Nobody, Me(s)}
            /\ Cur(s).assignee \in view[s].editors

Starting(s) == call[s].kind \in {"next", "status"} /\ call[s].to = "In Progress"

\* resolveAssignee and planAssign (R1 to R3).
Assignable(s, u) == u \notin {Nobody, Me(s)} => u \in view[s].editors

AssignAllowed(s) ==
  /\ call[s].assignee # Keep => Assignable(s, call[s].assignee)
  /\ Other(s) /\ ~call[s].reason => ~Starting(s) /\ call[s].assignee \in {Keep, Cur(s).assignee}

NewAssignee(s) ==
  IF call[s].assignee # Keep THEN call[s].assignee
  ELSE IF Starting(s) THEN Me(s) ELSE Cur(s).assignee

\* setStatus; a status is expected by next only.
StatusAllowed(s) ==
  /\ call[s].expect # NoStatus => call[s].expect = Cur(s).status /\ ~Other(s)
  /\ AssignAllowed(s)
  /\ ~(Starting(s) /\ call[s].issue \in Refused)

\* Faulty variant: the version is not looked at.
VersionIgnored(s) == TRUE

VersionFits(s) == call[s].version = Cur(s).version

UpdateAllowed(s) == VersionFits(s) /\ Cur(s).status \in Opened /\ (Other(s) => call[s].reason)

Allowed(s) ==
  /\ ~view[s].archived
  /\ CASE call[s].kind \in {"next", "status"} -> StatusAllowed(s)
       [] call[s].kind = "assign"  -> Cur(s).status \in Opened /\ AssignAllowed(s)
       [] call[s].kind = "update"  -> UpdateAllowed(s)
       [] OTHER                    -> TRUE

\* SaveDocument and SetAssignee: every change makes a version.
Saved(s) ==
  LET c == call[s]
      v == Cur(s).version + 1
  IN  [status   |-> IF c.kind \in {"next", "status"} THEN c.to ELSE Cur(s).status,
       assignee |-> NewAssignee(s),
       version  |-> v,
       text     |-> IF c.kind = "update" THEN v ELSE Cur(s).text,
       values   |-> IF c.kind = "update" THEN v ELSE Cur(s).values]

\* Given to another on purpose: taken from its assignee by a call that says so,
\* or by next from one who can no longer work, or started for somebody else.
GivenAway(s) == \/ /\ Cur(s).assignee \notin {Nobody, NewAssignee(s)}
                   /\ call[s].kind # "next" \/ Cur(s).assignee \notin view[s].editors
                \/ Starting(s) /\ NewAssignee(s) # Me(s)

HandAfter(s) == IF Starting(s) THEN call[s].issue
                ELSE IF call[s].kind = "status" /\ call[s].issue = hand[s] THEN NoIssue ELSE hand[s]

Commit(s) ==
  /\ pc[s] = "locked" /\ Allowed(s)
  /\ row' = [row EXCEPT ![call[s].issue] = Saved(s)]
  /\ starter' = IF Starting(s) THEN [starter EXCEPT ![call[s].issue] = s] ELSE starter
  /\ hand' = [hand EXCEPT ![s] = HandAfter(s)]
  /\ moved' = IF GivenAway(s) THEN moved \cup {call[s].issue} ELSE moved
  /\ pc' = [pc EXCEPT ![s] = "idle"]
  /\ call' = [call EXCEPT ![s] = NoCall]
  /\ view' = [view EXCEPT ![s] = NoView]
  /\ cand' = [cand EXCEPT ![s] = {}] /\ prefer' = [prefer EXCEPT ![s] = {}]
  /\ UNCHANGED <<editors, archived, seen, work>>

\* A conflict or a rule: nothing changes, and next tries its next candidate.
Reject(s) ==
  /\ pc[s] = "locked" /\ ~Allowed(s)
  /\ pc' = [pc EXCEPT ![s] = IF call[s].kind = "next" THEN "picking" ELSE "idle"]
  /\ call' = [call EXCEPT ![s] = NoCall]
  /\ view' = [view EXCEPT ![s] = NoView]
  /\ UNCHANGED <<row, starter, editors, archived, seen, cand, prefer, hand, moved, work>>

\* Create: numbers are given in order under the lock of the project's row.
Create(s) ==
  \E i \in Issues, to \in {"Todo", "In Progress"} :
    /\ pc[s] = "idle" /\ MayWrite(s)
    /\ row[i].status = Unborn /\ \A j \in Issues : row[j].status = Unborn => i <= j
    /\ ~(to = "In Progress" /\ i \in Refused)
    /\ row' = [row EXCEPT ![i].status = to, ![i].assignee = IF to = "In Progress" THEN Me(s) ELSE Nobody]
    /\ starter' = IF to = "In Progress" THEN [starter EXCEPT ![i] = s] ELSE starter
    /\ hand' = IF to = "In Progress" THEN [hand EXCEPT ![s] = i] ELSE hand
    /\ UNCHANGED <<editors, archived, pc, seen, cand, prefer, call, view, moved, work>>

-----------------------------------------------------------------------------
(* Administrators, one at a time. *)

Owned(u) == {i \in Issues : row[i].assignee = u /\ row[i].status \in Opened}

\* SetMembership: who leaves or becomes a viewer hands over his open issues.
Demote(u, to) ==
  /\ "member" \in Calls /\ work < MaxCalls /\ work' = work + 1
  /\ \A i \in Owned(u) : ~Locked(i)
  /\ Owned(u) # {} /\ to # Nobody => to # u /\ to \in editors
  /\ editors' = editors \ {u}
  /\ row' = [i \in Issues |-> IF i \in Owned(u) THEN [row[i] EXCEPT !.assignee = to, !.version = @ + 1] ELSE row[i]]
  /\ moved' = moved \cup Owned(u)
  /\ UNCHANGED <<starter, archived, pc, seen, cand, prefer, call, view, hand>>

Promote(u) ==
  /\ "member" \in Calls
  /\ editors' = editors \cup {u}
  /\ UNCHANGED <<row, starter, archived, pc, seen, cand, prefer, call, view, hand, moved, work>>

SetProjectArchived ==
  /\ "archive" \in Calls /\ (archived \/ work < MaxCalls)
  /\ work' = IF archived THEN work ELSE work + 1
  /\ archived' = ~archived
  /\ UNCHANGED <<row, starter, editors, pc, seen, cand, prefer, call, view, hand, moved>>

-----------------------------------------------------------------------------
CallsNext(s) == CallNext(s) \/ Resume(s) \/ ListCandidates(s) \/ TryCandidate(s) \/ FindNothing(s)
CallsOther(s) == \/ Finish(s) \/ CallStatus(s) \/ CallAssign(s) \/ CallComment(s) \/ Create(s)
                 \/ ReadRow(s) \/ ReadValues(s) \/ CallUpdate(s)
Transacts(s) == LockRow(s) \/ Commit(s) \/ Reject(s)
Administers == \/ \E u \in Users : Promote(u) \/ \E to \in Users \cup {Nobody} : Demote(u, to)
               \/ SetProjectArchived

Next == (\E s \in Sessions : CallsNext(s) \/ CallsOther(s) \/ Transacts(s)) \/ Administers

Spec == Init /\ [][Next]_vars

-----------------------------------------------------------------------------
(***************************************************************************)
(* Two AIs of different users are not told to work on one issue, unless    *)
(* it was given from one user to another on purpose: what next read        *)
(* without a transaction does not matter (rules 1, 2 and 5 of next, R1 and *)
(* R2 of the assignee).                                                    *)
(***************************************************************************)
OneUserAtWork ==
  \A s, t \in Sessions :
    hand[s] # NoIssue /\ hand[s] = hand[t] /\ hand[s] \notin moved => UserOf[s] = UserOf[t]

(***************************************************************************)
(* The same for the sessions of one user that send comparable identifiers: *)
(* what docs/server/DESIGN.md promises for two AIs that call next at once. *)
(***************************************************************************)
OneSessionAtWork ==
  \A s, t \in Sessions :
    s # t /\ Comparable(s, t) /\ hand[s] # NoIssue => hand[s] # hand[t]

(***************************************************************************)
(* No edit is lost: an edit that is accepted was made from the text and    *)
(* the lists that it replaces, although its author read the two at         *)
(* different times (the version that Update asks for).                     *)
(***************************************************************************)
NoLostEdit ==
  [][\A s \in Sessions :
       LET i == call[s].issue
       IN  pc[s] = "locked" /\ call[s].kind = "update" /\ row'[i].text # row[i].text =>
             row[i].text = call[s].text /\ row[i].values = call[s].values]_vars

(***************************************************************************)
(* Nobody is made the assignee of an issue by somebody else at a time when *)
(* he cannot work in the project (DESIGN.md 9-2, and the reason it gives   *)
(* for the replacement that SetMembership asks for).                       *)
(***************************************************************************)
AssigneesAreMembers ==
  [][\A s \in Sessions :
       LET i == call[s].issue
           u == row'[i].assignee
       IN  pc[s] = "locked" => u \in {row[i].assignee, Nobody, Me(s)} \cup editors]_vars

(***************************************************************************)
(* On SQLite the transactions that write come one after the other          *)
(* (store/sqlite.go:365): no change of members between the lock of another *)
(* transaction and its commit.                                             *)
(***************************************************************************)
MembersChangeApart == editors' # editors => \A s \in Sessions : pc[s] # "locked"
OneAfterTheOther   == [][MembersChangeApart]_vars

-----------------------------------------------------------------------------
(* The inductive invariant. *)

CallsSound ==
  \A s \in Sessions :
    pc[s] \in {"reading", "drafting", "waiting", "locked"} =>
      /\ call[s].issue \in Issues
      /\ call[s].kind \in {"next", "status"} => call[s].to # NoStatus
      /\ call[s].kind = "next" =>
           call[s].to = "In Progress" /\ call[s].assignee = Keep /\ call[s].expect # NoStatus
      /\ pc[s] \in {"reading", "drafting"} => call[s].kind = "update"

\* Nobody is told of an issue, and no call is made on one, before it is created.
Born ==
  /\ \A i \in Issues : row[i].status = Unborn => row[i].assignee = Nobody
  /\ \A s \in Sessions :
       /\ pc[s] \in {"reading", "drafting", "waiting", "locked"} => row[call[s].issue].status # Unborn
       /\ hand[s] # NoIssue => row[hand[s]].status # Unborn
       /\ \A i \in cand[s] : row[i].status # Unborn
       /\ \A i \in Issues : seen[s][i].status # Unborn => row[i].status # Unborn

OneLock ==
  \A s, t \in Sessions :
    pc[s] = "locked" /\ pc[t] = "locked" /\ call[s].issue = call[t].issue => s = t

\* While nobody gave it away, an issue stays with whom it was given to.
HandsOwn ==
  \A s \in Sessions : hand[s] \in Issues \ moved => row[hand[s]].assignee = UserOf[s]

SeenOwn ==
  \A s \in Sessions, i \in Issues :
    pc[s] = "listed" /\ seen[s][i].assignee # Nobody /\ i \notin moved =>
      row[i].assignee = seen[s][i].assignee

StartersOwn ==
  \A i \in Issues \ moved :
    row[i].status = "In Progress" /\ starter[i] # NoSession => row[i].assignee = UserOf[starter[i]]

\* What an editor read is what the row holds, or an older version.
DraftsTrue ==
  \A s \in Sessions :
    LET c == call[s]
    IN  pc[s] \in {"reading", "drafting", "waiting", "locked"} /\ c.kind = "update" =>
          /\ c.version <= row[c.issue].version
          /\ c.version = row[c.issue].version =>
               c.text = row[c.issue].text /\ (pc[s] # "reading" => c.values = row[c.issue].values)

\* Only changes of the status or the assignee name an assignee.
AsksNoAssignee ==
  \A s \in Sessions :
    pc[s] \in {"reading", "drafting", "waiting", "locked"} /\ call[s].kind \notin {"status", "assign"} =>
      call[s].assignee = Keep

\* A transaction knows the members; on SQLite only.
ViewsTrue == \A s \in Sessions : pc[s] = "locked" => view[s].editors = editors

\* All of the above holds at every moment, however calls, transactions and
\* administrators are interleaved.
IInv == TypeOK /\ CallsSound /\ Born /\ OneLock /\ HandsOwn /\ SeenOwn /\ StartersOwn /\ DraftsTrue
=============================================================================
