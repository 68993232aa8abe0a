---------------------------- MODULE IssuesProofs ----------------------------
(***************************************************************************)
(* Who works on what, and no edit lost, for any issues, users, sessions,   *)
(* rules and calls.                                                        *)
(***************************************************************************)
EXTENDS Issues, WellFoundedInduction, TLAPS

\* A call that is on its way.
Busy == {"reading", "drafting", "waiting", "locked"}

(***************************************************************************)
(* The first of some issues exists: numbers are natural.                   *)
(***************************************************************************)
LEMMA FirstIn ==
  ASSUME NEW S \in SUBSET Issues, S # {}
  PROVE  First(S) \in S
<1>1. S \subseteq Nat
  BY IssueAssumption
<1>2. OpToRel(<, Nat) = {ss \in Nat \X Nat : ss[1] < ss[2]}
  BY DEF OpToRel
<1>3. PICK i \in S : \A j \in S : ~(<<j, i>> \in OpToRel(<, Nat))
  BY <1>1, NatLessThanWellFounded, WFMin
<1>4. ASSUME NEW j \in S
      PROVE  i <= j
  <2>1. ~(<<j, i>> \in {ss \in Nat \X Nat : ss[1] < ss[2]})
    BY <1>2, <1>3
  <2>2. i \in Nat /\ j \in Nat
    BY <1>1
  <2>3. <<j, i>> \in Nat \X Nat /\ <<j, i>>[1] = j /\ <<j, i>>[2] = i
    BY <2>2
  <2>4. ~(j < i)
    BY <2>1, <2>3
  <2> QED  BY <2>2, <2>4
<1> QED  BY <1>4 DEF First

\* The candidate that next tries is one of its candidates.
LEMMA ChoiceIn ==
  ASSUME NEW s \in Sessions, TypeOK, cand[s] # {}
  PROVE  Choice(s) \in cand[s]
<1>1. cand[s] \subseteq Issues /\ cand[s] \cap prefer[s] \subseteq Issues
  BY DEF TypeOK
<1> QED  BY <1>1, FirstIn DEF Choice

\* The empty call and a call made from it are calls.
LEMMA NoCallType == NoCall \in Call
BY DEF NoCall, Call

(***************************************************************************)
(* What a change leaves in the row of its issue.                           *)
(***************************************************************************)
LEMMA SavedType ==
  ASSUME TypeOK, CallsSound, NEW s \in Sessions, pc[s] = "locked"
  PROVE  Saved(s) \in Row
<1>1. call[s] \in Call /\ call[s].issue \in Issues
  BY DEF TypeOK, CallsSound
<1>2. Cur(s) \in Row
  BY <1>1 DEF TypeOK, Cur
<1>3. NewAssignee(s) \in Users \cup {Nobody}
  BY <1>1, <1>2, SessionAssumption DEF NewAssignee, Call, Row, Me
<1>4. call[s].kind \in {"next", "status"} => call[s].to \in Opened \cup Closed
  BY <1>1 DEF CallsSound, Call
<1> QED  BY <1>2, <1>3, <1>4 DEF Saved, Row, Statuses

(***************************************************************************)
(* Every step keeps the types.                                             *)
(***************************************************************************)
LEMMA TypeStep ==
  ASSUME TypeOK, CallsSound, [Next]_vars
  PROVE  TypeOK'
<1>1. ASSUME NEW s \in Sessions, CallNext(s)
      PROVE  TypeOK'
  <2>1. [i \in Issues |-> [status |-> row[i].status, assignee |-> row[i].assignee]] \in [Issues -> Entry]
    BY DEF TypeOK, Row, Entry
  <2> QED  BY <1>1, <2>1 DEF CallNext, TypeOK
<1>2. Blank \in [Issues -> Entry]
  BY DEF Blank, Entry, Statuses
<1>3. ASSUME NEW s \in Sessions, Resume(s)
      PROVE  TypeOK'
  <2>1. Units(s) \in SUBSET Issues
    BY DEF Units
  <2>2. First(Units(s)) \in Issues
    BY <1>3, <2>1, FirstIn DEF Resume
  <2> QED  BY <1>2, <1>3, <2>2 DEF Resume, TypeOK
<1>4. ASSUME NEW s \in Sessions, ListCandidates(s)
      PROVE  TypeOK'
  <2>1. Candidates(s) \subseteq Issues
    BY DEF Candidates
  <2>2. {i \in Candidates(s) : Ancestors(i) \cap Bundles(s) # {}} \subseteq Issues
    BY <2>1
  <2> QED  BY <1>2, <1>4, <2>1, <2>2 DEF ListCandidates, TypeOK
<1>5. ASSUME NEW s \in Sessions, TryCandidate(s)
      PROVE  TypeOK'
  <2>1. Choice(s) \in Issues
    BY <1>5, ChoiceIn DEF TryCandidate, TypeOK
  <2>2. row[Choice(s)].status \in Statuses
    BY <2>1 DEF TypeOK, Row
  <2>3. [NoCall EXCEPT !.kind = "next", !.issue = Choice(s), !.to = "In Progress",
                       !.expect = row[Choice(s)].status] \in Call
    BY <2>1, <2>2 DEF NoCall, Call, Opened
  <2> QED  BY <1>5, <2>3 DEF TryCandidate, TypeOK
<1>6. ASSUME NEW s \in Sessions, FindNothing(s)
      PROVE  TypeOK'
  BY <1>6 DEF FindNothing, TypeOK
<1>7. ASSUME NEW s \in Sessions, Finish(s)
      PROVE  TypeOK'
  <2>1. hand[s] \in Issues
    BY <1>7 DEF Finish, TypeOK
  <2>2. [NoCall EXCEPT !.kind = "status", !.issue = hand[s], !.to = "Done"] \in Call
    BY <2>1 DEF NoCall, Call, Kinds, Closed
  <2> QED  BY <1>7, <2>2 DEF Finish, TypeOK
<1>8. ASSUME NEW s \in Sessions, NEW c \in Call, Begin(s, c)
      PROVE  TypeOK'
  BY <1>8 DEF Begin, TypeOK
<1>9. ASSUME NEW s \in Sessions, CallStatus(s) \/ CallAssign(s) \/ CallComment(s)
      PROVE  TypeOK'
  <2>1. ASSUME NEW i \in Issues, NEW to \in Targets, NEW a \in Users \cup {Nobody, Keep}, NEW reason \in BOOLEAN
        PROVE  [NoCall EXCEPT !.kind = "status", !.issue = i, !.to = to, !.assignee = a, !.reason = reason] \in Call
    BY CallAssumption DEF NoCall, Call, Kinds
  <2>2. ASSUME NEW i \in Issues, NEW a \in Users \cup {Nobody}, NEW reason \in BOOLEAN
        PROVE  [NoCall EXCEPT !.kind = "assign", !.issue = i, !.assignee = a, !.reason = reason] \in Call
    BY DEF NoCall, Call, Kinds
  <2>3. ASSUME NEW i \in Issues
        PROVE  [NoCall EXCEPT !.kind = "comment", !.issue = i] \in Call
    BY DEF NoCall, Call, Kinds
  <2> QED  BY <1>8, <1>9, <2>1, <2>2, <2>3 DEF CallStatus, CallAssign, CallComment
<1>10. ASSUME NEW s \in Sessions, ReadRow(s)
       PROVE  TypeOK'
  <2>1. ASSUME NEW i \in Issues
        PROVE  [NoCall EXCEPT !.kind = "update", !.issue = i, !.version = row[i].version,
                              !.text = row[i].text] \in Call
    BY DEF NoCall, Call, Kinds, TypeOK, Row
  <2> QED  BY <1>10, <2>1 DEF ReadRow, TypeOK
<1>11. ASSUME NEW s \in Sessions, ReadValues(s) \/ CallUpdate(s)
       PROVE  TypeOK'
  <2>1. ReadValues(s) => row[call[s].issue].values \in Nat
    BY DEF ReadValues, CallsSound, TypeOK, Row
  <2>2. call[s] \in Call
    BY DEF TypeOK
  <2>3. ASSUME NEW n \in Nat
        PROVE  [call[s] EXCEPT !.values = n] \in Call
    BY <2>2 DEF Call
  <2>4. ASSUME NEW reason \in BOOLEAN
        PROVE  [call[s] EXCEPT !.reason = reason] \in Call
    BY <2>2 DEF Call
  <2>5. CASE ReadValues(s)
    <3>1. call' = [call EXCEPT ![s] = [call[s] EXCEPT !.values = row[call[s].issue].values]]
      BY <2>5 DEF ReadValues
    <3>2. call' \in [Sessions -> Call]
      BY <2>1, <2>3, <2>5, <3>1 DEF TypeOK
    <3> QED  BY <2>5, <3>2 DEF ReadValues, TypeOK
  <2>6. CASE CallUpdate(s)
    <3>1. PICK reason \in BOOLEAN : call' = [call EXCEPT ![s] = [call[s] EXCEPT !.reason = reason]]
      BY <2>6 DEF CallUpdate
    <3>2. call' \in [Sessions -> Call]
      BY <2>4, <3>1 DEF TypeOK
    <3> QED  BY <2>6, <3>2 DEF CallUpdate, TypeOK
  <2> QED  BY <1>11, <2>5, <2>6
<1>12. ASSUME NEW s \in Sessions, LockRow(s)
       PROVE  TypeOK'
  BY <1>12 DEF LockRow, TypeOK, View
<1>13. NoView \in View
  BY DEF NoView, View
<1>14. ASSUME NEW s \in Sessions, Commit(s)
       PROVE  TypeOK'
  <2>1. Saved(s) \in Row
    BY <1>14, SavedType DEF Commit
  <2>2. call[s].issue \in Issues
    BY <1>14 DEF Commit, CallsSound
  <2>3. HandAfter(s) \in Issues \cup {NoIssue}
    BY <2>2 DEF HandAfter, TypeOK
  <2>4. row' \in [Issues -> Row] /\ hand' \in [Sessions -> Issues \cup {NoIssue}]
    BY <1>14, <2>1, <2>3 DEF Commit, TypeOK
  <2>5. starter' \in [Issues -> Sessions \cup {NoSession}] /\ moved' \subseteq Issues
    BY <1>14, <2>2 DEF Commit, TypeOK
  <2> QED  BY <1>13, <1>14, <2>4, <2>5, NoCallType DEF Commit, TypeOK
<1>15. ASSUME NEW s \in Sessions, Reject(s)
       PROVE  TypeOK'
  BY <1>13, <1>15, NoCallType DEF Reject, TypeOK
<1>16. ASSUME NEW s \in Sessions, Create(s)
       PROVE  TypeOK'
  <2>1. PICK i \in Issues, to \in {"Todo", "In Progress"} :
          /\ row' = [row EXCEPT ![i].status = to, ![i].assignee = IF to = "In Progress" THEN Me(s) ELSE Nobody]
          /\ starter' = IF to = "In Progress" THEN [starter EXCEPT ![i] = s] ELSE starter
          /\ hand' = IF to = "In Progress" THEN [hand EXCEPT ![s] = i] ELSE hand
          /\ UNCHANGED <<editors, archived, pc, seen, cand, prefer, call, view, moved, work>>
    BY <1>16 DEF Create
  <2>2. Me(s) \in Users
    BY SessionAssumption DEF Me
  <2>3. ASSUME NEW a \in Users \cup {Nobody}
        PROVE  [[row[i] EXCEPT !.status = to] EXCEPT !.assignee = a] \in Row
    <3>1. row[i] \in Row /\ to \in Statuses
      BY DEF TypeOK, Statuses, Opened
    <3> QED  BY <3>1 DEF Row
  <2>4. PICK a \in Users \cup {Nobody} : row' = [row EXCEPT ![i] = [[row[i] EXCEPT !.status = to] EXCEPT !.assignee = a]]
    BY <2>1, <2>2 DEF TypeOK
  <2>5. row' \in [Issues -> Row]
    BY <2>3, <2>4 DEF TypeOK
  <2> QED  BY <2>1, <2>5 DEF TypeOK
<1>17. ASSUME NEW u \in Users, NEW to \in Users \cup {Nobody}, Demote(u, to)
       PROVE  TypeOK'
  <2>1. ASSUME NEW i \in Issues
        PROVE  [row[i] EXCEPT !.assignee = to, !.version = @ + 1] \in Row
    <3>1. row[i] \in Row
      BY DEF TypeOK
    <3>2. row[i].version + 1 \in Nat
      BY <3>1 DEF Row
    <3>3. [row[i] EXCEPT !.assignee = to] \in Row
      BY <3>1 DEF Row
    <3> QED  BY <3>2, <3>3 DEF Row
  <2>2. row' \in [Issues -> Row]
    BY <1>17, <2>1 DEF Demote, TypeOK
  <2>3. Owned(u) \subseteq Issues
    BY DEF Owned
  <2>4. editors' \subseteq Users /\ moved' \subseteq Issues /\ work' \in Nat
    <3>1. editors' = editors \ {u} /\ moved' = moved \cup Owned(u) /\ work' = work + 1
      BY <1>17, Zenon DEF Demote
    <3> QED  BY <2>3, <3>1 DEF TypeOK
  <2> QED  BY <1>17, <2>2, <2>4 DEF Demote, TypeOK
<1>18. ASSUME NEW u \in Users, Promote(u)
       PROVE  TypeOK'
  BY <1>18 DEF Promote, TypeOK
<1>19. CASE SetProjectArchived
  BY <1>19 DEF SetProjectArchived, TypeOK
<1>20. CASE UNCHANGED vars
  BY <1>20 DEF vars, TypeOK
<1> QED
  BY <1>1, <1>3, <1>4, <1>5, <1>6, <1>7, <1>9, <1>10, <1>11, <1>12, <1>14, <1>15, <1>16, <1>17, <1>18, <1>19, <1>20
  DEF Next, CallsNext, CallsOther, Transacts, Administers

\* What a session does leaves the calls of the others alone.
LEMMA OthersCalls ==
  ASSUME TypeOK, NEW s \in Sessions, CallsNext(s) \/ CallsOther(s) \/ Transacts(s), NEW t \in Sessions, t # s
  PROVE  pc'[t] = pc[t] /\ call'[t] = call[t]
<1>1. CASE CallNext(s) \/ Resume(s) \/ ListCandidates(s) \/ TryCandidate(s) \/ FindNothing(s)
  BY <1>1 DEF CallNext, Resume, ListCandidates, TryCandidate, FindNothing, TypeOK
<1>2. CASE Finish(s) \/ CallStatus(s) \/ CallAssign(s) \/ CallComment(s)
  BY <1>2 DEF Finish, CallStatus, CallAssign, CallComment, Begin, TypeOK
<1>3. CASE Create(s) \/ ReadRow(s) \/ ReadValues(s)
  BY <1>3 DEF Create, ReadRow, ReadValues, TypeOK
<1>4. CASE CallUpdate(s) \/ LockRow(s) \/ Commit(s) \/ Reject(s)
  BY <1>4 DEF CallUpdate, LockRow, Commit, Reject, TypeOK
<1> QED  BY <1>1, <1>2, <1>3, <1>4 DEF CallsNext, CallsOther, Transacts

\* The calls of nobody change in any other step.
LEMMA QuietCalls ==
  ASSUME [Next]_vars, ~\E s \in Sessions : CallsNext(s) \/ CallsOther(s) \/ Transacts(s)
  PROVE  pc' = pc /\ call' = call
BY DEF Next, Administers, Demote, Promote, SetProjectArchived, vars

(***************************************************************************)
(* How a call comes to be on its way: it was so before and at most the row *)
(* was locked, or the session has just made it.                            *)
(***************************************************************************)
LEMMA BusyCalls ==
  ASSUME TypeOK, [Next]_vars, NEW t \in Sessions, pc'[t] \in Busy
  PROVE  \/ /\ pc[t] \in Busy /\ call'[t] = call[t]
            /\ pc'[t] = pc[t] \/ LockRow(t)
         \/ TryCandidate(t) /\ cand[t] # {} /\ Choice(t) \notin Refused
         \/ Finish(t) \/ CallStatus(t) \/ CallAssign(t) \/ CallComment(t)
         \/ ReadRow(t) \/ ReadValues(t) \/ CallUpdate(t)
<1>1. CASE ~\E s \in Sessions : CallsNext(s) \/ CallsOther(s) \/ Transacts(s)
  BY <1>1, QuietCalls
<1>2. ASSUME NEW s \in Sessions, CallsNext(s) \/ CallsOther(s) \/ Transacts(s), s # t
      PROVE  pc'[t] = pc[t] /\ call'[t] = call[t]
  BY <1>2, OthersCalls
<1>3. CASE CallsNext(t)
  <2>1. ~(CallNext(t) \/ Resume(t) \/ ListCandidates(t) \/ FindNothing(t))
    BY DEF CallNext, Resume, ListCandidates, FindNothing, TypeOK, Busy
  <2>2. TryCandidate(t)
    BY <1>3, <2>1 DEF CallsNext
  <2>3. Choice(t) \notin Refused
    BY <2>2 DEF TryCandidate, TypeOK, Busy
  <2> QED  BY <2>2, <2>3 DEF TryCandidate
<1>4. CASE CallsOther(t)
  <2>1. Create(t) => pc'[t] = "idle"
    BY DEF Create
  <2> QED  BY <1>4, <2>1 DEF CallsOther, Busy
<1>5. CASE Transacts(t)
  <2>1. ~(Commit(t) \/ Reject(t))
    BY DEF Commit, Reject, TypeOK, Busy
  <2>2. LockRow(t)
    BY <1>5, <2>1 DEF Transacts
  <2> QED  BY <2>2 DEF LockRow, Busy
<1> QED  BY <1>1, <1>2, <1>3, <1>4, <1>5

(***************************************************************************)
(* Every step keeps the calls sound.                                       *)
(***************************************************************************)
LEMMA SoundStep ==
  ASSUME TypeOK, CallsSound, [Next]_vars
  PROVE  CallsSound'
<1> SUFFICES ASSUME NEW t \in Sessions, pc'[t] \in Busy
             PROVE  /\ call'[t].issue \in Issues
                    /\ call'[t].kind \in {"next", "status"} => call'[t].to # NoStatus
                    /\ call'[t].kind = "next" =>
                         /\ call'[t].to = "In Progress" /\ call'[t].assignee = Keep
                         /\ call'[t].expect # NoStatus
                    /\ pc'[t] \in {"reading", "drafting"} => call'[t].kind = "update"
  BY DEF CallsSound, Busy
<1>1. CASE pc[t] \in Busy /\ call'[t] = call[t] /\ (pc'[t] = pc[t] \/ LockRow(t))
  BY <1>1 DEF CallsSound, Busy, LockRow, TypeOK
<1>2. CASE TryCandidate(t) /\ cand[t] # {} /\ Choice(t) \notin Refused
  <2>1. Choice(t) \in Issues
    BY <1>2, ChoiceIn DEF TypeOK
  <2>2. row[Choice(t)].status \in Statuses
    BY <2>1 DEF TypeOK, Row
  <2>3. call'[t] = [NoCall EXCEPT !.kind = "next", !.issue = Choice(t), !.to = "In Progress",
                                 !.expect = row[Choice(t)].status] /\ pc'[t] = "waiting"
    BY <1>2 DEF TryCandidate, TypeOK
  <2> QED  BY <2>1, <2>2, <2>3 DEF NoCall, NoStatus, Statuses, Opened, Closed, Unborn
<1>3. CASE Finish(t)
  <2>1. hand[t] \in Issues
    BY <1>3 DEF Finish, TypeOK
  <2>2. call'[t] = [NoCall EXCEPT !.kind = "status", !.issue = hand[t], !.to = "Done"] /\ pc'[t] = "waiting"
    BY <1>3 DEF Finish, TypeOK
  <2> QED  BY <2>1, <2>2 DEF NoCall, NoStatus
<1>4. ASSUME NEW c, Begin(t, c)
      PROVE  call'[t] = c /\ pc'[t] = "waiting"
  BY <1>4 DEF Begin, TypeOK
<1>5. CASE CallStatus(t)
  <2>1. PICK i \in Issues, to \in Targets, a \in Users \cup {Nobody, Keep}, reason \in BOOLEAN :
          Begin(t, [NoCall EXCEPT !.kind = "status", !.issue = i, !.to = to, !.assignee = a, !.reason = reason])
    BY <1>5 DEF CallStatus
  <2>2. /\ call'[t] = [NoCall EXCEPT !.kind = "status", !.issue = i, !.to = to, !.assignee = a, !.reason = reason]
        /\ pc'[t] = "waiting"
    BY <1>4, <2>1
  <2>3. to # NoStatus
    BY CallAssumption DEF NoStatus, Opened, Closed
  <2> QED  BY <2>2, <2>3 DEF NoCall
<1>6. CASE CallAssign(t) \/ CallComment(t)
  <2>1. CASE CallAssign(t)
    <3>1. PICK i \in Issues, a \in Users \cup {Nobody}, reason \in BOOLEAN :
            Begin(t, [NoCall EXCEPT !.kind = "assign", !.issue = i, !.assignee = a, !.reason = reason])
      BY <2>1 DEF CallAssign
    <3>2. /\ call'[t] = [NoCall EXCEPT !.kind = "assign", !.issue = i, !.assignee = a, !.reason = reason]
          /\ pc'[t] = "waiting"
      BY <1>4, <3>1
    <3> QED  BY <3>2 DEF NoCall
  <2>2. CASE CallComment(t)
    <3>1. PICK i \in Issues : Begin(t, [NoCall EXCEPT !.kind = "comment", !.issue = i])
      BY <2>2 DEF CallComment
    <3>2. call'[t] = [NoCall EXCEPT !.kind = "comment", !.issue = i] /\ pc'[t] = "waiting"
      BY <1>4, <3>1
    <3> QED  BY <3>2 DEF NoCall
  <2> QED  BY <1>6, <2>1, <2>2
<1>7. CASE ReadRow(t)
  <2>1. PICK i \in Issues : call'[t].issue = i /\ call'[t].kind = "update"
    BY <1>7 DEF ReadRow, NoCall, TypeOK
  <2> QED  BY <2>1
<1>8. CASE ReadValues(t) \/ CallUpdate(t)
  <2>1. pc[t] \in {"reading", "drafting"}
    BY <1>8 DEF ReadValues, CallUpdate
  <2>2. call[t].issue \in Issues /\ call[t].kind = "update"
    BY <2>1 DEF CallsSound
  <2>3. call[t] \in Call
    BY DEF TypeOK
  <2>4. call'[t].issue = call[t].issue /\ call'[t].kind = call[t].kind
    BY <1>8, <2>3 DEF ReadValues, CallUpdate, TypeOK, Call
  <2> QED  BY <2>2, <2>4
<1> QED  BY <1>1, <1>2, <1>3, <1>5, <1>6, <1>7, <1>8, BusyCalls

(***************************************************************************)
(* At most one transaction holds the row of an issue.                      *)
(***************************************************************************)
LEMMA LockStep ==
  ASSUME TypeOK, OneLock, [Next]_vars
  PROVE  OneLock'
<1>1. ASSUME NEW t \in Sessions, pc'[t] = "locked", ~LockRow(t)
      PROVE  pc[t] = "locked" /\ call'[t] = call[t]
  <2>1. ~(Finish(t) \/ CallStatus(t) \/ CallAssign(t) \/ CallComment(t))
    BY <1>1 DEF Finish, CallStatus, CallAssign, CallComment, Begin, TypeOK
  <2>2. ~(TryCandidate(t) /\ cand[t] # {} /\ Choice(t) \notin Refused) /\ ~ReadRow(t) /\ ~ReadValues(t) /\ ~CallUpdate(t)
    BY <1>1 DEF TryCandidate, ReadRow, ReadValues, CallUpdate, TypeOK
  <2> QED  BY <1>1, <2>1, <2>2, BusyCalls DEF Busy
<1>2. ASSUME NEW s \in Sessions, LockRow(s), NEW t \in Sessions, t # s, pc'[t] = "locked"
      PROVE  call'[t].issue # call'[s].issue
  <2>1. pc[t] = "locked" /\ call' = call
    BY <1>2 DEF LockRow, TypeOK
  <2> QED  BY <1>2, <2>1 DEF LockRow, Locked
<1> QED  BY <1>1, <1>2 DEF OneLock

(***************************************************************************)
(* The steps that change rows, what next has read, or who works on what;   *)
(* every other step leaves all of it alone.                                *)
(***************************************************************************)
LEMMA Movers ==
  ASSUME TypeOK, [Next]_vars
  PROVE  \/ \E s \in Sessions : CallNext(s) \/ Resume(s) \/ ListCandidates(s) \/ Commit(s) \/ Create(s)
         \/ \E u \in Users, to \in Users \cup {Nobody} : Demote(u, to)
         \/ /\ UNCHANGED <<row, starter, hand, moved, seen>>
            /\ \A t \in Sessions : cand'[t] \subseteq cand[t] /\ (pc'[t] = "listed" => pc[t] = "listed")
<1> DEFINE Quiet == /\ UNCHANGED <<row, starter, hand, moved, seen>>
                    /\ \A t \in Sessions : cand'[t] \subseteq cand[t] /\ (pc'[t] = "listed" => pc[t] = "listed")
<1>1. ASSUME NEW s \in Sessions, TryCandidate(s) \/ FindNothing(s) \/ Finish(s) \/ ReadRow(s)
      PROVE  Quiet
  <2>1. CASE TryCandidate(s)
    <3>1. cand' = [cand EXCEPT ![s] = cand[s] \ {Choice(s)}]
      BY <2>1 DEF TryCandidate
    <3>2. \A t \in Sessions : cand'[t] \subseteq cand[t]
      BY <3>1 DEF TypeOK
    <3>3. UNCHANGED <<row, starter, hand, moved, seen>>
      BY <2>1 DEF TryCandidate
    <3>4. \A t \in Sessions : pc'[t] = "listed" => pc[t] = "listed"
      BY <2>1 DEF TryCandidate, TypeOK
    <3> QED  BY <3>2, <3>3, <3>4
  <2>2. CASE FindNothing(s) \/ Finish(s) \/ ReadRow(s)
    BY <2>2 DEF FindNothing, Finish, ReadRow, TypeOK
  <2> QED  BY <1>1, <2>1, <2>2
<1>2. ASSUME NEW s \in Sessions, CallStatus(s) \/ CallAssign(s) \/ CallComment(s)
      PROVE  Quiet
  BY <1>2 DEF CallStatus, CallAssign, CallComment, Begin, TypeOK
<1>3. ASSUME NEW s \in Sessions, ReadValues(s) \/ CallUpdate(s) \/ LockRow(s) \/ Reject(s)
      PROVE  Quiet
  BY <1>3 DEF ReadValues, CallUpdate, LockRow, Reject, TypeOK
<1>4. ASSUME NEW u \in Users, Promote(u)
      PROVE  Quiet
  BY <1>4 DEF Promote
<1>5. CASE SetProjectArchived \/ UNCHANGED vars
  BY <1>5 DEF SetProjectArchived, vars
<1> QED  BY <1>1, <1>2, <1>3, <1>4, <1>5 DEF Next, CallsNext, CallsOther, Transacts, Administers

(***************************************************************************)
(* What the creation of an issue leaves.                                   *)
(***************************************************************************)
LEMMA Created ==
  ASSUME TypeOK, NEW s \in Sessions, Create(s)
  PROVE  \E i \in Issues :
           /\ row[i].status = Unborn
           /\ \A j \in Issues \ {i} : row'[j] = row[j]
           /\ UNCHANGED <<pc, seen, cand, call, moved>>
           /\ \/ /\ row'[i].status = "In Progress" /\ row'[i].assignee = UserOf[s]
                 /\ starter' = [starter EXCEPT ![i] = s] /\ hand' = [hand EXCEPT ![s] = i]
              \/ row'[i].status = "Todo" /\ UNCHANGED <<starter, hand>>
           /\ row'[i].version = row[i].version /\ row'[i].text = row[i].text /\ row'[i].values = row[i].values
<1>1. PICK i \in Issues, to \in {"Todo", "In Progress"} :
        /\ row[i].status = Unborn
        /\ row' = [row EXCEPT ![i].status = to, ![i].assignee = IF to = "In Progress" THEN Me(s) ELSE Nobody]
        /\ starter' = IF to = "In Progress" THEN [starter EXCEPT ![i] = s] ELSE starter
        /\ hand' = IF to = "In Progress" THEN [hand EXCEPT ![s] = i] ELSE hand
        /\ UNCHANGED <<editors, archived, pc, seen, cand, prefer, call, view, moved, work>>
  BY DEF Create
<1>2. row[i] \in Row
  BY DEF TypeOK
<1>3. /\ row'[i].status = to /\ row'[i].assignee = IF to = "In Progress" THEN Me(s) ELSE Nobody
      /\ row'[i].version = row[i].version /\ row'[i].text = row[i].text /\ row'[i].values = row[i].values
  BY <1>1, <1>2 DEF TypeOK, Row
<1>4. \A j \in Issues \ {i} : row'[j] = row[j]
  BY <1>1 DEF TypeOK
<1>5. CASE to = "In Progress"
  BY <1>1, <1>3, <1>4, <1>5 DEF Me
<1>6. CASE to = "Todo"
  BY <1>1, <1>3, <1>4, <1>6
<1> QED  BY <1>5, <1>6

(***************************************************************************)
(* What a change of the members leaves of each row.                        *)
(***************************************************************************)
LEMMA Demoted ==
  ASSUME TypeOK, NEW u \in Users, NEW to \in Users \cup {Nobody}, Demote(u, to), NEW i \in Issues
  PROVE  /\ row'[i].status = row[i].status /\ row'[i].text = row[i].text /\ row'[i].values = row[i].values
         /\ row'[i] = row[i] \/ (/\ row[i].status # Unborn /\ i \in moved' /\ row'[i].version = row[i].version + 1)
         /\ moved \subseteq moved' /\ UNCHANGED <<starter, pc, seen, cand, call, hand>>
<1>1. row[i] \in Row
  BY DEF TypeOK
<1>2. /\ row' = [j \in Issues |-> IF j \in Owned(u) THEN [row[j] EXCEPT !.assignee = to, !.version = @ + 1] ELSE row[j]]
      /\ moved' = moved \cup Owned(u) /\ UNCHANGED <<starter, pc, seen, cand, call, hand>>
  BY DEF Demote
<1>3. CASE i \in Owned(u)
  <2>1. row[i].status # Unborn
    BY <1>3 DEF Owned, Opened, Unborn
  <2>2. row'[i] = [row[i] EXCEPT !.assignee = to, !.version = @ + 1]
    BY <1>2, <1>3
  <2>3. /\ row'[i].status = row[i].status /\ row'[i].text = row[i].text /\ row'[i].values = row[i].values
        /\ row'[i].version = row[i].version + 1
    BY <1>1, <2>2 DEF Row
  <2> QED  BY <1>2, <1>3, <2>1, <2>3
<1>4. CASE i \notin Owned(u)
  BY <1>2, <1>4
<1> QED  BY <1>3, <1>4

(***************************************************************************)
(* A commit writes one row.                                                *)
(***************************************************************************)
LEMMA Committed ==
  ASSUME TypeOK, CallsSound, NEW s \in Sessions, Commit(s)
  PROVE  /\ call[s].issue \in Issues
         /\ row'[call[s].issue] = Saved(s)
         /\ \A j \in Issues \ {call[s].issue} : row'[j] = row[j]
         /\ \A t \in Sessions : cand'[t] \subseteq cand[t] /\ (pc'[t] = "listed" => pc[t] = "listed")
         /\ UNCHANGED seen
<1>1. call[s].issue \in Issues
  BY DEF Commit, CallsSound
<1> QED  BY <1>1 DEF Commit, TypeOK

\* The row that it writes.
LEMMA Wrote ==
  ASSUME TypeOK, CallsSound, NEW s \in Sessions, Commit(s), NEW i, i = call[s].issue
  PROVE  /\ row'[i].status = IF call[s].kind \in {"next", "status"} THEN call[s].to ELSE row[i].status
         /\ row'[i].assignee = NewAssignee(s)
         /\ row'[i].version = row[i].version + 1
         /\ call[s].kind # "update" => row'[i].text = row[i].text
<1>1. row'[call[s].issue] = Saved(s)
  BY Committed
<1>2. /\ Saved(s).status = IF call[s].kind \in {"next", "status"} THEN call[s].to ELSE row[call[s].issue].status
      /\ Saved(s).assignee = NewAssignee(s)
      /\ Saved(s).version = row[call[s].issue].version + 1
      /\ call[s].kind # "update" => Saved(s).text = row[call[s].issue].text
  BY DEF Saved, Cur
<1> QED  BY <1>1, <1>2

(***************************************************************************)
(* An issue that has been created stays so.                                *)
(***************************************************************************)
LEMMA StaysBorn ==
  ASSUME TypeOK, CallsSound, Born, [Next]_vars, NEW i \in Issues
  PROVE  /\ row[i].status # Unborn => row'[i].status # Unborn
         /\ row'[i].status = Unborn => row'[i].assignee = Nobody
<1>1. ASSUME NEW s \in Sessions, Commit(s), i = call[s].issue
      PROVE  row'[i].status # Unborn
  <2>1. row'[i].status = IF call[s].kind \in {"next", "status"} THEN call[s].to ELSE row[i].status
    BY <1>1, Wrote
  <2>2. pc[s] = "locked" /\ row[i].status # Unborn
    BY <1>1 DEF Commit, Born
  <2>3. call[s].kind \in {"next", "status"} => call[s].to \in Opened \cup Closed
    BY <2>2 DEF CallsSound, TypeOK, Call
  <2> QED  BY <2>1, <2>2, <2>3 DEF Opened, Closed, Unborn
<1>2. ASSUME NEW s \in Sessions, Commit(s), i # call[s].issue
      PROVE  row'[i] = row[i]
  BY <1>2, Committed
<1>3. ASSUME NEW s \in Sessions, Create(s)
      PROVE  row'[i].status # Unborn \/ row'[i] = row[i]
  <2>1. PICK j \in Issues : /\ \A k \in Issues \ {j} : row'[k] = row[k]
                            /\ row'[j].status \in {"Todo", "In Progress"}
    BY <1>3, Created
  <2> QED  BY <2>1 DEF Unborn
<1>4. ASSUME NEW s \in Sessions, Create(s), row[i].status # Unborn
      PROVE  row'[i] = row[i]
  BY <1>4, Created
<1>5. ASSUME NEW u \in Users, NEW to \in Users \cup {Nobody}, Demote(u, to)
      PROVE  row'[i].status = row[i].status /\ (row[i].status = Unborn => row'[i] = row[i])
  BY <1>5, Demoted
<1>6. ASSUME NEW s \in Sessions, CallNext(s) \/ Resume(s) \/ ListCandidates(s)
      PROVE  row' = row
  BY <1>6 DEF CallNext, Resume, ListCandidates
<1> QED  BY <1>1, <1>2, <1>3, <1>4, <1>5, <1>6, Movers DEF Born

(***************************************************************************)
(* No issue, seen or called or given, goes back to before its creation.    *)
(***************************************************************************)
LEMMA BornStep ==
  ASSUME TypeOK, CallsSound, Born, [Next]_vars
  PROVE  Born'
<1>1. ASSUME NEW t \in Sessions, pc'[t] \in Busy
      PROVE  call'[t].issue \in Issues /\ row[call'[t].issue].status # Unborn
  <2>1. CASE pc[t] \in Busy /\ call'[t] = call[t]
    BY <2>1 DEF Born, CallsSound, Busy
  <2>2. CASE TryCandidate(t) /\ cand[t] # {} /\ Choice(t) \notin Refused
    <3>1. Choice(t) \in cand[t]
      BY <2>2, ChoiceIn
    <3>2. call'[t].issue = Choice(t)
      BY <2>2 DEF TryCandidate, TypeOK, NoCall
    <3> QED  BY <3>1, <3>2 DEF Born, TypeOK
  <2>3. CASE Finish(t)
    <3>1. call'[t].issue = hand[t] /\ hand[t] # NoIssue
      BY <2>3 DEF Finish, TypeOK, NoCall
    <3> QED  BY <3>1 DEF Born, TypeOK
  <2>4. ASSUME NEW c, Begin(t, c)
        PROVE  call'[t] = c /\ row[c.issue].status # Unborn
    BY <2>4 DEF Begin, TypeOK
  <2>5. CASE CallStatus(t)
    <3>1. PICK i \in Issues, to \in Targets, a \in Users \cup {Nobody, Keep}, reason \in BOOLEAN :
            Begin(t, [NoCall EXCEPT !.kind = "status", !.issue = i, !.to = to, !.assignee = a, !.reason = reason])
      BY <2>5 DEF CallStatus
    <3>2. [NoCall EXCEPT !.kind = "status", !.issue = i, !.to = to, !.assignee = a, !.reason = reason].issue = i
      BY DEF NoCall
    <3> QED  BY <2>4, <3>1, <3>2
  <2>6. CASE CallAssign(t)
    <3>1. PICK i \in Issues, a \in Users \cup {Nobody}, reason \in BOOLEAN :
            Begin(t, [NoCall EXCEPT !.kind = "assign", !.issue = i, !.assignee = a, !.reason = reason])
      BY <2>6 DEF CallAssign
    <3>2. [NoCall EXCEPT !.kind = "assign", !.issue = i, !.assignee = a, !.reason = reason].issue = i
      BY DEF NoCall
    <3> QED  BY <2>4, <3>1, <3>2
  <2>7. CASE CallComment(t)
    <3>1. PICK i \in Issues : Begin(t, [NoCall EXCEPT !.kind = "comment", !.issue = i])
      BY <2>7 DEF CallComment
    <3>2. [NoCall EXCEPT !.kind = "comment", !.issue = i].issue = i
      BY DEF NoCall
    <3> QED  BY <2>4, <3>1, <3>2
  <2>8. CASE ReadRow(t)
    BY <2>8 DEF ReadRow, NoCall, TypeOK
  <2>9. CASE ReadValues(t) \/ CallUpdate(t)
    <3>1. pc[t] \in Busy
      BY <2>9 DEF ReadValues, CallUpdate, Busy
    <3>2. call[t] \in Call
      BY DEF TypeOK
    <3>3. call'[t].issue = call[t].issue
      BY <2>9, <3>2 DEF ReadValues, CallUpdate, TypeOK, Call
    <3> QED  BY <3>1, <3>3 DEF Born, CallsSound, Busy
  <2> QED  BY <1>1, <2>1, <2>2, <2>3, <2>5, <2>6, <2>7, <2>8, <2>9, BusyCalls
<1>2. ASSUME NEW t \in Sessions, hand'[t] # NoIssue
      PROVE  row'[hand'[t]].status # Unborn
  <2>1. CASE hand'[t] = hand[t]
    BY <1>2, <2>1, StaysBorn DEF Born, TypeOK
  <2>2. ASSUME NEW s \in Sessions, Resume(s), hand'[t] # hand[t]
        PROVE  row[hand'[t]].status # Unborn /\ hand'[t] \in Issues
    <3>1. Units(s) # {} /\ Units(s) \in SUBSET Issues
      BY <2>2 DEF Resume, Units
    <3>2. First(Units(s)) \in Units(s)
      BY <3>1, FirstIn
    <3>3. hand'[t] = First(Units(s))
      BY <2>2 DEF Resume, TypeOK
    <3>4. seen[s][hand'[t]].status # Unborn /\ hand'[t] \in Issues
      BY <3>2, <3>3 DEF Units, Mine, Unborn
    <3> QED  BY <3>4 DEF Born
  <2>3. ASSUME NEW s \in Sessions, CallNext(s) \/ ListCandidates(s)
        PROVE  hand'[t] \in {hand[t], NoIssue}
    BY <2>3 DEF CallNext, ListCandidates, TypeOK
  <2>4. ASSUME NEW s \in Sessions, Commit(s)
        PROVE  hand'[t] \in {hand[t], NoIssue, call[s].issue}
    BY <2>4 DEF Commit, HandAfter, TypeOK
  <2>5. ASSUME NEW s \in Sessions, Commit(s)
        PROVE  call[s].issue \in Issues /\ row[call[s].issue].status # Unborn
    BY <2>5 DEF Commit, CallsSound, Born
  <2>6. ASSUME NEW s \in Sessions, Create(s), hand'[t] # hand[t]
        PROVE  row'[hand'[t]].status # Unborn
    <3>1. PICK i \in Issues :
            /\ row'[i].status \in {"In Progress", "Todo"}
            /\ hand' = [hand EXCEPT ![s] = i] \/ hand' = hand
      BY <2>6, Created
    <3>2. hand'[t] = i
      BY <2>6, <3>1 DEF TypeOK
    <3> QED  BY <3>1, <3>2 DEF Unborn
  <2>7. ASSUME NEW u \in Users, NEW to \in Users \cup {Nobody}, Demote(u, to)
        PROVE  hand' = hand
    BY <2>7 DEF Demote
  <2> QED  BY <1>2, <2>1, <2>2, <2>3, <2>4, <2>5, <2>6, <2>7, Movers, StaysBorn
<1>3. ASSUME NEW t \in Sessions, NEW i \in cand'[t]
      PROVE  i \in Issues /\ row[i].status # Unborn
  <2>1. CASE i \in cand[t]
    BY <2>1 DEF Born, TypeOK
  <2>2. ASSUME NEW s \in Sessions, ListCandidates(s), i \notin cand[t]
        PROVE  i \in Issues /\ row[i].status # Unborn
    <3>1. i \in Candidates(s)
      BY <1>3, <2>2 DEF ListCandidates, TypeOK
    <3>2. i \in Issues /\ seen[s][i].status # Unborn
      BY <3>1 DEF Candidates, Unborn
    <3> QED  BY <3>2 DEF Born
  <2>3. ASSUME NEW s \in Sessions, CallNext(s) \/ Resume(s)
        PROVE  cand' = cand
    BY <2>3 DEF CallNext, Resume
  <2>4. ASSUME NEW s \in Sessions, Commit(s)
        PROVE  cand'[t] \subseteq cand[t]
    BY <2>4, Committed
  <2>5. ASSUME NEW s \in Sessions, Create(s)
        PROVE  cand' = cand
    BY <2>5 DEF Create
  <2>6. ASSUME NEW u \in Users, NEW to \in Users \cup {Nobody}, Demote(u, to)
        PROVE  cand' = cand
    BY <2>6 DEF Demote
  <2> QED  BY <1>3, <2>1, <2>2, <2>3, <2>4, <2>5, <2>6, Movers
<1>4. ASSUME NEW t \in Sessions, NEW i \in Issues, seen'[t][i].status # Unborn
      PROVE  row[i].status # Unborn
  <2>1. CASE seen'[t][i] = seen[t][i]
    BY <1>4, <2>1 DEF Born
  <2>2. ASSUME NEW s \in Sessions, CallNext(s), seen'[t][i] # seen[t][i]
        PROVE  row[i].status # Unborn
    BY <1>4, <2>2 DEF CallNext, TypeOK
  <2>3. ASSUME NEW s \in Sessions, Resume(s) \/ ListCandidates(s)
        PROVE  seen'[t][i] = seen[t][i]
    <3>1. seen' = [seen EXCEPT ![s] = Blank]
      BY <2>3 DEF Resume, ListCandidates
    <3>2. Blank[i].status = Unborn
      BY DEF Blank
    <3>3. t # s
      BY <1>4, <3>1, <3>2 DEF TypeOK
    <3> QED  BY <3>1, <3>3 DEF TypeOK
  <2>4. ASSUME NEW s \in Sessions, Commit(s) \/ Create(s)
        PROVE  seen' = seen
    BY <2>4 DEF Commit, Create
  <2>5. ASSUME NEW u \in Users, NEW to \in Users \cup {Nobody}, Demote(u, to)
        PROVE  seen' = seen
    BY <2>5 DEF Demote
  <2> QED  BY <2>1, <2>2, <2>3, <2>4, <2>5, Movers
<1>5. \A i \in Issues : row'[i].status = Unborn => row'[i].assignee = Nobody
  BY StaysBorn
<1>6. \A i \in Issues : row[i].status # Unborn => row'[i].status # Unborn
  BY StaysBorn
<1> QED  BY <1>1, <1>2, <1>3, <1>4, <1>5, <1>6 DEF Born, Busy

(***************************************************************************)
(* While nobody gives an issue away, it stays with whom it is assigned to. *)
(***************************************************************************)
LEMMA Kept ==
  ASSUME TypeOK, CallsSound, Born, [Next]_vars, NEW i \in Issues, i \notin moved', row[i].assignee # Nobody
  PROVE  row'[i].assignee = row[i].assignee
<1>1. ASSUME NEW s \in Sessions, Commit(s), i = call[s].issue
      PROVE  row'[i].assignee = row[i].assignee
  <2>1. ~GivenAway(s)
    BY <1>1 DEF Commit
  <2>2. row'[i].assignee = NewAssignee(s)
    BY <1>1, Wrote
  <2>3. Cur(s).assignee = row[i].assignee
    BY <1>1 DEF Cur
  <2>4. CASE call[s].kind # "next"
    BY <2>1, <2>2, <2>3, <2>4 DEF GivenAway
  <2>5. CASE call[s].kind = "next"
    <3>1. call[s].to = "In Progress" /\ call[s].assignee = Keep /\ call[s].expect # NoStatus
      BY <1>1, <2>5 DEF Commit, CallsSound
    <3>2. StatusAllowed(s)
      BY <1>1, <2>5 DEF Commit, Allowed
    <3>3. ~Other(s)
      BY <3>1, <3>2 DEF StatusAllowed
    <3>4. NewAssignee(s) = Me(s)
      BY <2>5, <3>1 DEF NewAssignee, Starting
    <3>5. row[i].assignee \in view[s].editors => row[i].assignee = Me(s)
      BY <2>3, <3>3 DEF Other
    <3>6. row[i].assignee # NewAssignee(s) => row[i].assignee \in view[s].editors
      BY <2>1, <2>3 DEF GivenAway
    <3> QED  BY <2>2, <3>4, <3>5, <3>6
  <2> QED  BY <2>4, <2>5
<1>2. ASSUME NEW s \in Sessions, Commit(s), i # call[s].issue
      PROVE  row'[i] = row[i]
  BY <1>2, Committed
<1>3. ASSUME NEW s \in Sessions, Create(s)
      PROVE  row'[i] = row[i]
  <2>1. row[i].status # Unborn
    BY DEF Born
  <2> QED  BY <1>3, <2>1, Created
<1>4. ASSUME NEW u \in Users, NEW to \in Users \cup {Nobody}, Demote(u, to)
      PROVE  row'[i] = row[i]
  BY <1>4, Demoted
<1>5. ASSUME NEW s \in Sessions, CallNext(s) \/ Resume(s) \/ ListCandidates(s)
      PROVE  row' = row
  BY <1>5 DEF CallNext, Resume, ListCandidates
<1> QED  BY <1>1, <1>2, <1>3, <1>4, <1>5, Movers

\* What was given away counts as given away from then on.
LEMMA MovedGrows ==
  ASSUME [Next]_vars, TypeOK
  PROVE  moved \subseteq moved'
<1>1. ASSUME NEW s \in Sessions, Commit(s) \/ Create(s) \/ CallNext(s) \/ Resume(s) \/ ListCandidates(s)
      PROVE  moved \subseteq moved'
  BY <1>1 DEF Commit, Create, CallNext, Resume, ListCandidates
<1>2. ASSUME NEW u \in Users, NEW to \in Users \cup {Nobody}, Demote(u, to)
      PROVE  moved \subseteq moved'
  BY <1>2 DEF Demote
<1> QED  BY <1>1, <1>2, Movers

\* Who starts an issue that is not given away is its assignee.
LEMMA StartedOwn ==
  ASSUME TypeOK, CallsSound, NEW s \in Sessions, Commit(s), Starting(s), call[s].issue \notin moved'
  PROVE  row'[call[s].issue].assignee = UserOf[s]
<1>1. ~GivenAway(s)
  BY DEF Commit
<1>2. row'[call[s].issue].assignee = NewAssignee(s)
  BY Wrote
<1> QED  BY <1>1, <1>2 DEF GivenAway, Me

(***************************************************************************)
(* Every step keeps an issue with the user who was told to work on it.     *)
(***************************************************************************)
LEMMA HandsStep ==
  ASSUME TypeOK, CallsSound, Born, HandsOwn, SeenOwn, StartersOwn, [Next]_vars
  PROVE  HandsOwn'
<1> SUFFICES ASSUME NEW t \in Sessions, hand'[t] \in Issues, hand'[t] \notin moved'
             PROVE  row'[hand'[t]].assignee = UserOf[t]
  BY DEF HandsOwn
<1>1. UserOf[t] \in Users
  BY SessionAssumption
<1>2. moved \subseteq moved'
  BY MovedGrows
<1>3. CASE hand'[t] = hand[t]
  <2>1. row[hand[t]].assignee = UserOf[t]
    BY <1>2, <1>3 DEF HandsOwn
  <2> QED  BY <1>1, <1>3, <2>1, Kept, UserAssumption
<1>4. ASSUME NEW s \in Sessions, Resume(s), hand'[t] # hand[t]
      PROVE  row'[hand'[t]].assignee = UserOf[t]
  <2>1. s = t /\ row' = row /\ pc[t] = "listed" /\ hand'[t] = First(Units(t))
    BY <1>4 DEF Resume, TypeOK
  <2>2. hand'[t] \in Units(t)
    <3>1. Units(t) # {} /\ Units(t) \in SUBSET Issues
      BY <1>4, <2>1 DEF Resume, Units
    <3> QED  BY <2>1, <3>1, FirstIn
  <2>3. Mine(t, hand'[t])
    BY <2>2 DEF Units
  <2>4. CASE seen[t][hand'[t]].assignee = Me(t)
    BY <1>1, <1>2, <2>1, <2>4, UserAssumption DEF SeenOwn, Me
  <2>5. CASE StarterOf(hand'[t]) # NoSession /\ UserOf[StarterOf(hand'[t])] = Me(t)
    BY <1>2, <2>1, <2>5 DEF StarterOf, StartersOwn, Me
  <2> QED  BY <2>3, <2>4, <2>5 DEF Mine
<1>5. ASSUME NEW s \in Sessions, CallNext(s) \/ ListCandidates(s)
      PROVE  hand'[t] \in {hand[t], NoIssue}
  BY <1>5 DEF CallNext, ListCandidates, TypeOK
<1>6. ASSUME NEW s \in Sessions, Commit(s), hand'[t] # hand[t]
      PROVE  row'[hand'[t]].assignee = UserOf[t]
  <2>1. s = t /\ hand'[t] = HandAfter(t)
    BY <1>6 DEF Commit, TypeOK
  <2>2. Starting(t) /\ hand'[t] = call[t].issue
    BY <1>6, <2>1, CallAssumption DEF HandAfter
  <2> QED  BY <1>6, <2>1, <2>2, StartedOwn
<1>7. ASSUME NEW s \in Sessions, Create(s), hand'[t] # hand[t]
      PROVE  row'[hand'[t]].assignee = UserOf[t]
  <2>1. PICK i \in Issues :
          \/ row'[i].assignee = UserOf[s] /\ hand' = [hand EXCEPT ![s] = i]
          \/ hand' = hand
    BY <1>7, Created
  <2>2. s = t /\ hand'[t] = i
    BY <1>7, <2>1 DEF TypeOK
  <2> QED  BY <1>7, <2>1, <2>2
<1>8. ASSUME NEW u \in Users, NEW to \in Users \cup {Nobody}, Demote(u, to)
      PROVE  hand' = hand
  BY <1>8 DEF Demote
<1> QED  BY <1>3, <1>4, <1>5, <1>6, <1>7, <1>8, Movers, CallAssumption

(***************************************************************************)
(* Every step keeps what next has read true of the assignees.              *)
(***************************************************************************)
LEMMA SeenStep ==
  ASSUME TypeOK, CallsSound, Born, SeenOwn, [Next]_vars
  PROVE  SeenOwn'
<1> SUFFICES ASSUME NEW t \in Sessions, NEW i \in Issues,
                    pc'[t] = "listed", seen'[t][i].assignee # Nobody, i \notin moved'
             PROVE  row'[i].assignee = seen'[t][i].assignee
  BY DEF SeenOwn
<1>1. moved \subseteq moved'
  BY MovedGrows
<1>2. CASE pc[t] = "listed" /\ seen'[t] = seen[t]
  <2>1. row[i].assignee = seen[t][i].assignee
    BY <1>1, <1>2 DEF SeenOwn
  <2> QED  BY <1>2, <2>1, Kept
<1>3. ASSUME NEW s \in Sessions, CallNext(s), ~(pc[t] = "listed" /\ seen'[t] = seen[t])
      PROVE  row'[i].assignee = seen'[t][i].assignee
  BY <1>3 DEF CallNext, TypeOK
<1>4. ASSUME NEW s \in Sessions, Resume(s) \/ ListCandidates(s)
      PROVE  pc[t] = "listed" /\ seen'[t] = seen[t]
  BY <1>4 DEF Resume, ListCandidates, TypeOK
<1>5. ASSUME NEW s \in Sessions, Commit(s)
      PROVE  pc[t] = "listed" /\ seen'[t] = seen[t]
  BY <1>5, Committed
<1>6. ASSUME NEW s \in Sessions, Create(s)
      PROVE  pc[t] = "listed" /\ seen'[t] = seen[t]
  BY <1>6 DEF Create
<1>7. ASSUME NEW u \in Users, NEW to \in Users \cup {Nobody}, Demote(u, to)
      PROVE  pc[t] = "listed" /\ seen'[t] = seen[t]
  BY <1>7 DEF Demote
<1> QED  BY <1>2, <1>3, <1>4, <1>5, <1>6, <1>7, Movers

(***************************************************************************)
(* Every step keeps the last start of an issue true of its assignee.       *)
(***************************************************************************)
LEMMA StartersStep ==
  ASSUME TypeOK, CallsSound, Born, StartersOwn, [Next]_vars
  PROVE  StartersOwn'
<1> SUFFICES ASSUME NEW i \in Issues, i \notin moved', row'[i].status = "In Progress", starter'[i] # NoSession
             PROVE  row'[i].assignee = UserOf[starter'[i]]
  BY DEF StartersOwn
<1>1. moved \subseteq moved'
  BY MovedGrows
<1>2. CASE row[i].status = "In Progress" /\ starter'[i] = starter[i]
  <2>1. row[i].assignee = UserOf[starter[i]] /\ starter[i] \in Sessions
    BY <1>1, <1>2 DEF StartersOwn, TypeOK
  <2>2. row[i].assignee # Nobody
    BY <2>1, UserAssumption, SessionAssumption
  <2> QED  BY <1>2, <2>1, <2>2, Kept
<1>3. ASSUME NEW s \in Sessions, Commit(s), i = call[s].issue
      PROVE  row'[i].assignee = UserOf[starter'[i]]
  <2>1. CASE Starting(s)
    <3>1. starter'[i] = s
      BY <1>3, <2>1 DEF Commit, TypeOK
    <3> QED  BY <1>3, <2>1, <3>1, StartedOwn
  <2>2. CASE ~Starting(s)
    <3>1. starter' = starter
      BY <1>3, <2>2 DEF Commit
    <3>2. row[i].status = "In Progress"
      BY <1>3, <2>2, Wrote DEF Starting
    <3> QED  BY <1>2, <3>1, <3>2
  <2> QED  BY <2>1, <2>2
<1>4. ASSUME NEW s \in Sessions, Commit(s), i # call[s].issue
      PROVE  row[i].status = "In Progress" /\ starter'[i] = starter[i]
  <2>1. row'[i] = row[i]
    BY <1>4, Committed
  <2>2. starter'[i] = starter[i]
    BY <1>4 DEF Commit, TypeOK
  <2> QED  BY <2>1, <2>2
<1>5. ASSUME NEW s \in Sessions, Create(s)
      PROVE  \/ row[i].status = "In Progress" /\ starter'[i] = starter[i]
             \/ row'[i].assignee = UserOf[starter'[i]]
  <2>1. PICK j \in Issues :
           /\ \A k \in Issues \ {j} : row'[k] = row[k]
           /\ \/ row'[j].assignee = UserOf[s] /\ starter' = [starter EXCEPT ![j] = s]
              \/ row'[j].status = "Todo" /\ UNCHANGED <<starter, hand>>
    BY <1>5, Created
  <2> QED  BY <2>1 DEF TypeOK
<1>6. ASSUME NEW u \in Users, NEW to \in Users \cup {Nobody}, Demote(u, to)
      PROVE  row[i].status = "In Progress" /\ starter'[i] = starter[i]
  BY <1>6, Demoted
<1>7. ASSUME NEW s \in Sessions, CallNext(s) \/ Resume(s) \/ ListCandidates(s)
      PROVE  row[i].status = "In Progress" /\ starter'[i] = starter[i]
  BY <1>7 DEF CallNext, Resume, ListCandidates
<1> QED  BY <1>2, <1>3, <1>4, <1>5, <1>6, <1>7, Movers

(***************************************************************************)
(* A row whose version is the same has the same text and values.           *)
(***************************************************************************)
LEMMA VersionTells ==
  ASSUME TypeOK, CallsSound, [Next]_vars, NEW i \in Issues
  PROVE  /\ row[i].version \in Nat /\ row'[i].version \in Nat
         /\ row[i].version <= row'[i].version
         /\ row'[i].version = row[i].version => row'[i].text = row[i].text /\ row'[i].values = row[i].values
<1>1. row[i].version \in Nat
  BY DEF TypeOK, Row
<1>2. ASSUME NEW s \in Sessions, Commit(s)
      PROVE  row'[i] = row[i] \/ row'[i].version = row[i].version + 1
  BY <1>2, Committed, Wrote
<1>3. ASSUME NEW s \in Sessions, Create(s)
      PROVE  row'[i].version = row[i].version /\ row'[i].text = row[i].text /\ row'[i].values = row[i].values
  <2>1. PICK j \in Issues :
          /\ \A k \in Issues \ {j} : row'[k] = row[k]
          /\ row'[j].version = row[j].version /\ row'[j].text = row[j].text /\ row'[j].values = row[j].values
    BY <1>3, Created
  <2> QED  BY <2>1
<1>4. ASSUME NEW u \in Users, NEW to \in Users \cup {Nobody}, Demote(u, to)
      PROVE  row'[i] = row[i] \/ row'[i].version = row[i].version + 1
  BY <1>4, Demoted
<1>5. ASSUME NEW s \in Sessions, CallNext(s) \/ Resume(s) \/ ListCandidates(s)
      PROVE  row' = row
  BY <1>5 DEF CallNext, Resume, ListCandidates
<1> QED  BY <1>1, <1>2, <1>3, <1>4, <1>5, Movers

(***************************************************************************)
(* Every step keeps what an editor has read true, or older than the row.   *)
(***************************************************************************)
LEMMA DraftsStep ==
  ASSUME TypeOK, CallsSound, DraftsTrue, [Next]_vars
  PROVE  DraftsTrue'
<1> SUFFICES ASSUME NEW t \in Sessions, pc'[t] \in Busy, call'[t].kind = "update"
             PROVE  /\ call'[t].version <= row'[call'[t].issue].version
                    /\ call'[t].version = row'[call'[t].issue].version =>
                         /\ call'[t].text = row'[call'[t].issue].text
                         /\ pc'[t] # "reading" => call'[t].values = row'[call'[t].issue].values
  BY DEF DraftsTrue, Busy
<1>1. CASE /\ pc[t] \in Busy /\ (pc'[t] # "reading" => pc[t] # "reading")
           /\ call'[t].issue = call[t].issue /\ call'[t].kind = call[t].kind /\ call'[t].version = call[t].version
           /\ call'[t].text = call[t].text /\ call'[t].values = call[t].values
  <2> DEFINE i == call[t].issue
  <2>1. i \in Issues /\ call[t].version \in Nat
    BY <1>1 DEF CallsSound, Busy, TypeOK, Call
  <2>2. /\ call[t].version <= row[i].version
        /\ call[t].version = row[i].version =>
             call[t].text = row[i].text /\ (pc[t] # "reading" => call[t].values = row[i].values)
    BY <1>1 DEF DraftsTrue, Busy
  <2>3. /\ row[i].version \in Nat /\ row'[i].version \in Nat
        /\ row[i].version <= row'[i].version
        /\ row'[i].version = row[i].version => row'[i].text = row[i].text /\ row'[i].values = row[i].values
    BY <2>1, VersionTells
  <2> QED  BY <1>1, <2>1, <2>2, <2>3
<1>2. CASE pc[t] \in Busy /\ call'[t] = call[t] /\ (pc'[t] = pc[t] \/ LockRow(t))
  BY <1>1, <1>2 DEF LockRow
<1>3. CASE TryCandidate(t) /\ cand[t] # {} /\ Choice(t) \notin Refused
  BY <1>3 DEF TryCandidate, TypeOK, NoCall
<1>4. CASE Finish(t)
  BY <1>4 DEF Finish, TypeOK, NoCall
<1>5. CASE CallStatus(t) \/ CallAssign(t) \/ CallComment(t)
  <2>1. PICK c \in Call : Begin(t, c) /\ c.kind # "update"
    <3>1. CASE CallStatus(t)
      <4>1. PICK i \in Issues, to \in Targets, a \in Users \cup {Nobody, Keep}, reason \in BOOLEAN :
              Begin(t, [NoCall EXCEPT !.kind = "status", !.issue = i, !.to = to, !.assignee = a, !.reason = reason])
        BY <3>1 DEF CallStatus
      <4>2. [NoCall EXCEPT !.kind = "status", !.issue = i, !.to = to, !.assignee = a, !.reason = reason] \in Call
        BY CallAssumption DEF NoCall, Call, Kinds
      <4> QED  BY <4>1, <4>2 DEF NoCall
    <3>2. CASE CallAssign(t)
      <4>1. PICK i \in Issues, a \in Users \cup {Nobody}, reason \in BOOLEAN :
              Begin(t, [NoCall EXCEPT !.kind = "assign", !.issue = i, !.assignee = a, !.reason = reason])
        BY <3>2 DEF CallAssign
      <4>2. [NoCall EXCEPT !.kind = "assign", !.issue = i, !.assignee = a, !.reason = reason] \in Call
        BY DEF NoCall, Call, Kinds
      <4> QED  BY <4>1, <4>2 DEF NoCall
    <3>3. CASE CallComment(t)
      <4>1. PICK i \in Issues : Begin(t, [NoCall EXCEPT !.kind = "comment", !.issue = i])
        BY <3>3 DEF CallComment
      <4>2. [NoCall EXCEPT !.kind = "comment", !.issue = i] \in Call
        BY DEF NoCall, Call, Kinds
      <4> QED  BY <4>1, <4>2 DEF NoCall
    <3> QED  BY <1>5, <3>1, <3>2, <3>3
  <2>2. call'[t] = c
    BY <2>1 DEF Begin, TypeOK
  <2> QED  BY <2>1, <2>2
<1>6. CASE ReadRow(t)
  <2>1. PICK i \in Issues :
          /\ call' = [call EXCEPT ![t] = [NoCall EXCEPT !.kind = "update", !.issue = i,
                                          !.version = row[i].version, !.text = row[i].text]]
          /\ row' = row /\ pc' = [pc EXCEPT ![t] = "reading"]
    BY <1>6 DEF ReadRow
  <2>2. /\ call'[t].issue = i /\ call'[t].version = row'[i].version /\ call'[t].text = row'[i].text
        /\ pc'[t] = "reading"
    BY <2>1 DEF TypeOK, NoCall
  <2>3. row[i].version \in Nat
    BY DEF TypeOK, Row
  <2> QED  BY <2>1, <2>2, <2>3
<1>7. CASE ReadValues(t)
  <2>1. call[t] \in Call /\ call[t].issue \in Issues
    BY <1>7 DEF TypeOK, CallsSound, ReadValues
  <2>2. /\ call'[t].issue = call[t].issue /\ call'[t].version = call[t].version /\ call'[t].text = call[t].text
        /\ call'[t].kind = call[t].kind
        /\ call'[t].values = row[call[t].issue].values /\ row' = row /\ pc[t] = "reading"
    BY <1>7, <2>1 DEF ReadValues, TypeOK, Call
  <2>3. /\ call[t].version <= row[call[t].issue].version
        /\ call[t].version = row[call[t].issue].version => call[t].text = row[call[t].issue].text
    BY <2>2 DEF DraftsTrue
  <2> QED  BY <2>2, <2>3
<1>8. CASE CallUpdate(t)
  <2>1. call[t] \in Call
    BY DEF TypeOK
  <2>2. /\ call'[t].issue = call[t].issue /\ call'[t].kind = call[t].kind /\ call'[t].version = call[t].version
        /\ call'[t].text = call[t].text /\ call'[t].values = call[t].values
    BY <1>8, <2>1 DEF CallUpdate, TypeOK, Call
  <2>3. pc[t] \in Busy /\ pc[t] # "reading"
    BY <1>8 DEF CallUpdate, Busy
  <2> QED  BY <1>1, <2>2, <2>3
<1> QED  BY <1>2, <1>3, <1>4, <1>5, <1>6, <1>7, <1>8, BusyCalls

(***************************************************************************)
(* The inductive invariant: at every moment of every run, what sessions    *)
(* have read, asked for and been given agrees with the rows.               *)
(***************************************************************************)
THEOREM IssuesInvariant == Spec => []IInv
<1>1. Init => IInv
  <2> SUFFICES ASSUME Init PROVE IInv
    OBVIOUS
  <2>1. PICK start \in Starts :
          row = [i \in Issues |-> [status |-> start[i].status, assignee |-> start[i].assignee,
                                   version |-> 1, text |-> 1, values |-> 1]]
    BY DEF Init
  <2>2. start \in [Issues -> [status : Statuses, assignee : Users \cup {Nobody}]]
    BY CallAssumption
  <2>3. row \in [Issues -> Row]
    BY <2>1, <2>2 DEF Row
  <2>4. Blank \in [Issues -> Entry] /\ NoView \in View
    BY DEF Blank, Entry, Statuses, NoView, View
  <2>5. TypeOK
    BY <2>3, <2>4, NoCallType DEF Init, TypeOK
  <2>6. \A i \in Issues : row[i].status = Unborn => row[i].assignee = Nobody
    BY <2>1, CallAssumption
  <2>7. \A s \in Sessions : pc[s] = "idle" /\ hand[s] = NoIssue /\ cand[s] = {} /\ seen[s] = Blank
    BY DEF Init
  <2>8. Born
    BY <2>6, <2>7 DEF Born, Blank
  <2>9. CallsSound /\ OneLock /\ SeenOwn /\ DraftsTrue
    BY <2>7 DEF CallsSound, OneLock, SeenOwn, DraftsTrue
  <2>10. HandsOwn /\ StartersOwn
    BY <2>7, CallAssumption DEF HandsOwn, StartersOwn, Init
  <2> QED  BY <2>5, <2>8, <2>9, <2>10 DEF IInv
<1>2. IInv /\ [Next]_vars => IInv'
  BY TypeStep, SoundStep, BornStep, LockStep, HandsStep, SeenStep, StartersStep, DraftsStep DEF IInv
<1> QED  BY <1>1, <1>2, PTL DEF Spec

(***************************************************************************)
(* Two AIs of different users never work on one issue that nobody gave     *)
(* from one to another, whatever next reads without a transaction.         *)
(***************************************************************************)
THEOREM OneUserAtATime == Spec => []OneUserAtWork
<1>1. IInv => OneUserAtWork
  <2> SUFFICES ASSUME IInv, NEW s \in Sessions, NEW t \in Sessions,
                      hand[s] # NoIssue, hand[s] = hand[t], hand[s] \notin moved
               PROVE  UserOf[s] = UserOf[t]
    BY DEF OneUserAtWork
  <2>1. hand[s] \in Issues \ moved
    BY DEF IInv, TypeOK
  <2> QED  BY <2>1 DEF IInv, HandsOwn
<1> QED  BY <1>1, IssuesInvariant, PTL

(***************************************************************************)
(* An edit that is accepted was made from what it replaces.                *)
(***************************************************************************)
THEOREM EditsKept == Spec => NoLostEdit
<1> DEFINE EditTrue(s) == pc[s] = "locked" /\ call[s].kind = "update" /\ row'[call[s].issue].text # row[call[s].issue].text =>
                         row[call[s].issue].text = call[s].text /\ row[call[s].issue].values = call[s].values
<1>1. ASSUME IInv, [Next]_vars, NEW s \in Sessions
      PROVE  EditTrue(s)
  <2> SUFFICES ASSUME pc[s] = "locked", call[s].kind = "update", row'[call[s].issue].text # row[call[s].issue].text
               PROVE  row[call[s].issue].text = call[s].text /\ row[call[s].issue].values = call[s].values
    OBVIOUS
  <2>1. call[s].issue \in Issues
    BY <1>1 DEF IInv, CallsSound
  <2>2. ASSUME NEW t \in Sessions, Commit(t)
        PROVE  t = s
    <3>1. call[t].issue = call[s].issue
      BY <1>1, <2>1, <2>2, Committed DEF IInv
    <3>2. pc[t] = "locked"
      BY <2>2 DEF Commit
    <3> QED  BY <1>1, <3>1, <3>2 DEF IInv, OneLock
  <2>3. ASSUME NEW t \in Sessions, CallNext(t) \/ Resume(t) \/ ListCandidates(t)
        PROVE  row' = row
    BY <2>3 DEF CallNext, Resume, ListCandidates
  <2>4. ASSUME NEW t \in Sessions, Create(t)
        PROVE  row'[call[s].issue].text = row[call[s].issue].text
    BY <1>1, <2>1, <2>4, Created DEF IInv
  <2>5. ASSUME NEW u \in Users, NEW to \in Users \cup {Nobody}, Demote(u, to)
        PROVE  row'[call[s].issue].text = row[call[s].issue].text
    BY <1>1, <2>1, <2>5, Demoted DEF IInv
  <2>6. Commit(s)
    BY <1>1, <2>2, <2>3, <2>4, <2>5, Movers DEF IInv
  <2>7. call[s].version = row[call[s].issue].version
    BY <2>6 DEF Commit, Allowed, UpdateAllowed, VersionFits, Cur
  <2> QED  BY <1>1, <2>7 DEF IInv, DraftsTrue
<1>2. ASSUME IInv, [Next]_vars
      PROVE  \A s \in Sessions : EditTrue(s)
  BY <1>1, <1>2
<1>3. IInv /\ [Next]_vars =>
        [\A s \in Sessions :
           LET i == call[s].issue
           IN  pc[s] = "locked" /\ call[s].kind = "update" /\ row'[i].text # row[i].text =>
                 row[i].text = call[s].text /\ row[i].values = call[s].values]_vars
  BY <1>2
<1> QED  BY <1>3, IssuesInvariant, PTL DEF Spec, NoLostEdit

-----------------------------------------------------------------------------
(* Assignees, where the transactions come one after the other. *)

\* Only those who change the status or the assignee ask for an assignee.
LEMMA AsksStep ==
  ASSUME TypeOK, CallsSound, AsksNoAssignee, [Next]_vars
  PROVE  AsksNoAssignee'
<1> SUFFICES ASSUME NEW t \in Sessions, pc'[t] \in Busy, call'[t].kind \notin {"status", "assign"}
             PROVE  call'[t].assignee = Keep
  BY DEF AsksNoAssignee, Busy
<1>1. CASE pc[t] \in Busy /\ call'[t] = call[t]
  BY <1>1 DEF AsksNoAssignee, Busy
<1>2. CASE TryCandidate(t) /\ cand[t] # {} /\ Choice(t) \notin Refused
  <2>1. call'[t] = [NoCall EXCEPT !.kind = "next", !.issue = Choice(t), !.to = "In Progress",
                                 !.expect = row[Choice(t)].status]
    BY <1>2 DEF TryCandidate, TypeOK
  <2> QED  BY <2>1 DEF NoCall
<1>3. CASE Finish(t)
  <2>1. call'[t].kind = "status"
    BY <1>3 DEF Finish, TypeOK, NoCall
  <2> QED  BY <2>1
<1>4. ASSUME NEW c, Begin(t, c)
      PROVE  call'[t] = c
  BY <1>4 DEF Begin, TypeOK
<1>5. CASE CallStatus(t)
  <2>1. call'[t].kind = "status"
    BY <1>4, <1>5 DEF CallStatus, NoCall
  <2> QED  BY <2>1
<1>6. CASE CallAssign(t)
  <2>1. call'[t].kind = "assign"
    BY <1>4, <1>6 DEF CallAssign, NoCall
  <2> QED  BY <2>1
<1>7. CASE CallComment(t)
  <2>1. PICK i \in Issues : Begin(t, [NoCall EXCEPT !.kind = "comment", !.issue = i])
    BY <1>7 DEF CallComment
  <2>2. call'[t] = [NoCall EXCEPT !.kind = "comment", !.issue = i]
    BY <1>4, <2>1
  <2> QED  BY <2>2 DEF NoCall
<1>8. CASE ReadRow(t)
  <2>1. PICK i \in Issues :
          call' = [call EXCEPT ![t] = [NoCall EXCEPT !.kind = "update", !.issue = i,
                                                     !.version = row[i].version, !.text = row[i].text]]
    BY <1>8 DEF ReadRow
  <2>2. call'[t] = [NoCall EXCEPT !.kind = "update", !.issue = i, !.version = row[i].version, !.text = row[i].text]
    BY <2>1 DEF TypeOK
  <2> QED  BY <2>2 DEF NoCall
<1>9. CASE ReadValues(t) \/ CallUpdate(t)
  <2>1. pc[t] \in Busy /\ call[t].kind = "update" /\ call[t] \in Call
    BY <1>9 DEF ReadValues, CallUpdate, CallsSound, TypeOK, Busy
  <2>2. call'[t].assignee = call[t].assignee
    BY <1>9, <2>1 DEF ReadValues, CallUpdate, TypeOK, Call
  <2> QED  BY <2>1, <2>2 DEF AsksNoAssignee, Busy
<1> QED  BY <1>1, <1>2, <1>3, <1>5, <1>6, <1>7, <1>8, <1>9, BusyCalls

\* The snapshot of a transaction agrees with the members until its commit.
LEMMA ViewsStep ==
  ASSUME TypeOK, ViewsTrue, [Next]_vars, MembersChangeApart
  PROVE  ViewsTrue'
<1> SUFFICES ASSUME NEW t \in Sessions, pc'[t] = "locked"
             PROVE  view'[t].editors = editors'
  BY DEF ViewsTrue
<1>1. CASE LockRow(t)
  BY <1>1 DEF LockRow, TypeOK
<1>2. CASE ~LockRow(t)
  <2>1. pc[t] = "locked"
    <3>1. pc'[t] \in Busy
      BY DEF Busy
    <3>2. ~(TryCandidate(t) /\ cand[t] # {} /\ Choice(t) \notin Refused)
      BY DEF TryCandidate, TypeOK
    <3>3. ~(Finish(t) \/ CallStatus(t) \/ CallAssign(t) \/ CallComment(t))
      BY DEF Finish, CallStatus, CallAssign, CallComment, Begin, TypeOK
    <3>4. ~(ReadRow(t) \/ ReadValues(t) \/ CallUpdate(t))
      BY DEF ReadRow, ReadValues, CallUpdate, TypeOK
    <3> QED  BY <1>2, <3>1, <3>2, <3>3, <3>4, BusyCalls
  <2>2. editors' = editors
    BY <2>1 DEF MembersChangeApart
  <2>3. view'[t] = view[t]
    <3>1. ASSUME NEW s \in Sessions, LockRow(s) \/ Commit(s) \/ Reject(s)
          PROVE  view'[t] = view[t]
      <4>1. t # s
        BY <1>2, <3>1 DEF LockRow, Commit, Reject, TypeOK
      <4> QED  BY <3>1, <4>1 DEF LockRow, Commit, Reject, TypeOK
    <3>2. ASSUME NEW s \in Sessions, CallsNext(s)
          PROVE  view' = view
      BY <3>2 DEF CallsNext, CallNext, Resume, ListCandidates, TryCandidate, FindNothing
    <3>3. ASSUME NEW s \in Sessions, CallsOther(s)
          PROVE  view' = view
      BY <3>3 DEF CallsOther, Finish, CallStatus, CallAssign, CallComment, Begin, Create, ReadRow, ReadValues, CallUpdate
    <3>4. CASE Administers \/ UNCHANGED vars
      BY <3>4 DEF Administers, Promote, Demote, SetProjectArchived, vars
    <3> QED  BY <3>1, <3>2, <3>3, <3>4 DEF Next, Transacts
  <2> QED  BY <2>1, <2>2, <2>3 DEF ViewsTrue
<1> QED  BY <1>1, <1>2

\* What a commit makes of the assignee: the one there was, nobody, the caller, or a member of its snapshot.
LEMMA AssignsMembers ==
  ASSUME TypeOK, CallsSound, AsksNoAssignee, NEW s \in Sessions, Commit(s)
  PROVE  NewAssignee(s) \in {row[call[s].issue].assignee, Nobody, Me(s)} \cup view[s].editors
<1>1. call[s] \in Call /\ pc[s] = "locked"
  BY DEF TypeOK, Commit
<1>2. CASE call[s].assignee = Keep
  BY <1>2 DEF NewAssignee, Cur
<1>3. CASE call[s].assignee # Keep
  <2>1. call[s].kind \in {"status", "assign"}
    BY <1>1, <1>3 DEF AsksNoAssignee
  <2>2. CASE call[s].kind = "status"
    <3>1. AssignAllowed(s)
      BY <2>2 DEF Commit, Allowed, StatusAllowed
    <3> QED  BY <1>3, <3>1 DEF AssignAllowed, Assignable, NewAssignee
  <2>3. CASE call[s].kind = "assign"
    <3>1. AssignAllowed(s)
      BY <2>3 DEF Commit, Allowed
    <3> QED  BY <1>3, <3>1 DEF AssignAllowed, Assignable, NewAssignee
  <2> QED  BY <2>1, <2>2, <2>3
<1> QED  BY <1>2, <1>3
\* A step that changes the assignee of a locked issue leaves it with a member.
LEMMA AssigneesStep ==
  ASSUME IInv, AsksNoAssignee, ViewsTrue, [Next]_vars, NEW s \in Sessions, pc[s] = "locked"
  PROVE  row'[call[s].issue].assignee \in {row[call[s].issue].assignee, Nobody, Me(s)} \cup editors
<1> DEFINE i == call[s].issue
<1>1. i \in Issues /\ row[i].status # Unborn
  BY DEF IInv, CallsSound, Born
<1>2. ASSUME NEW t \in Sessions, Commit(t)
      PROVE  row'[i].assignee \in {row[i].assignee, Nobody, Me(s)} \cup editors
  <2>1. CASE call[t].issue = i
    <3>1. t = s
      BY <1>2, <2>1 DEF Commit, IInv, OneLock
    <3>2. row'[i].assignee = NewAssignee(s)
      BY <1>2, <2>1, <3>1, Wrote DEF IInv
    <3>3. NewAssignee(s) \in {row[i].assignee, Nobody, Me(s)} \cup view[s].editors
      BY <1>2, <3>1, AssignsMembers DEF IInv
    <3> QED  BY <3>2, <3>3 DEF ViewsTrue
  <2>2. CASE call[t].issue # i
    BY <1>1, <1>2, <2>2, Committed DEF IInv
  <2> QED  BY <2>1, <2>2
<1>3. ASSUME NEW t \in Sessions, Create(t)
      PROVE  row'[i] = row[i]
  BY <1>1, <1>3, Created DEF IInv
<1>4. ASSUME NEW u \in Users, NEW to \in Users \cup {Nobody}, Demote(u, to)
      PROVE  row'[i] = row[i]
  <2>1. i \notin Owned(u)
    BY <1>4 DEF Demote, Locked
  <2> QED  BY <1>1, <1>4, <2>1 DEF Demote
<1>5. ASSUME NEW t \in Sessions, CallNext(t) \/ Resume(t) \/ ListCandidates(t)
      PROVE  row' = row
  BY <1>5 DEF CallNext, Resume, ListCandidates
<1> QED  BY <1>2, <1>3, <1>4, <1>5, Movers DEF IInv

(***************************************************************************)
(* Where transactions come one after the other, nobody is made an assignee *)
(* by somebody else while he cannot work in the project: what the run      *)
(* IssuesMembers finds needs a change of members between lock and commit.  *)
(***************************************************************************)
THEOREM MembersAssigned == Spec /\ OneAfterTheOther => AssigneesAreMembers
<1> DEFINE Known == AsksNoAssignee /\ ViewsTrue
           Assigned == \A s \in Sessions :
                         LET i == call[s].issue
                             u == row'[i].assignee
                         IN  pc[s] = "locked" => u \in {row[i].assignee, Nobody, Me(s)} \cup editors
<1>1. Init => Known
  BY DEF Init, AsksNoAssignee, ViewsTrue
<1>2. IInv /\ Known /\ [Next]_vars /\ [MembersChangeApart]_vars => Known'
  <2> SUFFICES ASSUME IInv, Known, [Next]_vars, [MembersChangeApart]_vars
               PROVE  Known'
    OBVIOUS
  <2>1. MembersChangeApart
    BY DEF MembersChangeApart, vars
  <2> QED  BY <2>1, AsksStep, ViewsStep DEF IInv
<1>3. IInv /\ Known /\ [Next]_vars => [Assigned]_vars
  BY AssigneesStep
<1> QED  BY <1>1, <1>2, <1>3, IssuesInvariant, PTL DEF Spec, OneAfterTheOther, AssigneesAreMembers
=============================================================================
