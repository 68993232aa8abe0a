--------------------------- MODULE RefreshProofs ---------------------------
(***************************************************************************)
(* For any processes and any number of pairs, clients and failures: at     *)
(* most one pair of a family is in force, a revoked family stays revoked,  *)
(* and the processes that share a credentials file do not log each other   *)
(* out.                                                                    *)
(***************************************************************************)
EXTENDS Refresh, TLAPS

-----------------------------------------------------------------------------
(* The server. *)

ServerTypeOK ==
  /\ issued \in Tokens
  /\ family \in [Pairs -> Tokens] /\ clientOf \in [Pairs -> Nat] /\ age \in [Pairs -> 0..3]
  /\ used \subseteq Pairs /\ revoked \subseteq Pairs /\ dead \subseteq Pairs

ServerOK == ServerTypeOK /\ ServerInv /\ OneInForce /\ RevokedTogether

\* Issuing adds one pair, of the given family and client.
LEMMA IssueAdds ==
  ASSUME RefreshAssumption, ServerTypeOK, ServerInv, NEW fam \in 1..(issued + 1), NEW client \in Nat, Issue(fam, client)
  PROVE  /\ issued' \in Tokens /\ family' \in [Pairs -> Tokens] /\ clientOf' \in [Pairs -> Nat]
         /\ issued + 1 \in Pairs /\ Issued' = Issued \cup {issued + 1} /\ issued + 1 \notin Issued
         /\ \A n \in Issued : family'[n] = family[n] /\ clientOf'[n] = clientOf[n]
         /\ family'[issued + 1] = fam /\ clientOf'[issued + 1] = client
         /\ \A n \in Issued' : family'[n] \in 1..n
BY DEF RefreshAssumption, ServerTypeOK, ServerInv, Issue, Tokens, Pairs, Issued

\* A rotation puts a new pair in the place of the one that is presented.
LEMMA RotateKeeps ==
  ASSUME RefreshAssumption, ServerOK, NEW n \in Issued, NEW client \in Nat, Rotate(n, client)
  PROVE  ServerOK'
<1>1. /\ used' = used \cup {n} /\ dead' = dead \cup {n} /\ revoked' = revoked /\ age' = age
      /\ n \notin revoked \cup OutOfForce /\ Issue(family[n], client)
  BY DEF Rotate, Issue
<1>2. family[n] \in 1..(issued + 1) /\ n \in Pairs
  BY DEF ServerOK, ServerTypeOK, ServerInv, Issued, Tokens, Pairs
<1>3. /\ issued' \in Tokens /\ family' \in [Pairs -> Tokens] /\ clientOf' \in [Pairs -> Nat]
      /\ issued + 1 \in Pairs /\ Issued' = Issued \cup {issued + 1} /\ issued + 1 \notin Issued
      /\ \A m \in Issued : family'[m] = family[m] /\ clientOf'[m] = clientOf[m]
      /\ family'[issued + 1] = family[n]
      /\ \A m \in Issued' : family'[m] \in 1..m
  BY <1>1, <1>2, IssueAdds DEF ServerOK
<1>4. ServerTypeOK'
  BY <1>1, <1>2, <1>3 DEF ServerOK, ServerTypeOK
<1>5. ServerInv'
  BY <1>1, <1>3 DEF ServerOK, ServerInv
<1>6. OneInForce'
  <2> SUFFICES ASSUME NEW k \in Issued', NEW m \in Issued', k # m, family'[k] = family'[m]
               PROVE  {k, m} \cap dead' # {} /\ {k, m} \cap (used' \cup revoked') # {}
    BY DEF OneInForce, Issued
  <2>1. ASSUME NEW j \in Issued, family[j] = family[n]
        PROVE  j \in dead' /\ j \in used' \cup revoked'
    <3>1. CASE j = n
      BY <1>1, <3>1
    <3>2. CASE j # n
      BY <1>1, <2>1, <3>2 DEF ServerOK, OneInForce, Issued, OutOfForce
    <3> QED  BY <3>1, <3>2
  <2>2. CASE k \in Issued /\ m \in Issued
    BY <1>1, <1>3, <2>2 DEF ServerOK, OneInForce, Issued
  <2>3. CASE k = issued + 1 \/ m = issued + 1
    BY <1>3, <2>1, <2>3
  <2> QED  BY <1>3, <2>2, <2>3
<1>7. RevokedTogether'
  <2> SUFFICES ASSUME NEW r \in revoked, NEW m \in Issued', family'[m] = family'[r]
               PROVE  m \in revoked /\ m \in dead'
    BY <1>1 DEF RevokedTogether, FamilyOf, Issued
  <2>1. r \in Issued /\ family'[r] = family[r]
    BY <1>3 DEF ServerOK, ServerInv
  <2>2. CASE m \in Issued
    BY <1>1, <1>3, <2>1, <2>2 DEF ServerOK, RevokedTogether, FamilyOf, Issued
  <2>3. CASE m = issued + 1
    <3>1. n \in FamilyOf(r)
      BY <1>3, <2>1, <2>3 DEF FamilyOf, Issued
    <3> QED  BY <1>1, <3>1 DEF ServerOK, RevokedTogether
  <2> QED  BY <1>3, <2>2, <2>3
<1> QED  BY <1>4, <1>5, <1>6, <1>7 DEF ServerOK

\* A family that is revoked is revoked whole.
LEMMA RevokeKeeps ==
  ASSUME RefreshAssumption, ServerOK, NEW n \in Issued, RevokeRefreshFamily(n)
  PROVE  ServerOK'
<1>1. /\ revoked' = revoked \cup FamilyOf(n) /\ dead' = dead \cup FamilyOf(n)
      /\ UNCHANGED <<issued, family, clientOf, used, age>>
  BY DEF RevokeRefreshFamily
<1>2. Issued' = Issued /\ \A m \in Pairs : (FamilyOf(m))' = FamilyOf(m)
  BY <1>1 DEF Issued, FamilyOf
<1>3. FamilyOf(n) \subseteq Issued /\ Issued \subseteq Pairs
  BY DEF RefreshAssumption, FamilyOf, Issued, ServerOK, ServerTypeOK, Tokens, Pairs
<1>4. ServerTypeOK'
  BY <1>1, <1>3 DEF ServerOK, ServerTypeOK
<1>5. ServerInv'
  BY <1>1, <1>2, <1>3 DEF ServerOK, ServerInv
<1>6. OneInForce'
  BY <1>1, <1>2 DEF ServerOK, OneInForce, Issued
<1>7. RevokedTogether'
  <2> SUFFICES ASSUME NEW r \in revoked', NEW m \in FamilyOf(r)
               PROVE  m \in revoked' /\ m \in dead'
    BY <1>1, <1>2 DEF RevokedTogether, FamilyOf
  <2>1. CASE r \in revoked
    BY <1>1, <2>1 DEF ServerOK, RevokedTogether
  <2>2. CASE r \in FamilyOf(n)
    <3>1. m \in FamilyOf(n)
      BY <2>2 DEF FamilyOf
    <3> QED  BY <1>1, <3>1
  <2> QED  BY <1>1, <2>1, <2>2
<1> QED  BY <1>4, <1>5, <1>6, <1>7 DEF ServerOK

\* Whatever the server makes of a refresh token.
LEMMA DenyKeeps ==
  ASSUME RefreshAssumption, ServerOK, NEW n \in Issued, NEW client, Deny(n, client)
  PROVE  ServerOK' /\ UNCHANGED <<issued, family, clientOf, used, age>>
<1>1. CASE UNCHANGED tokenVars
  BY <1>1 DEF tokenVars, ServerOK, ServerTypeOK, ServerInv, OneInForce, RevokedTogether, FamilyOf, Issued
<1>2. CASE RevokeRefreshFamily(n)
  BY <1>2, RevokeKeeps DEF RevokeRefreshFamily
<1> QED  BY <1>1, <1>2 DEF Deny

\* A login starts a family.
LEMMA ApproveKeeps ==
  ASSUME RefreshAssumption, ServerOK, NEW client \in Nat, Issue(issued + 1, client), UNCHANGED <<used, dead>>
  PROVE  ServerOK'
<1>1. issued + 1 \in 1..(issued + 1) /\ revoked' = revoked /\ age' = age
  BY DEF ServerOK, ServerTypeOK, Tokens, Issue
<1>2. /\ issued' \in Tokens /\ family' \in [Pairs -> Tokens] /\ clientOf' \in [Pairs -> Nat]
      /\ Issued' = Issued \cup {issued + 1} /\ issued + 1 \notin Issued
      /\ \A m \in Issued : family'[m] = family[m] /\ clientOf'[m] = clientOf[m]
      /\ family'[issued + 1] = issued + 1
      /\ \A m \in Issued' : family'[m] \in 1..m
  BY <1>1, IssueAdds DEF ServerOK
<1>3. \A m \in Issued : family'[m] # issued + 1
  BY <1>2 DEF ServerOK, ServerTypeOK, ServerInv, Issued, Tokens
<1>4. ServerTypeOK'
  BY <1>1, <1>2 DEF ServerOK, ServerTypeOK
<1>5. ServerInv'
  BY <1>1, <1>2 DEF ServerOK, ServerInv
<1>6. OneInForce'
  <2> SUFFICES ASSUME NEW k \in Issued', NEW m \in Issued', k # m, family'[k] = family'[m]
               PROVE  {k, m} \cap dead # {} /\ {k, m} \cap (used \cup revoked) # {}
    BY <1>1 DEF OneInForce, Issued
  <2> QED  BY <1>2, <1>3 DEF ServerOK, OneInForce, Issued
<1>7. RevokedTogether'
  <2> SUFFICES ASSUME NEW r \in revoked, NEW m \in Issued', family'[m] = family'[r]
               PROVE  m \in revoked /\ m \in dead
    BY <1>1 DEF RevokedTogether, FamilyOf, Issued
  <2>1. r \in Issued
    BY DEF ServerOK, ServerInv
  <2> QED  BY <1>2, <1>3, <2>1 DEF ServerOK, RevokedTogether, FamilyOf, Issued
<1> QED  BY <1>4, <1>5, <1>6, <1>7 DEF ServerOK

\* The user's revocation of an access token.
LEMMA UserRevokesKeeps ==
  ASSUME ServerOK, NEW n \in Pairs, UserRevokes(n)
  PROVE  ServerOK'
<1>1. n \in Issued
  BY DEF UserRevokes, Issued, Pairs
<1> QED
  BY <1>1 DEF UserRevokes, ServerOK, ServerTypeOK, ServerInv, OneInForce, RevokedTogether, FamilyOf, Issued

-----------------------------------------------------------------------------
(* Types. *)

\* The server's part of the invariant.
LEMMA ServerPart ==
  ASSUME IInv
  PROVE  ServerOK
BY DEF IInv, TypeOK, ServerOK, ServerTypeOK

\* A process that goes on is still a process.
LEMMA ProcType ==
  ASSUME RefreshAssumption, TypeOK, NEW p \in Procs, NEW new \in Process, Becomes(p, new)
  PROVE  proc' \in [Procs -> Process]
BY DEF TypeOK, Becomes

LEMMA IdleType ==
  ASSUME RefreshAssumption
  PROVE  0 \in Tokens /\ Empty \in Entry /\ Idle \in Process
BY DEF RefreshAssumption, Tokens, Empty, Entry, Idle, Process, Places

\* What a process may become.
LEMMA ProcChanges ==
  ASSUME RefreshAssumption, TypeOK, NEW p \in Procs
  PROVE  /\ \A pc \in Places : [proc[p] EXCEPT !.pc = pc] \in Process
         /\ \A pc \in Places, n \in Tokens : [proc[p] EXCEPT !.pc = pc, !.pair = n] \in Process
         /\ \A pc \in Places, b \in BOOLEAN : [proc[p] EXCEPT !.pc = pc, !.early = b] \in Process
         /\ \A pc \in Places, e \in Entry : [proc[p] EXCEPT !.pc = pc, !.entry = e] \in Process
         /\ \A pc \in Places, c \in Nat : [proc[p] EXCEPT !.pc = pc, !.entry.client = c] \in Process
         /\ \A pc \in Places, n \in Tokens : [Idle EXCEPT !.pc = pc, !.token = n] \in Process
         /\ \A pc \in Places, c \in Nat : [Idle EXCEPT !.pc = pc, !.entry.client = c] \in Process
<1>1. proc[p] \in Process
  BY DEF TypeOK
<1>2. Idle \in Process
  BY IdleType
<1>3. \A x \in Process : /\ x.entry \in Entry
                         /\ \A c \in Nat : [x.entry EXCEPT !.client = c] \in Entry
  BY DEF Process, Entry
<1>4. \A x \in Process, pc \in Places, c \in Nat : [x EXCEPT !.pc = pc, !.entry.client = c] \in Process
  BY <1>3 DEF Process
<1> QED  BY <1>1, <1>2, <1>4 DEF Process

\* What refresh returns is a token to call with, or the end.
LEMMA RefreshedType ==
  ASSUME RefreshAssumption, TypeOK, NEW p \in Procs, NEW n \in Tokens, Refreshed(p, n)
  PROVE  proc' \in [Procs -> Process]
<1>1. [Idle EXCEPT !.pc = "call", !.token = n] \in Process
  BY ProcChanges DEF Places
<1>2. Idle \in Process
  BY IdleType
<1> QED  BY <1>1, <1>2, ProcType DEF Refreshed, Ends

-----------------------------------------------------------------------------
(* Steps. *)

\* What a refreshing process presents is what the file says.
LEMMA Presented ==
  ASSUME IInv, NEW p \in Callers, proc[p].pc \in Refreshing
  PROVE  /\ proc[p].entry = file /\ file.refresh = file.token /\ file.refresh \in Issued
         /\ file.client \in Nat /\ lock = p /\ p \in Procs
         /\ \A q \in Procs : q # p => proc[q].pc \notin Refreshing
<1>1. p \in Procs
  BY DEF Procs
<1>2. lock = p /\ proc[p].entry = file /\ file.refresh # 0 /\ \A q \in Procs : q # p => proc[q].pc \notin Refreshing
  BY <1>1 DEF IInv, LockInv
<1>3. file \in Entry
  BY DEF IInv, TypeOK
<1> QED  BY <1>1, <1>2, <1>3 DEF IInv, FileInv, Entry

\* Every step keeps the server's tables in order.
LEMMA ServerStep ==
  ASSUME RefreshAssumption, IInv, [Next]_vars
  PROVE  ServerOK'
<1>1. ServerOK
  BY ServerPart
<1>2. ASSUME UNCHANGED tokenVars
      PROVE  ServerOK'
  BY <1>1, <1>2 DEF tokenVars, ServerOK, ServerTypeOK, ServerInv, OneInForce, RevokedTogether, FamilyOf, Issued
<1>3. ASSUME NEW n \in Pairs, Late(n) \/ UserRevokes(n) \/ Age(n)
      PROVE  ServerOK'
  <2>1. CASE Late(n)
    <3>1. n \in Issued /\ clientOf[n] \in Nat
      BY <2>1 DEF Late, IInv, LateInv, TypeOK
    <3> QED  BY <1>1, <2>1, <3>1, RotateKeeps, DenyKeeps DEF Late
  <2>2. CASE UserRevokes(n)
    BY <1>1, <2>2, UserRevokesKeeps
  <2>3. CASE Age(n)
    <3>1. UNCHANGED <<issued, family, clientOf, used, revoked, dead>> /\ age' \in [Pairs -> 0..3]
      BY <1>1, <2>3 DEF Age, ServerOK, ServerTypeOK
    <3> QED
      BY <1>1, <3>1 DEF ServerOK, ServerTypeOK, ServerInv, OneInForce, RevokedTogether, FamilyOf, Issued
  <2> QED  BY <1>3, <2>1, <2>2, <2>3
<1>4. ASSUME NEW p \in Callers, Call(p) \/ NoAnswer(p) \/ SaveFails(p) \/ Crash(p)
      PROVE  ServerOK'
  <2>1. CASE Granted(p) \/ Denied(p)
    <3>1. proc[p].entry.refresh \in Issued /\ proc[p].entry.client \in Nat
      BY <2>1, Presented DEF Granted, Denied, Refreshing
    <3> QED  BY <1>1, <2>1, <3>1, RotateKeeps, DenyKeeps DEF Granted, Denied
  <2>2. CASE ~(Granted(p) \/ Denied(p))
    <3>1. UNCHANGED tokenVars
      BY <1>4, <2>2 DEF Call, Start, Check, UseNewer, NothingToPresent, Ask, Save, Forget, CallOnce,
         NoAnswer, SaveFails, Crash
    <3> QED  BY <1>2, <3>1
  <2> QED  BY <2>1, <2>2
<1>5. ASSUME NEW l \in Logins,
             Open(l) \/ Register(l) \/ Approve(l) \/ SaveLogin(l) \/ TimeOut(l) \/ Quit(l)
      PROVE  ServerOK'
  <2>1. CASE Approve(l)
    <3>1. proc[l].entry.client \in Nat
      BY DEF Procs, IInv, TypeOK, Process, Entry
    <3> QED  BY <1>1, <2>1, <3>1, ApproveKeeps DEF Approve
  <2>2. CASE ~Approve(l)
    <3>1. UNCHANGED tokenVars
      BY <1>5, <2>2 DEF Open, Register, SaveLogin, TimeOut, Quit, Relabels
    <3> QED  BY <1>2, <3>1
  <2> QED  BY <2>1, <2>2
<1>6. CASE UNCHANGED vars
  BY <1>2, <1>6 DEF vars
<1> QED  BY <1>3, <1>4, <1>5, <1>6 DEF Next

ClientTypeOK ==
  /\ clients \in Nat /\ file \in Entry /\ lock \in Procs \cup {NoOne}
  /\ proc \in [Procs -> Process]
  /\ late \in [Pairs -> Nat] /\ failures \in Nat
  /\ cut \in BOOLEAN

\* A request that is given up leaves counts of late requests.
LEMMA AbandonedType ==
  ASSUME IInv, NEW p \in Callers, Abandoned(p)
  PROVE  late' \in [Pairs -> Nat]
BY DEF Abandoned, IInv, TypeOK

\* Every step of a caller keeps the types.
LEMMA CallerTypes ==
  ASSUME RefreshAssumption, IInv, NEW p \in Callers, Call(p) \/ NoAnswer(p) \/ SaveFails(p) \/ Crash(p)
  PROVE  ClientTypeOK'
<1> DEFINE Same == UNCHANGED <<clients, file, lock, late, history>>
<1>1. /\ p \in Procs /\ TypeOK /\ proc[p] \in Process /\ file \in Entry /\ file.token \in Tokens
      /\ proc[p].token \in Tokens /\ proc[p].pair \in Tokens /\ proc[p].entry \in Entry /\ 0 \in Tokens
  BY IdleType DEF Procs, IInv, TypeOK, Process, Entry
<1>2. ASSUME NEW new \in Process, Becomes(p, new)
      PROVE  proc' \in [Procs -> Process]
  BY <1>1, <1>2, ProcType
<1>3. Ends(p) => proc' \in [Procs -> Process]
  BY <1>2, IdleType DEF Ends
<1>4. NotRefreshed(p) => proc' \in [Procs -> Process]
  BY <1>1, RefreshedType DEF NotRefreshed
<1>5. \A n \in Tokens : /\ [proc[p].entry EXCEPT !.token = n, !.refresh = n] \in Entry
                        /\ [proc[p].entry EXCEPT !.refresh = 0] \in Entry
  BY <1>1 DEF Entry
<1>6. Fails => failures' \in Nat /\ cut' \in BOOLEAN
  BY <1>1 DEF Fails, TypeOK
<1>7. ASSUME proc' \in [Procs -> Process], Same
      PROVE  ClientTypeOK'
  BY <1>1, <1>7 DEF ClientTypeOK, TypeOK, history
<1>8. CASE Start(p) \/ Check(p) \/ UseNewer(p) \/ NothingToPresent(p) \/ CallOnce(p) \/ Granted(p) \/ Denied(p)
  <2>1. Same
    BY <1>8 DEF Start, Check, UseNewer, NothingToPresent, CallOnce, Granted, Denied
  <2>2. Granted(p) => issued + 1 \in Tokens
    BY <1>1 DEF Granted, Rotate, Issue, TypeOK, Tokens
  <2>3. proc' \in [Procs -> Process]
    <3>1. CASE Start(p)
      <4>1. [Idle EXCEPT !.pc = "check", !.token = file.token] \in Process
        BY <1>1, ProcChanges DEF Places
      <4> QED  BY <1>2, <3>1, <4>1 DEF Start
    <3>2. CASE Check(p)
      BY <1>1, <1>2, <3>2, ProcChanges DEF Check, Going, Places
    <3>3. CASE UseNewer(p)
      BY <1>1, <3>3, RefreshedType DEF UseNewer
    <3>4. CASE NothingToPresent(p)
      BY <1>4, <3>4 DEF NothingToPresent
    <3>5. CASE CallOnce(p)
      BY <1>1, <1>2, <1>3, <3>5, ProcChanges DEF CallOnce, Places
    <3>6. CASE Granted(p)
      BY <1>1, <1>2, <2>2, <3>6, ProcChanges DEF Granted, Places
    <3>7. CASE Denied(p)
      BY <1>1, <1>2, <3>7, ProcChanges DEF Denied, Going, Places
    <3> QED  BY <1>8, <3>1, <3>2, <3>3, <3>4, <3>5, <3>6, <3>7
  <2> QED  BY <1>7, <2>1, <2>3
<1>9. CASE Ask(p)
  <2>1. proc' \in [Procs -> Process]
    BY <1>1, <1>2, <1>9, ProcChanges DEF Ask, Places
  <2> QED  BY <1>1, <1>9, <2>1 DEF Ask, ClientTypeOK, TypeOK, history
<1>10. CASE Save(p)
  BY <1>1, <1>5, <1>10, RefreshedType DEF Save, Unlock, ClientTypeOK, TypeOK, history
<1>11. CASE Forget(p)
  BY <1>1, <1>4, <1>5, <1>11 DEF Forget, Unlock, ClientTypeOK, TypeOK, history
<1>12. CASE NoAnswer(p)
  BY <1>1, <1>4, <1>6, <1>12, AbandonedType DEF NoAnswer, Unlock, ClientTypeOK, TypeOK
<1>13. CASE SaveFails(p)
  BY <1>1, <1>3, <1>6, <1>13 DEF SaveFails, Unlock, ClientTypeOK, TypeOK
<1>14. CASE Crash(p)
  <2>1. late' \in [Pairs -> Nat]
    BY <1>1, <1>14, AbandonedType DEF Crash, TypeOK
  <2> QED  BY <1>1, <1>3, <1>6, <1>14, <2>1 DEF Crash, Release, ClientTypeOK, TypeOK
<1> QED  BY <1>8, <1>9, <1>10, <1>11, <1>12, <1>13, <1>14 DEF Call

\* Every step of a login keeps the types.
LEMMA LoginTypes ==
  ASSUME RefreshAssumption, IInv, NEW l \in Logins,
         Open(l) \/ Register(l) \/ Approve(l) \/ SaveLogin(l) \/ TimeOut(l) \/ Quit(l)
  PROVE  ClientTypeOK'
<1>1. /\ l \in Procs /\ TypeOK /\ proc[l] \in Process /\ file \in Entry /\ clients \in Nat
      /\ proc[l].pair \in Tokens /\ proc[l].entry \in Entry
  BY DEF Procs, IInv, TypeOK, Process
<1>2. ASSUME NEW new \in Process, Becomes(l, new)
      PROVE  proc' \in [Procs -> Process]
  BY <1>1, <1>2, ProcType
<1>3. Ends(l) => proc' \in [Procs -> Process]
  BY <1>2, IdleType DEF Ends
<1>4. \A c \in Nat : /\ [file EXCEPT !.client = c] \in Entry
                     /\ [token |-> proc[l].pair, refresh |-> proc[l].pair, client |-> c] \in Entry
  BY <1>1 DEF Entry
<1>5. file.client \in Nat /\ proc[l].entry.client \in Nat
  BY <1>1 DEF Entry
<1>6. CASE Open(l)
  BY <1>1, <1>2, <1>5, <1>6, ProcChanges DEF Open, Places, ClientTypeOK, TypeOK, history
<1>7. CASE Register(l)
  <2> DEFINE new == clients + 1
  <2>1. new \in Nat
    BY <1>1
  <2>2. [proc[l] EXCEPT !.pc = "registered", !.entry.client = new] \in Process
    BY <1>1, <2>1, ProcChanges DEF Places
  <2>3. proc' = [proc EXCEPT ![l] = [proc[l] EXCEPT !.pc = "registered", !.entry.client = new]]
    BY <1>7 DEF Register, Becomes
  <2>4. proc' \in [Procs -> Process]
    BY <1>1, <2>2, <2>3, <1>2 DEF Becomes
  <2>5. file' \in Entry /\ clients' \in Nat
    BY <1>4, <1>7, <2>1 DEF Register, Relabels
  <2> QED  BY <1>1, <1>7, <2>4, <2>5 DEF Register, Relabels, ClientTypeOK, TypeOK, history
<1>8. CASE Approve(l)
  <2>1. issued + 1 \in Tokens
    BY <1>1, <1>8 DEF Approve, Issue, TypeOK, Tokens
  <2>2. [proc[l] EXCEPT !.pc = "approved", !.pair = issued + 1] \in Process
    BY <1>1, <2>1, ProcChanges DEF Places
  <2> QED  BY <1>1, <1>2, <1>8, <2>2 DEF Approve, ClientTypeOK, TypeOK, history
<1>9. CASE SaveLogin(l)
  BY <1>1, <1>3, <1>4, <1>5, <1>9 DEF SaveLogin, ClientTypeOK, TypeOK, history
<1>10. CASE TimeOut(l)
  BY <1>1, <1>3, <1>4, <1>10 DEF TimeOut, Relabels, ClientTypeOK, TypeOK, history
<1>11. CASE Quit(l)
  BY <1>1, <1>3, <1>11 DEF Quit, ClientTypeOK, TypeOK, history
<1> QED  BY <1>6, <1>7, <1>8, <1>9, <1>10, <1>11

\* Types are kept.
LEMMA TypeStep ==
  ASSUME RefreshAssumption, IInv, [Next]_vars
  PROVE  TypeOK'
<1>1. ServerTypeOK'
  BY ServerStep DEF ServerOK
<1>2. TypeOK
  BY DEF IInv
<1>3. ClientTypeOK'
  <2>1. ASSUME NEW n \in Pairs, Late(n) \/ UserRevokes(n) \/ Age(n)
        PROVE  ClientTypeOK'
    <3>1. late' \in [Pairs -> Nat]
      BY <1>2, <2>1 DEF Late, UserRevokes, Age, TypeOK
    <3>2. cut' \in BOOLEAN
      BY <1>2, <2>1 DEF Late, UserRevokes, Age, TypeOK, history
    <3>3. UNCHANGED <<clients, file, lock, proc, failures>>
      BY <2>1 DEF Late, UserRevokes, Age, history
    <3> QED  BY <1>2, <3>1, <3>2, <3>3 DEF ClientTypeOK, TypeOK
  <2>2. CASE UNCHANGED vars
    BY <1>2, <2>2 DEF vars, ClientTypeOK, TypeOK, history
  <2> QED  BY <2>1, <2>2, CallerTypes, LoginTypes DEF Next
<1> QED  BY <1>1, <1>3 DEF ServerTypeOK, ClientTypeOK, TypeOK

\* One process moves at a time.
LEMMA Moves ==
  ASSUME TypeOK, NEW p \in Procs, NEW new, Becomes(p, new)
  PROVE  proc'[p] = new /\ \A q \in Procs : q # p => proc'[q] = proc[q]
BY DEF Becomes, TypeOK

LEMMA GoingMoves ==
  ASSUME TypeOK, NEW p \in Procs, NEW pc, Going(p, pc)
  PROVE  /\ proc'[p].pc = pc /\ proc'[p].entry = proc[p].entry /\ proc'[p].pair = proc[p].pair
         /\ \A q \in Procs : q # p => proc'[q] = proc[q]
BY DEF Going, Becomes, TypeOK, Process

\* The places where refresh ends.
LEMMA AfterRefresh ==
  ASSUME TypeOK, NEW p \in Procs, NEW n, Refreshed(p, n) \/ NotRefreshed(p) \/ Ends(p)
  PROVE  proc'[p].pc \in {"call", "idle"} /\ \A q \in Procs : q # p => proc'[q] = proc[q]
<1>1. ASSUME NEW m, Refreshed(p, m)
      PROVE  proc'[p].pc \in {"call", "idle"} /\ \A q \in Procs : q # p => proc'[q] = proc[q]
  <2>1. CASE proc[p].early
    BY <1>1, <2>1 DEF Refreshed, Idle, Becomes, TypeOK
  <2>2. CASE ~proc[p].early
    BY <1>1, <2>2, Moves DEF Refreshed, Ends, Idle
  <2> QED  BY <2>1, <2>2
<1>2. Ends(p) => proc'[p].pc = "idle" /\ \A q \in Procs : q # p => proc'[q] = proc[q]
  BY Moves DEF Ends, Idle
<1> QED  BY <1>1, <1>2 DEF NotRefreshed

\* Callers keep the lock as it should be.
LEMMA CallerLock ==
  ASSUME RefreshAssumption, IInv, NEW p \in Callers, Call(p) \/ NoAnswer(p) \/ SaveFails(p) \/ Crash(p)
  PROVE  LockInv'
<1>1. /\ p \in Procs /\ p \notin Logins /\ p # NoOne /\ NoOne \notin Procs /\ TypeOK /\ LockInv
      /\ Callers \subseteq Procs /\ Logins \subseteq Procs
  BY DEF RefreshAssumption, Procs, IInv
<1>2. ASSUME UNCHANGED <<file, lock>>, proc[p].pc \notin Refreshing, proc'[p].pc \notin Refreshing,
             \A q \in Procs : q # p => proc'[q] = proc[q]
      PROVE  LockInv'
  BY <1>1, <1>2 DEF LockInv
<1>3. ASSUME lock' = NoOne, proc[p].pc \in Refreshing, proc'[p].pc \notin Refreshing,
             \A q \in Procs : q # p => proc'[q] = proc[q]
      PROVE  LockInv'
  <2>1. \A q \in Procs : proc'[q].pc \notin Refreshing
    BY <1>1, <1>3 DEF LockInv
  <2> QED  BY <1>1, <1>3, <2>1 DEF LockInv
<1>4. CASE Start(p) \/ Check(p) \/ CallOnce(p)
  <2>1. /\ proc[p].pc \in {"idle", "check", "call"} /\ proc'[p].pc \in {"check", "lock", "call", "idle"}
        /\ \A q \in Procs : q # p => proc'[q] = proc[q]
    <3>1. CASE Start(p)
      BY <1>1, <3>1 DEF Start, Idle, Becomes, TypeOK
    <3>2. CASE Check(p)
      <4>1. CASE Going(p, "call")
        BY <1>1, <3>2, <4>1, GoingMoves DEF Check
      <4>2. CASE Becomes(p, [proc[p] EXCEPT !.pc = "lock", !.early = TRUE])
        BY <1>1, <3>2, <4>2 DEF Check, Becomes, TypeOK, Process
      <4> QED  BY <3>2, <4>1, <4>2 DEF Check
    <3>3. CASE CallOnce(p)
      <4>1. CASE Ends(p)
        BY <1>1, <3>3, <4>1, AfterRefresh DEF CallOnce
      <4>2. CASE Becomes(p, [proc[p] EXCEPT !.pc = "lock", !.early = FALSE])
        BY <1>1, <3>3, <4>2 DEF CallOnce, Becomes, TypeOK, Process
      <4> QED  BY <3>3, <4>1, <4>2 DEF CallOnce
    <3> QED  BY <1>4, <3>1, <3>2, <3>3
  <2>2. UNCHANGED <<file, lock>>
    BY <1>4 DEF Start, Check, CallOnce
  <2> QED  BY <1>2, <2>1, <2>2 DEF Refreshing
<1>5. CASE UseNewer(p) \/ NothingToPresent(p)
  <2>1. /\ proc[p].pc = "lock" /\ proc'[p].pc \in {"call", "idle"} /\ UNCHANGED <<file, lock>>
        /\ \A q \in Procs : q # p => proc'[q] = proc[q]
    BY <1>1, <1>5, AfterRefresh DEF UseNewer, NothingToPresent, Locked
  <2> QED  BY <1>2, <2>1 DEF Refreshing
<1>6. CASE Ask(p)
  <2>1. proc'[p].pc = "asked" /\ proc'[p].entry = file /\ \A q \in Procs : q # p => proc'[q] = proc[q]
    BY <1>1, <1>6 DEF Ask, Becomes, TypeOK, Process
  <2>2. lock = NoOne /\ lock' = p /\ file' = file /\ file.refresh # 0
    BY <1>6 DEF Ask, Locked
  <2>3. \A q \in Procs : q # p => proc[q].pc \notin Refreshing
    BY <1>1, <2>2 DEF LockInv
  <2> QED  BY <1>1, <2>1, <2>2, <2>3 DEF LockInv, Refreshing
<1>7. CASE Granted(p) \/ Denied(p)
  <2>1. /\ proc[p].pc = "asked" /\ proc'[p].pc \in Refreshing /\ proc'[p].entry = proc[p].entry
        /\ UNCHANGED <<file, lock>> /\ \A q \in Procs : q # p => proc'[q] = proc[q]
    <3>1. CASE Granted(p)
      BY <1>1, <3>1 DEF Granted, Becomes, TypeOK, Process, Refreshing
    <3>2. CASE Denied(p)
      BY <1>1, <3>2, GoingMoves DEF Denied, Refreshing
    <3> QED  BY <1>7, <3>1, <3>2
  <2> QED  BY <1>1, <2>1 DEF LockInv, Refreshing
<1>8. CASE Save(p) \/ Forget(p) \/ NoAnswer(p) \/ SaveFails(p)
  <2>1. /\ proc[p].pc \in Refreshing /\ proc'[p].pc \in {"call", "idle"} /\ lock' = NoOne
        /\ \A q \in Procs : q # p => proc'[q] = proc[q]
    BY <1>1, <1>8, AfterRefresh DEF Save, Forget, NoAnswer, SaveFails, Unlock, Refreshing
  <2> QED  BY <1>3, <2>1 DEF Refreshing
<1>9. CASE Crash(p)
  <2>1. /\ proc'[p].pc = "idle" /\ file' = file /\ lock' = (IF lock = p THEN NoOne ELSE lock)
        /\ \A q \in Procs : q # p => proc'[q] = proc[q]
    BY <1>1, <1>9, Moves DEF Crash, Ends, Release, Idle
  <2>2. CASE proc[p].pc \in Refreshing
    <3>1. lock = p
      BY <1>1, <2>2 DEF LockInv
    <3> QED  BY <1>3, <2>1, <2>2, <3>1 DEF Refreshing
  <2>3. CASE proc[p].pc \notin Refreshing
    <3>1. lock # p
      BY <1>1, <2>3 DEF LockInv
    <3> QED  BY <1>2, <2>1, <2>3, <3>1 DEF Refreshing
  <2> QED  BY <2>2, <2>3
<1> QED  BY <1>4, <1>5, <1>6, <1>7, <1>8, <1>9 DEF Call

\* Where a login goes, and that it changes the file only when nobody holds the lock.
LEMMA LoginMoves ==
  ASSUME RefreshAssumption, IInv, NEW l \in Logins,
         Open(l) \/ Register(l) \/ Approve(l) \/ SaveLogin(l) \/ TimeOut(l) \/ Quit(l)
  PROVE  /\ l \in Procs /\ proc[l].pc \in LoginPlaces /\ proc'[l].pc \in LoginPlaces
         /\ (proc'[l].pc = "approved" => Approve(l))
         /\ \A q \in Procs : q # l => proc'[q] = proc[q]
         /\ lock' = lock /\ (file' = file \/ lock = NoOne)
<1>1. l \in Procs /\ TypeOK /\ proc[l].pc \in LoginPlaces
  BY DEF Procs, IInv, LockInv
<1>2. CASE Open(l)
  BY <1>1, <1>2 DEF Open, LoginPlaces, Idle, Becomes, TypeOK
<1>3. CASE Register(l)
  BY <1>1, <1>3 DEF Register, Relabels, LoginPlaces, Becomes, TypeOK, Process
<1>4. CASE Approve(l)
  BY <1>1, <1>4 DEF Approve, LoginPlaces, Becomes, TypeOK, Process
<1>5. CASE SaveLogin(l)
  BY <1>1, <1>5, Moves DEF SaveLogin, Ends, LoginPlaces, Idle
<1>6. CASE TimeOut(l)
  BY <1>1, <1>6, Moves DEF TimeOut, Relabels, Ends, LoginPlaces, Idle
<1>7. CASE Quit(l)
  BY <1>1, <1>7, Moves DEF Quit, Ends, LoginPlaces, Idle
<1> QED  BY <1>2, <1>3, <1>4, <1>5, <1>6, <1>7

\* The lock is kept as it should be.
LEMMA LockStep ==
  ASSUME RefreshAssumption, IInv, [Next]_vars
  PROVE  LockInv'
<1>1. LockInv /\ Callers \subseteq Procs /\ Logins \subseteq Procs /\ Callers \cap Logins = {} /\ NoOne \notin Procs
  BY DEF IInv, Procs, RefreshAssumption
<1>2. ASSUME UNCHANGED <<file, lock, proc>>
      PROVE  LockInv'
  BY <1>1, <1>2 DEF LockInv
<1>3. ASSUME NEW n \in Pairs, Late(n) \/ UserRevokes(n) \/ Age(n)
      PROVE  LockInv'
  BY <1>2, <1>3 DEF Late, UserRevokes, Age
<1>4. ASSUME NEW l \in Logins,
             Open(l) \/ Register(l) \/ Approve(l) \/ SaveLogin(l) \/ TimeOut(l) \/ Quit(l)
      PROVE  LockInv'
  <2>1. /\ l \in Procs /\ proc[l].pc \in LoginPlaces /\ proc'[l].pc \in LoginPlaces
        /\ \A q \in Procs : q # l => proc'[q] = proc[q]
        /\ lock' = lock /\ (file' = file \/ lock = NoOne)
    BY <1>4, LoginMoves
  <2>2. \A q \in Procs : q \notin Logins => proc'[q] = proc[q]
    BY <2>1
  <2>3. ASSUME NEW p \in Callers, proc'[p].pc \in Refreshing
        PROVE  proc'[p].entry = file' /\ file'.refresh # 0
    <3>1. p \in Procs /\ proc'[p] = proc[p]
      BY <1>1, <2>2
    <3>2. lock = p
      BY <1>1, <2>3, <3>1 DEF LockInv
    <3>3. file' = file
      BY <1>1, <2>1, <3>1, <3>2
    <3> QED  BY <1>1, <2>3, <3>1, <3>3 DEF LockInv
  <2>4. \A q \in Procs : lock' = q <=> proc'[q].pc \in Refreshing
    BY <1>1, <2>1 DEF LockInv, LoginPlaces, Refreshing
  <2>5. \A m \in Logins : proc'[m].pc \in LoginPlaces
    BY <1>1, <2>1 DEF LockInv
  <2> QED  BY <2>3, <2>4, <2>5 DEF LockInv
<1>5. CASE UNCHANGED vars
  BY <1>2, <1>5 DEF vars
<1> QED  BY <1>3, <1>4, <1>5, CallerLock DEF Next

\* Where a caller goes.
LEMMA CallerMoves ==
  ASSUME IInv, NEW p \in Callers, Call(p) \/ NoAnswer(p) \/ SaveFails(p) \/ Crash(p)
  PROVE  /\ p \in Procs /\ \A q \in Procs : q # p => proc'[q] = proc[q]
         /\ \/ Granted(p) /\ proc'[p].pc = "granted" /\ proc'[p].pair = issued + 1 /\ proc'[p].entry = proc[p].entry
            \/ Denied(p) /\ proc'[p].pc = "invalid"
            \/ (Save(p) \/ Forget(p)) /\ proc'[p].pc \in {"call", "idle"}
            \/ /\ proc'[p].pc \notin {"granted", "invalid", "approved"}
               /\ UNCHANGED <<tokenVars, clients, file>>
<1>1. p \in Procs /\ TypeOK
  BY DEF Procs, IInv
<1>2. CASE Granted(p)
  BY <1>1, <1>2 DEF Granted, Becomes, TypeOK, Process
<1>3. CASE Denied(p)
  BY <1>1, <1>3, GoingMoves DEF Denied
<1>4. CASE Save(p) \/ Forget(p)
  BY <1>1, <1>4, AfterRefresh DEF Save, Forget
<1>5. CASE UseNewer(p) \/ NothingToPresent(p) \/ NoAnswer(p) \/ SaveFails(p) \/ Crash(p)
  BY <1>1, <1>5, AfterRefresh DEF UseNewer, NothingToPresent, NoAnswer, SaveFails, Crash
<1>6. CASE Start(p)
  BY <1>1, <1>6 DEF Start, Idle, Becomes, TypeOK
<1>7. CASE Check(p)
  <2>1. CASE Going(p, "call")
    BY <1>1, <1>7, <2>1, GoingMoves DEF Check
  <2>2. CASE Becomes(p, [proc[p] EXCEPT !.pc = "lock", !.early = TRUE])
    BY <1>1, <1>7, <2>2 DEF Check, Becomes, TypeOK, Process
  <2> QED  BY <1>7, <2>1, <2>2 DEF Check
<1>8. CASE Ask(p)
  BY <1>1, <1>8 DEF Ask, Becomes, TypeOK, Process
<1>9. CASE CallOnce(p)
  <2>1. CASE Ends(p)
    BY <1>1, <1>9, <2>1, AfterRefresh DEF CallOnce
  <2>2. CASE Becomes(p, [proc[p] EXCEPT !.pc = "lock", !.early = FALSE])
    BY <1>1, <1>9, <2>2 DEF CallOnce, Becomes, TypeOK, Process
  <2> QED  BY <1>9, <2>1, <2>2 DEF CallOnce
<1> QED  BY <1>1, <1>2, <1>3, <1>4, <1>5, <1>6, <1>7, <1>8, <1>9 DEF Call

\* Pairs are only added.
LEMMA Grows ==
  ASSUME RefreshAssumption, IInv, [Next]_vars
  PROVE  /\ Issued \subseteq Issued'
         /\ issued' = issued \/ (issued' = issued + 1 /\ issued + 1 \in Issued')
<1>1. issued' = issued \/ issued' = issued + 1
  <2>1. ASSUME NEW n \in Pairs, Late(n) \/ UserRevokes(n) \/ Age(n)
        PROVE  issued' = issued \/ issued' = issued + 1
    BY <2>1 DEF Late, UserRevokes, Age, Rotate, Issue, Deny, RevokeRefreshFamily, tokenVars
  <2>2. ASSUME NEW p \in Callers, Call(p) \/ NoAnswer(p) \/ SaveFails(p) \/ Crash(p)
        PROVE  issued' = issued \/ issued' = issued + 1
    BY <2>2, CallerMoves DEF Granted, Denied, Save, Forget, Rotate, Issue, Deny, RevokeRefreshFamily, tokenVars
  <2>3. ASSUME NEW l \in Logins,
               Open(l) \/ Register(l) \/ Approve(l) \/ SaveLogin(l) \/ TimeOut(l) \/ Quit(l)
        PROVE  issued' = issued \/ issued' = issued + 1
    BY <2>3 DEF Open, Register, Approve, SaveLogin, TimeOut, Quit, Relabels, Issue, tokenVars
  <2>4. CASE UNCHANGED vars
    BY <2>4 DEF vars, tokenVars
  <2> QED  BY <2>1, <2>2, <2>3, <2>4 DEF Next
<1>2. issued \in Nat
  BY DEF IInv, TypeOK, Tokens, RefreshAssumption
<1>3. CASE issued' = issued
  BY <1>3 DEF Issued
<1>4. CASE issued' = issued + 1
  BY <1>2, <1>4 DEF Issued
<1> QED  BY <1>1, <1>3, <1>4

\* What the file and the processes hold was issued.
LEMMA FileStep ==
  ASSUME RefreshAssumption, IInv, [Next]_vars
  PROVE  FileInv'
<1>1. /\ FileInv /\ Issued \subseteq Issued' /\ 0 \notin Issued
      /\ (issued' = issued \/ issued + 1 \in Issued')
  BY Grows DEF IInv, Issued
<1>2. ASSUME UNCHANGED <<file, proc>>
      PROVE  FileInv'
  BY <1>1, <1>2 DEF FileInv, OnTheWay
<1>3. ASSUME NEW n \in Pairs, Late(n) \/ UserRevokes(n) \/ Age(n)
      PROVE  FileInv'
  BY <1>2, <1>3 DEF Late, UserRevokes, Age
<1>4. ASSUME NEW p \in Callers, Call(p) \/ NoAnswer(p) \/ SaveFails(p) \/ Crash(p)
      PROVE  FileInv'
  <2>1. p \in Procs /\ \A q \in Procs : q # p => proc'[q] = proc[q]
    BY <1>4, CallerMoves
  <2>2. CASE Granted(p) /\ proc'[p].pair = issued + 1
    <3>1. issued' = issued + 1 /\ file' = file
      BY <2>2 DEF Granted, Rotate, Issue
    <3>2. issued + 1 \in Issued'
      BY <1>1, <3>1 DEF IInv, TypeOK, Tokens
    <3> QED  BY <1>1, <2>1, <2>2, <3>1, <3>2 DEF FileInv, OnTheWay
  <2>3. CASE Denied(p) /\ proc'[p].pc = "invalid"
    BY <1>1, <2>1, <2>3 DEF Denied, FileInv, OnTheWay
  <2>4. CASE (Save(p) \/ Forget(p)) /\ proc'[p].pc \in {"call", "idle"}
    <3>1. file'.token \in Issued' /\ file'.refresh \in {0, file'.token}
      <4>1. CASE Save(p)
        <5>1. p \in OnTheWay /\ file' = [proc[p].entry EXCEPT !.token = proc[p].pair, !.refresh = proc[p].pair]
          BY <2>1, <4>1 DEF Save, OnTheWay
        <5>2. proc[p].entry \in Entry
          BY <2>1 DEF IInv, TypeOK, Process
        <5> QED  BY <1>1, <5>1, <5>2 DEF FileInv, Entry
      <4>2. CASE Forget(p)
        <5>1. proc[p].entry = file /\ file.token \in Issued /\ file \in Entry
          BY <4>2, Presented DEF Forget, Refreshing, IInv, TypeOK
        <5> QED  BY <1>1, <4>2, <5>1 DEF Forget, Entry
      <4> QED  BY <2>4, <4>1, <4>2
    <3> QED  BY <1>1, <2>1, <2>4, <3>1 DEF FileInv, OnTheWay
  <2>5. CASE proc'[p].pc \notin {"granted", "invalid", "approved"} /\ UNCHANGED <<tokenVars, clients, file>>
    BY <1>1, <2>1, <2>5 DEF FileInv, OnTheWay
  <2> QED  BY <1>4, <2>2, <2>3, <2>4, <2>5, CallerMoves
<1>5. ASSUME NEW l \in Logins,
             Open(l) \/ Register(l) \/ Approve(l) \/ SaveLogin(l) \/ TimeOut(l) \/ Quit(l)
      PROVE  FileInv'
  <2>1. /\ l \in Procs /\ proc'[l].pc \in LoginPlaces /\ (proc'[l].pc = "approved" => Approve(l))
        /\ \A q \in Procs : q # l => proc'[q] = proc[q]
    BY <1>5, LoginMoves
  <2>2. Approve(l) => proc'[l].pair \in Issued'
    <3>1. SUFFICES ASSUME Approve(l)
                   PROVE  proc'[l].pair \in Issued'
      OBVIOUS
    <3>2. issued' = issued + 1 /\ proc'[l].pair = issued + 1
      BY <2>1, <3>1 DEF Approve, Issue, Becomes, IInv, TypeOK, Process
    <3> QED  BY <1>1, <3>2 DEF IInv, TypeOK, Tokens
  <2>3. \A q \in OnTheWay' : proc'[q].pair \in Issued'
    BY <1>1, <2>1, <2>2 DEF FileInv, OnTheWay, LoginPlaces
  <2>4. file \in Entry
    BY DEF IInv, TypeOK
  <2>5. file'.token \in Issued \cup {0} /\ file'.refresh \in {0, file'.token}
    <3>1. CASE SaveLogin(l)
      <4>1. l \in OnTheWay
        BY <2>1, <3>1 DEF SaveLogin, OnTheWay
      <4> QED  BY <1>1, <3>1, <4>1 DEF SaveLogin, FileInv
    <3>2. CASE Register(l) \/ TimeOut(l)
      BY <1>1, <2>4, <3>2 DEF Register, TimeOut, Relabels, FileInv, Entry
    <3>3. CASE Open(l) \/ Approve(l) \/ Quit(l)
      BY <1>1, <3>3 DEF Open, Approve, Quit, FileInv
    <3> QED  BY <1>5, <3>1, <3>2, <3>3
  <2> QED  BY <1>1, <2>3, <2>5 DEF FileInv
<1>6. CASE UNCHANGED vars
  BY <1>2, <1>6 DEF vars
<1> QED  BY <1>3, <1>4, <1>5, <1>6 DEF Next

\* Late requests present pairs that were issued.
LEMMA LateStep ==
  ASSUME RefreshAssumption, IInv, [Next]_vars
  PROVE  LateInv'
<1>1. LateInv /\ Issued \subseteq Issued' /\ late \in [Pairs -> Nat]
  BY Grows DEF IInv, TypeOK
<1>2. ASSUME late' = late
      PROVE  LateInv'
  BY <1>1, <1>2 DEF LateInv
<1>3. ASSUME NEW n \in Pairs, Late(n) \/ UserRevokes(n) \/ Age(n)
      PROVE  LateInv'
  BY <1>1, <1>2, <1>3 DEF Late, UserRevokes, Age, LateInv
<1>4. ASSUME NEW p \in Callers, proc[p].pc = "asked", Abandoned(p)
      PROVE  LateInv'
  <2>1. proc[p].entry.refresh \in Issued
    BY <1>4, Presented DEF Refreshing
  <2> QED  BY <1>1, <1>4, <2>1 DEF Abandoned, LateInv
<1>5. ASSUME NEW p \in Callers, Call(p) \/ NoAnswer(p) \/ SaveFails(p) \/ Crash(p)
      PROVE  LateInv'
  <2>1. CASE NoAnswer(p)
    BY <1>4, <2>1 DEF NoAnswer
  <2>2. CASE Crash(p)
    BY <1>2, <1>4, <2>2 DEF Crash
  <2>3. CASE Call(p) \/ SaveFails(p)
    BY <1>2, <2>3 DEF Call, Start, Check, UseNewer, NothingToPresent, Ask, Granted, Denied, Save, Forget,
       CallOnce, SaveFails
  <2> QED  BY <1>5, <2>1, <2>2, <2>3
<1>6. ASSUME NEW l \in Logins,
             Open(l) \/ Register(l) \/ Approve(l) \/ SaveLogin(l) \/ TimeOut(l) \/ Quit(l)
      PROVE  LateInv'
  BY <1>2, <1>6 DEF Open, Register, Approve, SaveLogin, TimeOut, Quit, Relabels
<1>7. CASE UNCHANGED vars
  BY <1>2, <1>7 DEF vars
<1> QED  BY <1>3, <1>5, <1>6, <1>7 DEF Next

\* Clients that are in use are registered ones.
LEMMA ClientStep ==
  ASSUME RefreshAssumption, IInv, [Next]_vars
  PROVE  ClientInv'
<1>1. /\ ClientInv /\ clients \in Nat /\ file \in Entry /\ Logins \subseteq Procs /\ Callers \cap Logins = {}
      /\ ServerOK
  BY ServerPart DEF IInv, TypeOK, Procs, RefreshAssumption
<1> DEFINE Using(l) == proc[l].pc \in {"reusing", "registered", "approved"}
           Moved == /\ file'.client \in 0..clients'
                    /\ \A l \in Logins : (Using(l) => proc[l].entry.client \in 1..clients)'
           Known == \A n \in Issued' : clientOf'[n] \in 1..clients'
<1>2. ASSUME UNCHANGED <<issued, clientOf>>, clients' \in {clients, clients + 1}
      PROVE  Known
  BY <1>1, <1>2 DEF ClientInv, Issued
<1>3. ASSUME NEW fam \in 1..(issued + 1), NEW client \in 1..clients, Issue(fam, client), clients' = clients
      PROVE  Known
  <2>1. /\ Issued' = Issued \cup {issued + 1} /\ clientOf'[issued + 1] = client
        /\ \A n \in Issued : clientOf'[n] = clientOf[n]
    BY <1>1, <1>3, IssueAdds DEF ServerOK
  <2> QED  BY <1>1, <1>3, <2>1 DEF ClientInv
<1>4. ASSUME NEW n \in Issued, Rotate(n, clientOf[n]) \/ Deny(n, clientOf[n]), clients' = clients
      PROVE  Known
  <2>1. CASE Rotate(n, clientOf[n])
    <3>1. clientOf[n] \in 1..clients /\ family[n] \in 1..(issued + 1)
      BY <1>1 DEF ClientInv, ServerOK, ServerTypeOK, ServerInv, Issued, Tokens
    <3> QED  BY <1>3, <1>4, <2>1, <3>1 DEF Rotate
  <2>2. CASE Deny(n, clientOf[n])
    BY <1>1, <1>2, <1>4, <2>2, DenyKeeps
  <2> QED  BY <1>4, <2>1, <2>2
<1>5. ASSUME UNCHANGED <<clients, file>>, \A l \in Logins : proc'[l] = proc[l]
      PROVE  Moved
  BY <1>1, <1>5 DEF ClientInv
<1> HIDE DEF Known, Moved
<1>6. ASSUME NEW n \in Pairs, Late(n) \/ UserRevokes(n) \/ Age(n)
      PROVE  Known /\ Moved
  <2>1. Moved
    BY <1>5, <1>6 DEF Late, UserRevokes, Age
  <2>2. CASE Late(n)
    BY <1>4, <2>1, <2>2 DEF Late, IInv, LateInv
  <2>3. CASE UserRevokes(n) \/ Age(n)
    BY <1>2, <2>1, <2>3 DEF UserRevokes, Age
  <2> QED  BY <1>6, <2>1, <2>2, <2>3
<1>7. ASSUME NEW p \in Callers, Call(p) \/ NoAnswer(p) \/ SaveFails(p) \/ Crash(p)
      PROVE  Known /\ Moved
  <2>1. \A l \in Logins : proc'[l] = proc[l]
    BY <1>1, <1>7, CallerMoves
  <2>2. CASE Granted(p) \/ Denied(p)
    <3>1. /\ proc[p].entry = file /\ file.refresh \in Issued /\ clients' = clients /\ file' = file
      BY <2>2, Presented DEF Granted, Denied, Refreshing
    <3>2. CASE clientOf[file.refresh] = file.client
      BY <1>4, <1>5, <2>1, <2>2, <3>1, <3>2 DEF Granted, Denied
    <3>3. CASE clientOf[file.refresh] # file.client
      <4>1. UNCHANGED tokenVars
        BY <2>2, <3>1, <3>3 DEF Granted, Denied, Rotate, Deny
      <4> QED  BY <1>2, <1>5, <2>1, <3>1, <4>1 DEF tokenVars
    <3> QED  BY <3>2, <3>3
  <2>3. CASE Save(p) \/ Forget(p)
    <3>1. proc[p].entry = file /\ clients' = clients /\ UNCHANGED <<issued, clientOf>>
      BY <2>3, Presented DEF Save, Forget, Refreshing, tokenVars
    <3>2. file'.client = file.client
      BY <1>1, <2>3, <3>1 DEF Save, Forget, Entry
    <3> QED  BY <1>1, <1>2, <2>1, <3>1, <3>2 DEF ClientInv, Moved
  <2>4. CASE UNCHANGED <<tokenVars, clients, file>>
    BY <1>2, <1>5, <2>1, <2>4 DEF tokenVars
  <2> QED  BY <1>7, <2>2, <2>3, <2>4, CallerMoves
<1>8. ASSUME NEW l \in Logins,
             Open(l) \/ Register(l) \/ Approve(l) \/ SaveLogin(l) \/ TimeOut(l) \/ Quit(l)
      PROVE  Known /\ Moved
  <2>1. /\ l \in Procs /\ \A m \in Logins : m # l => proc'[m] = proc[m]
        /\ TypeOK /\ proc[l] \in Process /\ proc[l].entry \in Entry
    BY <1>1, <1>8, LoginMoves DEF IInv, TypeOK, Process
  <2>2. ASSUME file'.client \in 0..clients', clients' \in {clients, clients + 1},
               Using(l)' => proc'[l].entry.client \in 1..clients'
        PROVE  Moved
    BY <1>1, <2>1, <2>2 DEF ClientInv, Moved
  <2>3. CASE Open(l)
    <3>1. UNCHANGED <<tokenVars, clients, file>>
      BY <2>3 DEF Open
    <3>2. /\ proc'[l].pc = (IF file.client = 0 THEN "register" ELSE "reusing")
          /\ proc'[l].entry.client = file.client
      BY <2>1, <2>3 DEF Open, Becomes, TypeOK, Idle, Empty
    <3> QED  BY <1>1, <1>2, <2>2, <3>1, <3>2 DEF ClientInv, tokenVars
  <2>4. CASE Register(l)
    <3>1. clients' = clients + 1 /\ UNCHANGED tokenVars /\ file'.client = clients + 1
      BY <1>1, <2>4 DEF Register, Relabels, Entry
    <3>2. proc'[l].entry.client = clients + 1
      BY <2>1, <2>4 DEF Register, Becomes, TypeOK, Process, Entry
    <3> QED  BY <1>1, <1>2, <2>2, <3>1, <3>2 DEF tokenVars
  <2>5. CASE Approve(l)
    <3>1. proc[l].entry.client \in 1..clients
      BY <1>1, <2>5 DEF Approve, ClientInv
    <3>2. proc'[l].entry = proc[l].entry /\ UNCHANGED <<clients, file>> /\ Issue(issued + 1, proc[l].entry.client)
      BY <2>1, <2>5 DEF Approve, Becomes, TypeOK, Process
    <3>3. issued + 1 \in 1..(issued + 1)
      BY <1>1 DEF ServerOK, ServerTypeOK, Tokens
    <3> QED  BY <1>1, <1>3, <2>2, <3>1, <3>2, <3>3 DEF ClientInv
  <2>6. CASE SaveLogin(l)
    <3>1. /\ proc[l].entry.client \in 1..clients /\ UNCHANGED <<tokenVars, clients>>
          /\ file'.client = proc[l].entry.client
      BY <1>1, <2>6 DEF SaveLogin, ClientInv
    <3>2. proc'[l].pc = "idle"
      BY <2>1, <2>6, Moves DEF SaveLogin, Ends, Idle
    <3> QED  BY <1>1, <1>2, <2>2, <3>1, <3>2 DEF tokenVars
  <2>7. CASE TimeOut(l)
    <3>1. clients' = clients /\ UNCHANGED tokenVars /\ file'.client = 0
      BY <1>1, <2>7 DEF TimeOut, Relabels, Entry
    <3>2. proc'[l].pc = "idle"
      BY <2>1, <2>7, Moves DEF TimeOut, Ends, Idle
    <3> QED  BY <1>1, <1>2, <2>2, <3>1, <3>2 DEF tokenVars
  <2>8. CASE Quit(l)
    <3>1. UNCHANGED <<tokenVars, clients, file>> /\ proc'[l].pc = "idle"
      BY <2>1, <2>8, Moves DEF Quit, Ends, Idle
    <3> QED  BY <1>1, <1>2, <2>2, <3>1 DEF ClientInv, tokenVars
  <2> QED  BY <1>8, <2>3, <2>4, <2>5, <2>6, <2>7, <2>8
<1>9. ASSUME UNCHANGED vars
      PROVE  Known /\ Moved
  BY <1>2, <1>5, <1>9 DEF vars, tokenVars
<1>10. Known /\ Moved
  BY <1>6, <1>7, <1>8, <1>9 DEF Next
<1> QED  BY <1>10 DEF ClientInv, Known, Moved

\* Nothing that went wrong is forgotten.
LEMMA WrongStays ==
  ASSUME IInv, [Next]_vars, NothingWentWrong'
  PROVE  NothingWentWrong /\ failures' = failures
<1>1. failures \in Nat
  BY DEF IInv, TypeOK
<1>2. ASSUME NEW n \in Pairs, Late(n) \/ UserRevokes(n) \/ Age(n)
      PROVE  NothingWentWrong /\ failures' = failures
  BY <1>2 DEF Late, UserRevokes, Age, history, NothingWentWrong
<1>3. ASSUME NEW p \in Callers, Call(p) \/ NoAnswer(p) \/ SaveFails(p) \/ Crash(p)
      PROVE  NothingWentWrong /\ failures' = failures
  <2>1. CASE Call(p)
    BY <2>1 DEF Call, Start, Check, UseNewer, NothingToPresent, Ask, Granted, Denied, Save, Forget, CallOnce,
       history, NothingWentWrong
  <2>2. CASE NoAnswer(p) \/ SaveFails(p) \/ Crash(p)
    BY <1>1, <2>2 DEF NoAnswer, SaveFails, Crash, Fails, NothingWentWrong
  <2> QED  BY <1>3, <2>1, <2>2
<1>4. ASSUME NEW l \in Logins,
             Open(l) \/ Register(l) \/ Approve(l) \/ SaveLogin(l) \/ TimeOut(l) \/ Quit(l)
      PROVE  NothingWentWrong /\ failures' = failures
  BY <1>1, <1>4 DEF Open, Register, Approve, SaveLogin, TimeOut, Quit, Relabels, history, NothingWentWrong
<1>5. CASE UNCHANGED vars
  BY <1>5 DEF vars, history, NothingWentWrong
<1> QED  BY <1>2, <1>3, <1>4, <1>5 DEF Next

\* Steps that change neither the file nor the server's tables, and bring no new pair.
LEMMA CalmFrame ==
  ASSUME Calm, NEW p \in Procs,
         UNCHANGED <<file, used, revoked, dead, clientOf, age, late>>,
         \A q \in Procs : q # p => proc'[q] = proc[q],
         proc'[p].pc \notin {"granted", "invalid", "approved"}, p \in Callers => proc[p].pc # "granted",
         Callers \subseteq Procs
  PROVE  Calm'
<1>1. OnTheWay' \subseteq OnTheWay \ {p} /\ \A q \in OnTheWay' : proc'[q] = proc[q]
  BY DEF OnTheWay
<1>2. \A q \in OnTheWay' : Fresh(q)'
  BY <1>1 DEF Calm, Fresh
<1>3. \A q \in Callers : (proc'[q].pc = "invalid" => proc[q].pc = "invalid") /\ (proc'[q].pc # "granted" <=> proc[q].pc # "granted")
  OBVIOUS
<1>4. (Presentable' <=> Presentable) /\ (Lapsed' <=> Lapsed)
  BY DEF Presentable, Lapsed, SameClient
<1> QED  BY <1>1, <1>2, <1>3, <1>4 DEF Calm

\* While nothing goes wrong, a caller that asks is given a new pair or has let its token lapse.
LEMMA CallerCalm ==
  ASSUME RefreshAssumption, IInv, NothingWentWrong, NEW p \in Callers, Call(p)
  PROVE  Calm'
<1>1. /\ Calm /\ TypeOK /\ Callers \subseteq Procs /\ 0 \notin Issued /\ dead \subseteq Issued
      /\ \A q \in Callers : p # q /\ proc[p].pc \in Refreshing => proc[q].pc \notin Refreshing
  <2>1. \A q \in Callers : p # q /\ proc[p].pc \in Refreshing => proc[q].pc \notin Refreshing
    BY Presented DEF Procs
  <2> QED  BY <2>1 DEF IInv, CalmInv, ServerInv, Procs, Issued
<1>2. p \in Procs /\ \A q \in Procs : q # p => proc'[q] = proc[q]
  BY CallerMoves
<1>3. late' = late
  BY DEF Call, Start, Check, UseNewer, NothingToPresent, Ask, Granted, Denied, Save, Forget, CallOnce
<1>4. /\ Granted(p) => proc'[p].pc = "granted" /\ proc'[p].pair = issued + 1 /\ proc'[p].entry = proc[p].entry
      /\ Denied(p) => proc'[p].pc = "invalid"
      /\ Save(p) \/ Forget(p) => proc'[p].pc \in {"call", "idle"}
      /\ Start(p) \/ Check(p) \/ UseNewer(p) \/ NothingToPresent(p) \/ Ask(p) \/ CallOnce(p) =>
           proc'[p].pc \notin {"granted", "invalid", "approved"}
  <2>1. ASSUME Granted(p)
        PROVE  proc'[p].pc = "granted" /\ proc'[p].pair = issued + 1 /\ proc'[p].entry = proc[p].entry
    BY <1>1, <1>2, <2>1 DEF Granted, Becomes, TypeOK, Process
  <2>2. Denied(p) => proc'[p].pc = "invalid"
    BY <1>1, <1>2, GoingMoves DEF Denied
  <2>3. Save(p) \/ Forget(p) => proc'[p].pc \in {"call", "idle"}
    BY <1>1, <1>2, AfterRefresh DEF Save, Forget
  <2>4. Start(p) \/ Check(p) \/ UseNewer(p) \/ NothingToPresent(p) \/ Ask(p) \/ CallOnce(p) =>
          proc[p].pc \in {"idle", "check", "lock", "call"}
    BY DEF Start, Check, UseNewer, NothingToPresent, Ask, CallOnce, Locked
  <2>5. Granted(p) \/ Denied(p) \/ Save(p) \/ Forget(p) => proc[p].pc \in Refreshing
    BY DEF Granted, Denied, Save, Forget, Refreshing
  <2> QED  BY <2>1, <2>2, <2>3, <2>4, <2>5, CallerMoves DEF Refreshing
<1>5. CASE Granted(p) /\ proc'[p].pc = "granted" /\ proc'[p].pair = issued + 1 /\ proc'[p].entry = proc[p].entry
  <2> DEFINE n == file.refresh
  <2>1. proc[p].pc = "asked" /\ file' = file /\ proc[p].entry = file /\ n \in Issued /\ file.client \in Nat
    BY <1>5, Presented DEF Granted, Refreshing
  <2>2. /\ used' = used \cup {n} /\ dead' = dead \cup {n} /\ Issue(family[n], file.client)
        /\ UNCHANGED <<revoked, age>>
    BY <1>5, <2>1 DEF Granted, Rotate, Issue
  <2>3. issued + 1 \notin Issued /\ clientOf'[issued + 1] = file.client /\ \A m \in Issued : clientOf'[m] = clientOf[m]
    <3>1. family[n] \in 1..(issued + 1) /\ ServerTypeOK
      BY <2>1, ServerPart DEF ServerOK, ServerTypeOK, ServerInv, Issued, Tokens
    <3> QED  BY <2>1, <2>2, <3>1, IssueAdds DEF IInv
  <2>4. \A q \in OnTheWay' : q = p \/ (q \in OnTheWay /\ proc'[q] = proc[q])
    BY <1>2 DEF OnTheWay
  <2>5. \A q \in OnTheWay : proc[q].pair \in Issued
    BY DEF IInv, FileInv
  <2>6. Fresh(p)'
    BY <1>1, <1>5, <2>1, <2>2, <2>3 DEF Fresh, Calm
  <2>7. \A q \in OnTheWay : q # p => proc'[q].pair \notin used' /\ proc'[q].pair # n /\ clientOf'[proc'[q].pair] = proc'[q].entry.client
    BY <1>1, <1>2, <2>2, <2>3, <2>5 DEF Calm, Fresh, OnTheWay
  <2>8. \A q \in OnTheWay' : Fresh(q)'
    BY <2>1, <2>4, <2>6, <2>7 DEF Fresh
  <2>9. \A q, r \in OnTheWay' : q # r => proc'[q].pair # proc'[r].pair
    BY <1>1, <1>5, <2>3, <2>4, <2>5 DEF Calm
  <2> QED
    BY <1>1, <1>2, <1>3, <1>5, <2>1, <2>2, <2>8, <2>9 DEF Calm, Refreshing
<1>6. CASE Denied(p) /\ proc'[p].pc = "invalid"
  <2>1. /\ proc[p].pc = "asked" /\ file' = file /\ proc[p].entry = file /\ file.refresh = file.token
        /\ file.refresh \in Issued
    BY <1>6, Presented DEF Denied, Refreshing
  <2>2. Presentable
    BY <1>1, <2>1 DEF Calm, Refreshing
  <2>3. Lapsed /\ Lapsed' /\ UNCHANGED tokenVars
    BY <1>6, <2>1, <2>2 DEF Denied, Deny, Presentable, OutOfForce, Lapsed, SameClient, tokenVars
  <2>4. \A q \in OnTheWay' : q \in OnTheWay /\ proc'[q] = proc[q]
    BY <1>2, <1>6 DEF OnTheWay
  <2>5. \A q \in OnTheWay' : Fresh(q)'
    BY <1>1, <2>1, <2>3, <2>4 DEF Calm, Fresh, tokenVars
  <2>6. Presentable'
    BY <2>1, <2>2, <2>3 DEF Presentable, tokenVars
  <2> QED  BY <1>1, <1>2, <1>3, <2>1, <2>3, <2>4, <2>5, <2>6 DEF Calm, tokenVars
<1>7. CASE Save(p) /\ proc'[p].pc \in {"call", "idle"}
  <2>1. /\ proc[p].pc = "granted" /\ proc[p].entry \in Entry /\ UNCHANGED tokenVars /\ p \in OnTheWay
        /\ file' = [proc[p].entry EXCEPT !.token = proc[p].pair, !.refresh = proc[p].pair]
    BY <1>1, <1>2, <1>7 DEF Save, TypeOK, Process, OnTheWay
  <2>2. file'.refresh = proc[p].pair /\ file'.token = proc[p].pair /\ file'.client = proc[p].entry.client
    BY <2>1 DEF Entry
  <2>3. Fresh(p) /\ proc[p].pair \in Issued
    BY <1>1, <2>1 DEF Calm, IInv, FileInv
  <2>4. \A q \in OnTheWay' : q \in OnTheWay /\ q # p /\ proc'[q] = proc[q]
    BY <1>2, <1>7 DEF OnTheWay
  <2>5. \A q \in OnTheWay' : Fresh(q)'
    BY <1>1, <2>1, <2>2, <2>4 DEF Calm, Fresh, tokenVars
  <2>6. Presentable'
    BY <1>1, <2>1, <2>2, <2>3 DEF Presentable, Fresh, Calm, tokenVars
  <2>7. \A q \in Callers : proc'[q].pc # "invalid"
    BY <1>1, <1>2, <1>7, <2>1 DEF Refreshing
  <2> QED  BY <1>1, <1>3, <2>1, <2>2, <2>3, <2>4, <2>5, <2>6, <2>7 DEF Calm, tokenVars
<1>8. CASE Forget(p) /\ proc'[p].pc \in {"call", "idle"}
  <2>1. proc[p].pc = "invalid" /\ UNCHANGED tokenVars /\ file' = [file EXCEPT !.refresh = 0] /\ file \in Entry
    BY <1>1, <1>8, Presented DEF Forget, Refreshing, TypeOK
  <2>2. file'.refresh = 0 /\ file'.token = file.token /\ file'.client = file.client
    BY <2>1 DEF Entry
  <2>3. Lapsed'
    BY <1>1, <2>1, <2>2 DEF Calm, Lapsed, SameClient, tokenVars
  <2>4. \A q \in OnTheWay' : q \in OnTheWay /\ proc'[q] = proc[q] /\ proc[q].pair # 0
    BY <1>1, <1>2, <1>8 DEF OnTheWay, IInv, FileInv
  <2>5. \A q \in OnTheWay' : Fresh(q)'
    BY <1>1, <2>1, <2>2, <2>4 DEF Calm, Fresh, tokenVars
  <2> QED  BY <1>1, <1>3, <2>1, <2>2, <2>3, <2>4, <2>5 DEF Calm, tokenVars
<1>9. CASE /\ Start(p) \/ Check(p) \/ UseNewer(p) \/ NothingToPresent(p) \/ Ask(p) \/ CallOnce(p)
           /\ proc'[p].pc \notin {"granted", "invalid", "approved"}
  <2>1. proc[p].pc # "granted" /\ UNCHANGED <<tokenVars, file>>
    BY <1>9 DEF Start, Check, UseNewer, NothingToPresent, Ask, CallOnce, Locked
  <2> QED  BY <1>1, <1>2, <1>3, <1>9, <2>1, CalmFrame DEF tokenVars
<1> QED  BY <1>4, <1>5, <1>6, <1>7, <1>8, <1>9 DEF Call

\* A login brings a pair of its own, or leaves the entry as good as it was.
LEMMA LoginCalm ==
  ASSUME RefreshAssumption, IInv, NothingWentWrong, NothingWentWrong', NEW l \in Logins,
         Open(l) \/ Register(l) \/ Approve(l) \/ SaveLogin(l) \/ TimeOut(l) \/ Quit(l)
  PROVE  Calm'
<1>1. /\ Calm /\ TypeOK /\ Callers \subseteq Procs /\ Logins \cap Callers = {} /\ 0 \notin Issued
      /\ dead \subseteq Issued /\ file \in Entry /\ NoOne \notin Procs
      /\ \A q \in OnTheWay : proc[q].pair \in Issued
  BY DEF IInv, CalmInv, ServerInv, FileInv, Procs, Issued, RefreshAssumption, TypeOK
<1>2. /\ l \in Procs /\ \A q \in Procs : q # l => proc'[q] = proc[q]
      /\ \A q \in Callers : proc'[q] = proc[q]
      /\ (proc'[l].pc = "approved" => Approve(l)) /\ proc'[l].pc \in LoginPlaces
  BY <1>1, LoginMoves
<1>3. ASSUME lock = NoOne
      PROVE  \A q \in Callers : proc[q].pc \notin Refreshing
  BY <1>1, <1>3 DEF IInv, LockInv
<1>4. late' = late
  BY DEF Open, Register, Approve, SaveLogin, TimeOut, Quit, Relabels
<1>5. CASE (Open(l) \/ Quit(l)) /\ proc'[l].pc # "approved"
  <2>1. UNCHANGED <<file, used, revoked, dead, clientOf, age>>
    BY <1>5 DEF Open, Quit, tokenVars
  <2> QED  BY <1>1, <1>2, <1>4, <1>5, <2>1, CalmFrame DEF LoginPlaces
<1>6. CASE (Register(l) \/ TimeOut(l)) /\ proc'[l].pc # "approved"
  <2>1. lock = NoOne /\ UNCHANGED tokenVars
    BY <1>6 DEF Register, TimeOut, Relabels
  <2>2. PICK c \in {0, clients + 1} : file' = [file EXCEPT !.client = c]
    BY <1>6 DEF Register, TimeOut, Relabels
  <2>3. file'.refresh = file.refresh /\ file'.token = file.token /\ file'.client = c
    BY <1>1, <2>2 DEF Entry
  <2>4. file.token # 0 => Lapsed'
    <3>1. SUFFICES ASSUME file.token # 0
                   PROVE  clientOf[file.token] # c
      BY <2>1, <2>3 DEF Lapsed, SameClient, tokenVars
    <3>2. file.token \in Issued
      BY <3>1 DEF IInv, FileInv
    <3>3. clientOf[file.token] \in 1..clients /\ clients \in Nat
      BY <3>2 DEF IInv, ClientInv, TypeOK
    <3> QED  BY <3>3
  <2>5. \A q \in OnTheWay' : q \in OnTheWay /\ proc'[q] = proc[q]
    BY <1>2, <1>6 DEF OnTheWay, LoginPlaces
  <2>6. \A q \in OnTheWay' : Fresh(q)'
    BY <1>1, <2>1, <2>3, <2>5 DEF Calm, Fresh, tokenVars
  <2>7. Presentable' <=> Presentable
    BY <2>1, <2>3 DEF Presentable, tokenVars
  <2>8. \A q \in Callers : proc'[q].pc # "invalid" /\ proc[q].pc # "granted"
    BY <1>2, <1>3, <2>1 DEF Refreshing
  <2> QED  BY <1>1, <1>2, <1>4, <2>1, <2>3, <2>4, <2>5, <2>6, <2>7, <2>8 DEF Calm, tokenVars
<1>7. CASE Approve(l)
  <2>1. /\ proc'[l].pc = "approved" /\ proc'[l].pair = issued + 1 /\ proc'[l].entry = proc[l].entry
        /\ proc[l].entry.client \in Nat
    BY <1>1, <1>2, <1>7 DEF Approve, Becomes, TypeOK, Process, Entry
  <2>2. Issue(issued + 1, proc[l].entry.client) /\ UNCHANGED <<used, dead, file>> /\ UNCHANGED <<revoked, age>>
    BY <1>7 DEF Approve, Issue
  <2>3. /\ issued + 1 \notin Issued /\ clientOf'[issued + 1] = proc[l].entry.client
        /\ \A m \in Issued : clientOf'[m] = clientOf[m]
    <3>1. issued + 1 \in 1..(issued + 1) /\ ServerOK
      BY <1>1, ServerPart DEF TypeOK, Tokens
    <3> QED  BY <2>1, <2>2, <3>1, IssueAdds DEF ServerOK
  <2>4. \A q \in OnTheWay' : q = l \/ (q \in OnTheWay /\ proc'[q] = proc[q])
    BY <1>2 DEF OnTheWay
  <2>5. file.refresh \in Issued \cup {0}
    BY DEF IInv, FileInv
  <2>6. Fresh(l)'
    BY <1>1, <2>1, <2>2, <2>3, <2>5 DEF Fresh, Calm, IInv, TypeOK, Tokens
  <2>7. \A q \in OnTheWay' : Fresh(q)'
    BY <1>1, <2>2, <2>3, <2>4, <2>6 DEF Fresh, Calm
  <2>8. \A q, r \in OnTheWay' : q # r => proc'[q].pair # proc'[r].pair
    BY <1>1, <2>1, <2>3, <2>4 DEF Calm
  <2>9. file.refresh # 0 /\ Presentable => Presentable'
    BY <2>2, <2>3, <2>5 DEF Presentable
  <2>10. file.token # 0 /\ Lapsed => Lapsed'
    BY <2>2, <2>3 DEF Lapsed, SameClient, IInv, FileInv
  <2>11. \A q \in Callers : proc[q].pc = "invalid" => file.token # 0
    BY DEF IInv, LockInv, FileInv, Refreshing
  <2> QED  BY <1>1, <1>2, <1>4, <2>2, <2>7, <2>8, <2>9, <2>10, <2>11 DEF Calm
<1>8. CASE SaveLogin(l) /\ proc'[l].pc # "approved"
  <2>1. /\ lock = NoOne /\ UNCHANGED tokenVars /\ l \in OnTheWay
        /\ file' = [token |-> proc[l].pair, refresh |-> proc[l].pair, client |-> proc[l].entry.client]
    BY <1>2, <1>8 DEF SaveLogin, OnTheWay
  <2>2. Fresh(l) /\ proc[l].pair \in Issued
    BY <1>1, <2>1 DEF Calm
  <2>3. \A q \in OnTheWay' : q \in OnTheWay /\ q # l /\ proc'[q] = proc[q]
    BY <1>2, <1>8 DEF OnTheWay, LoginPlaces
  <2>4. \A q \in OnTheWay' : Fresh(q)'
    BY <1>1, <2>1, <2>3 DEF Calm, Fresh, tokenVars
  <2>5. Presentable'
    BY <1>1, <2>1, <2>2 DEF Presentable, Fresh, Calm, tokenVars
  <2>6. \A q \in Callers : proc'[q].pc # "invalid"
    BY <1>2, <1>3, <2>1 DEF Refreshing
  <2> QED  BY <1>1, <1>4, <2>1, <2>2, <2>3, <2>4, <2>5, <2>6 DEF Calm, tokenVars
<1>9. ~Approve(l) => proc'[l].pc # "approved"
  BY <1>2
<1> QED  BY <1>5, <1>6, <1>7, <1>8, <1>9

\* As long as nothing goes wrong, all is calm.
LEMMA CalmStep ==
  ASSUME RefreshAssumption, IInv, [Next]_vars
  PROVE  CalmInv'
<1> SUFFICES ASSUME NothingWentWrong'
             PROVE  Calm'
  BY DEF CalmInv
<1>1. NothingWentWrong /\ failures' = failures
  BY WrongStays
<1>2. Calm /\ TypeOK /\ Procs = Callers \cup Logins
  BY <1>1 DEF IInv, CalmInv, Procs
<1>3. ASSUME UNCHANGED <<file, proc, used, revoked, dead, clientOf, age, late>>
      PROVE  Calm'
  BY <1>2, <1>3 DEF Calm, OnTheWay, Fresh, Presentable, Lapsed, SameClient
<1>4. ASSUME NEW n \in Pairs, Late(n) \/ UserRevokes(n) \/ Age(n)
      PROVE  Calm'
  <2>1. CASE Late(n)
    BY <1>2, <2>1 DEF Late, Calm
  <2>2. CASE UserRevokes(n)
    BY <2>2 DEF UserRevokes, NothingWentWrong
  <2>3. CASE Age(n)
    <3>1. UNCHANGED <<file, proc, used, revoked, dead, clientOf, late>>
      BY <2>3 DEF Age
    <3>2. \A m : age[m] = 3 => age'[m] = 3
      BY <1>2, <2>3 DEF Age, TypeOK
    <3>3. Lapsed => Lapsed'
      BY <3>1, <3>2 DEF Lapsed, SameClient
    <3> QED  BY <1>2, <3>1, <3>3 DEF Calm, OnTheWay, Fresh, Presentable
  <2> QED  BY <1>4, <2>1, <2>2, <2>3
<1>5. ASSUME NEW p \in Callers, Call(p) \/ NoAnswer(p) \/ SaveFails(p) \/ Crash(p)
      PROVE  Calm'
  <2>1. CASE Call(p)
    BY <1>1, <2>1, CallerCalm
  <2>2. CASE NoAnswer(p) \/ SaveFails(p) \/ Crash(p)
    BY <1>1, <1>2, <2>2 DEF NoAnswer, SaveFails, Crash, Fails, TypeOK
  <2> QED  BY <1>5, <2>1, <2>2
<1>6. CASE UNCHANGED vars
  BY <1>3, <1>6 DEF vars, tokenVars
<1> QED  BY <1>1, <1>4, <1>5, <1>6, LoginCalm DEF Next

-----------------------------------------------------------------------------
(* The theorems. *)

\* Nothing is issued and nobody is logged in.
LEMMA RefreshStart ==
  ASSUME RefreshAssumption, Init
  PROVE  IInv
<1>1. TypeOK
  <2>1. 0 \in Tokens /\ Empty \in Entry /\ Idle \in Process
    BY IdleType
  <2>2. /\ issued = 0 /\ clients = 0 /\ failures = 0 /\ cut = FALSE
        /\ used = {} /\ revoked = {} /\ dead = {} /\ file = Empty /\ lock = NoOne
    BY DEF Init
  <2>3. /\ family \in [Pairs -> Tokens] /\ clientOf \in [Pairs -> Nat] /\ late \in [Pairs -> Nat]
        /\ age \in [Pairs -> 0..3] /\ proc \in [Procs -> Process]
    BY <2>1 DEF Init
  <2> QED  BY <2>1, <2>2, <2>3 DEF TypeOK
<1>2. \A p \in Procs : proc[p].pc = "idle"
  BY DEF Init, Idle
<1>3. file.token = 0 /\ file.refresh = 0 /\ lock = NoOne /\ Issued = {}
  BY DEF Init, Empty, Issued
<1>4. LockInv
  BY <1>2, <1>3 DEF RefreshAssumption, LockInv, Refreshing, LoginPlaces, Procs
<1>5. FileInv /\ OnTheWay = {}
  BY <1>2, <1>3 DEF FileInv, OnTheWay
<1>6. ServerInv /\ LateInv /\ OneInForce /\ RevokedTogether
  BY <1>3 DEF Init, ServerInv, LateInv, OneInForce, RevokedTogether, Issued
<1>7. CalmInv
  BY <1>2, <1>3, <1>5 DEF Init, CalmInv, Calm, Procs
<1>8. ClientInv
  BY <1>2, <1>3 DEF Init, Empty, ClientInv, Procs
<1> QED  BY <1>1, <1>4, <1>5, <1>6, <1>7, <1>8 DEF IInv

\* One inductive step.
LEMMA RefreshStep ==
  ASSUME RefreshAssumption, IInv, [Next]_vars
  PROVE  IInv'
<1>1. ServerOK'
  BY ServerStep
<1> QED
  BY <1>1, TypeStep, LockStep, FileStep, LateStep, ClientStep, CalmStep DEF ServerOK, IInv

(***************************************************************************)
(* The inductive invariant: the lock and the entry read under it, the      *)
(* server's tables, and, as long as nothing has gone wrong, that every     *)
(* refresh token on its way into the file or in it can be presented        *)
(* (refresh, loginBrowser, oauthTokenFromRefresh).                         *)
(***************************************************************************)
THEOREM RefreshInvariant == Spec => []IInv
<1> USE RefreshAssumption
<1>1. Init => IInv
  BY RefreshStart
<1>2. IInv /\ [Next]_vars => IInv'
  BY RefreshStep
<1> QED  BY <1>1, <1>2, PTL DEF Spec

(***************************************************************************)
(* At most one pair of a family is in force (oauthTokenFromRefresh).       *)
(***************************************************************************)
THEOREM RefreshOneInForce == Spec => []OneInForce
<1>1. IInv => OneInForce
  BY DEF IInv
<1> QED  BY <1>1, RefreshInvariant, PTL

(***************************************************************************)
(* A family is revoked whole and for good (RevokeRefreshFamily).           *)
(***************************************************************************)
THEOREM RefreshRevokedTogether == Spec => []RevokedTogether
<1>1. IInv => RevokedTogether
  BY DEF IInv
<1> QED  BY <1>1, RefreshInvariant, PTL

(***************************************************************************)
(* However many processes share the file: as long as no process has died,  *)
(* no reply or write has failed and the user has revoked nothing, no       *)
(* family is revoked.  Then also, when nobody refreshes, the entry has a   *)
(* refresh token that the server accepts, unless its 90 days are over or   *)
(* an unanswered login has taken away the client it was issued to          *)
(* (Client.refresh under the lock of credentials.json).                    *)
(***************************************************************************)
THEOREM RefreshStaysLoggedIn == Spec => []StaysLoggedIn
<1>1. IInv => StaysLoggedIn
  <2> SUFFICES ASSUME IInv, NothingWentWrong
               PROVE  /\ revoked = {}
                      /\ lock = NoOne /\ file.token # 0 /\ age[file.token] < 3 /\ SameClient =>
                           file.refresh = file.token /\ Presentable
    BY DEF StaysLoggedIn
  <2>1. Calm /\ FileInv
    BY DEF IInv, CalmInv
  <2> SUFFICES ASSUME lock = NoOne, file.token # 0, age[file.token] < 3, SameClient
               PROVE  file.refresh = file.token /\ Presentable
    BY <2>1 DEF Calm
  <2>2. file.refresh # 0 /\ file.refresh = file.token
    BY <2>1 DEF Calm, FileInv, Lapsed
  <2>3. \A p \in Callers : proc[p].pc # "granted"
    BY RefreshAssumption DEF IInv, LockInv, Refreshing, Procs, RefreshAssumption
  <2> QED  BY <2>1, <2>2, <2>3 DEF Calm
<1> QED  BY <1>1, RefreshInvariant, PTL
-----------------------------------------------------------------------------
(* The marks implement families of tokens. *)

\* A pair that was not issued has no family.
Numbered == \A n \in Pairs \ Issued : family[n] = 0

\* What a step does at the server.
LEMMA ServerMoves ==
  ASSUME RefreshAssumption, IInv, [Next]_vars
  PROVE  \/ \E n \in Issued, client \in Nat : Rotate(n, client)
         \/ \E n \in Issued : n \notin revoked /\ RevokeRefreshFamily(n)
         \/ \E client \in Nat : Issue(issued + 1, client) /\ UNCHANGED <<used, dead>>
         \/ \E n \in Issued \ dead : dead' = dead \cup {n} /\ UNCHANGED <<issued, family, revoked>>
         \/ UNCHANGED <<issued, family, revoked, dead>>
<1> DEFINE Same == UNCHANGED <<issued, family, revoked, dead>>
<1>1. ASSUME NEW n \in Issued, NEW client, Deny(n, client)
      PROVE  Same \/ (n \notin revoked /\ RevokeRefreshFamily(n))
  BY <1>1 DEF Deny, tokenVars
<1>2. ASSUME NEW n \in Pairs, Late(n)
      PROVE  \/ \E client \in Nat : Rotate(n, client)
             \/ n \notin revoked /\ RevokeRefreshFamily(n)
             \/ Same
  <2>1. n \in Issued /\ clientOf[n] \in Nat
    BY <1>2 DEF Late, IInv, LateInv, TypeOK
  <2> QED  BY <1>1, <1>2, <2>1 DEF Late
<1>3. ASSUME NEW n \in Pairs, Late(n) PROVE n \in Issued
  BY <1>3 DEF Late, IInv, LateInv
<1>4. ASSUME NEW n \in Pairs, UserRevokes(n)
      PROVE  n \in Issued \ dead /\ dead' = dead \cup {n} /\ UNCHANGED <<issued, family, revoked>>
  BY <1>4 DEF UserRevokes, Issued, Pairs
<1>5. ASSUME NEW n \in Pairs, Age(n) PROVE Same
  BY <1>5 DEF Age
<1>6. ASSUME NEW p \in Callers, Granted(p) \/ Denied(p)
      PROVE  \E n \in Issued : \/ \E client \in Nat : Rotate(n, client)
                               \/ n \notin revoked /\ RevokeRefreshFamily(n)
                               \/ Same
  <2>1. proc[p].entry.refresh \in Issued /\ proc[p].entry.client \in Nat
    BY <1>6, Presented DEF Granted, Denied, Refreshing
  <2> QED  BY <1>1, <1>6, <2>1 DEF Granted, Denied
<1>7. ASSUME NEW p \in Callers, Call(p) \/ NoAnswer(p) \/ SaveFails(p) \/ Crash(p), ~(Granted(p) \/ Denied(p))
      PROVE  Same
  BY <1>7 DEF Call, Start, Check, UseNewer, NothingToPresent, Ask, Save, Forget, CallOnce,
     NoAnswer, SaveFails, Crash, tokenVars
<1>8. ASSUME NEW l \in Logins, Approve(l)
      PROVE  \E client \in Nat : Issue(issued + 1, client) /\ UNCHANGED <<used, dead>>
  <2>1. proc[l].entry.client \in Nat
    BY DEF Procs, IInv, TypeOK, Process, Entry
  <2> QED  BY <1>8, <2>1 DEF Approve
<1>9. ASSUME NEW l \in Logins, Open(l) \/ Register(l) \/ SaveLogin(l) \/ TimeOut(l) \/ Quit(l)
      PROVE  Same
  BY <1>9 DEF Open, Register, SaveLogin, TimeOut, Quit, Relabels, tokenVars
<1>10. CASE UNCHANGED vars
  BY <1>10 DEF vars, tokenVars
<1> HIDE DEF Same
<1>11. Same => UNCHANGED <<issued, family, revoked, dead>>
  BY DEF Same
<1> QED  BY <1>2, <1>3, <1>4, <1>5, <1>6, <1>7, <1>8, <1>9, <1>10, <1>11 DEF Next

\* Pairs get their families when they are issued, and every step is one of TokenFamilies.
LEMMA FamilyStep ==
  ASSUME RefreshAssumption, IInv, Numbered, [Next]_vars
  PROVE  Numbered' /\ [Families!Next]_(Families!vars)
<1> DEFINE good  == (1..issued) \ dead
           ended == {family[n] : n \in revoked}
<1>1. /\ ServerOK /\ Issued \subseteq Pairs
      /\ \A n \in Issued : family[n] \in 1..n /\ family[n] \in Pairs /\ family[n] # 0
      /\ used \cup revoked \subseteq dead /\ dead \subseteq Issued
      /\ family \in [Pairs -> Tokens]
  <2>1. ServerOK
    BY ServerPart
  <2>2. issued \in 0..MaxPairs /\ MaxPairs \in Nat
    BY <2>1 DEF ServerOK, ServerTypeOK, Tokens, RefreshAssumption
  <2>3. Issued \subseteq Pairs
    BY <2>2 DEF Issued, Pairs
  <2>4. \A n \in Issued : family[n] \in 1..n
    BY <2>1 DEF ServerOK, ServerInv
  <2>5. \A n \in Issued : family[n] \in Pairs /\ family[n] # 0
    BY <2>2, <2>4 DEF Issued, Pairs
  <2>6. used \cup revoked \subseteq dead /\ dead \subseteq Issued /\ family \in [Pairs -> Tokens]
    BY <2>1 DEF ServerOK, ServerTypeOK, ServerInv
  <2> QED  BY <2>1, <2>3, <2>4, <2>5, <2>6
<1>2. Families!New = Pairs \ Issued
  BY <1>1 DEF Numbered, Families!New
<1>3. ASSUME NEW fam \in 1..(issued + 1), NEW client \in Nat, Issue(fam, client)
      PROVE  /\ Numbered' /\ issued + 1 \in Families!New
             /\ Issued' = Issued \cup {issued + 1} /\ issued + 1 \notin Issued
             /\ family' = [family EXCEPT ![issued + 1] = fam]
             /\ {family'[n] : n \in revoked} = ended
  <2>1. /\ issued + 1 \in Pairs /\ Issued' = Issued \cup {issued + 1} /\ issued + 1 \notin Issued
        /\ \A n \in Issued : family'[n] = family[n]
    BY <1>1, <1>3, IssueAdds DEF ServerOK
  <2>2. family' = [family EXCEPT ![issued + 1] = fam]
    BY <1>3 DEF Issue
  <2>3. Numbered'
    BY <1>1, <2>1, <2>2 DEF Numbered
  <2>4. \A n \in revoked : family'[n] = family[n]
    BY <1>1, <2>1
  <2> QED  BY <1>2, <2>1, <2>2, <2>3, <2>4
<1>4. ASSUME NEW n \in Issued, NEW client \in Nat, Rotate(n, client)
      PROVE  Numbered' /\ Families!Next
  <2>1. family[n] \in 1..(issued + 1) /\ Issue(family[n], client)
    BY <1>1, <1>4 DEF Rotate, Issued, ServerOK, ServerTypeOK, Tokens
  <2>2. n \in good /\ dead' = dead \cup {n} /\ revoked' = revoked
    BY <1>4, <2>1 DEF Rotate, OutOfForce, Issue, Issued
  <2>3. good' = (good \ {n}) \cup {issued + 1}
    BY <1>1, <1>3, <2>1, <2>2 DEF Issued
  <2>4. ended' = ended
    BY <1>3, <2>1, <2>2
  <2>5. Families!Rotate(n, issued + 1)
    BY <1>3, <2>1, <2>3, <2>4 DEF Families!Rotate
  <2> QED  BY <1>3, <2>1, <2>2, <2>5 DEF Families!Next
<1>5. ASSUME NEW client \in Nat, Issue(issued + 1, client), UNCHANGED <<used, dead>>
      PROVE  Numbered' /\ Families!Next
  <2>1. issued + 1 \in 1..(issued + 1) /\ revoked' = revoked
    BY <1>1, <1>5 DEF Issue, ServerOK, ServerTypeOK, Tokens
  <2>2. issued + 1 \in Pairs /\ issued + 1 \notin Issued
    BY <1>2, <1>3, <1>5, <2>1
  <2>3. good' = good \cup {issued + 1}
    BY <1>1, <1>3, <1>5, <2>1 DEF Issued
  <2>4. Families!Family(issued + 1) = {}
    <3>1. \A m \in Issued : family[m] # issued + 1
      BY <1>1 DEF Issued, ServerOK, ServerTypeOK, Tokens
    <3>2. \A m \in Pairs \ Issued : family[m] = 0
      BY DEF Numbered
    <3>3. issued + 1 # 0
      BY <1>1 DEF ServerOK, ServerTypeOK, Tokens
    <3> QED  BY <3>1, <3>2, <3>3 DEF Families!Family
  <2>5. ended' = ended
    BY <1>3, <1>5, <2>1
  <2>6. Families!Login(issued + 1)
    BY <1>3, <1>5, <2>1, <2>2, <2>3, <2>4, <2>5 DEF Families!Login
  <2> QED  BY <1>3, <1>5, <2>1, <2>6 DEF Families!Next
<1>6. ASSUME NEW n \in Issued, RevokeRefreshFamily(n)
      PROVE  Numbered' /\ Families!Next
  <2>1. /\ revoked' = revoked \cup FamilyOf(n) /\ dead' = dead \cup FamilyOf(n)
        /\ issued' = issued /\ family' = family
    BY <1>6 DEF RevokeRefreshFamily
  <2>2. FamilyOf(n) = Families!Family(family[n])
    BY <1>1 DEF FamilyOf, Families!Family, Numbered, Issued
  <2>3. good' = good \ FamilyOf(n)
    BY <2>1
  <2>4. n \in FamilyOf(n) /\ \A m \in FamilyOf(n) : family[m] = family[n]
    BY DEF FamilyOf, Issued
  <2>5. ended' = ended \cup {family[n]}
    BY <2>1, <2>4
  <2>6. Families!End(family[n])
    BY <2>1, <2>2, <2>3, <2>5 DEF Families!End
  <2>7. n \in Pairs \ Families!New
    BY <1>1, <1>2
  <2> QED  BY <2>1, <2>6, <2>7 DEF Families!Next, Numbered, Issued
<1>7. ASSUME NEW n \in Issued \ dead, dead' = dead \cup {n}, UNCHANGED <<issued, family, revoked>>
      PROVE  Numbered' /\ Families!Next
  <2>1. n \in good /\ good' = good \ {n} /\ ended' = ended
    BY <1>7 DEF Issued
  <2>2. Families!TakeAway(n)
    BY <1>7, <2>1 DEF Families!TakeAway
  <2> QED  BY <1>7, <2>1, <2>2 DEF Families!Next, Numbered, Issued
<1>8. ASSUME UNCHANGED <<issued, family, revoked, dead>>
      PROVE  Numbered' /\ UNCHANGED Families!vars
  BY <1>8 DEF Families!vars, Numbered, Issued
<1> QED  BY <1>4, <1>5, <1>6, <1>7, <1>8, ServerMoves

(***************************************************************************)
(* The marks on pairs implement the families of TokenFamilies, whatever is *)
(* late, lost, revoked or presented twice.                                 *)
(***************************************************************************)
THEOREM RefreshImplementsFamilies == Spec => ImplementsFamilies
<1> USE RefreshAssumption
<1>1. Init => Numbered /\ Families!Init
  BY DEF Init, Numbered, Families!Init
<1>2. IInv /\ Numbered /\ [Next]_vars => Numbered' /\ [Families!Next]_(Families!vars)
  BY FamilyStep
<1> QED  BY <1>1, <1>2, RefreshInvariant, PTL DEF Spec, ImplementsFamilies, Families!Spec
\* The steps of TokenFamilies.
LEMMA FamilyNext ==
  ASSUME Families!Next
  PROVE  LET good == (1..issued) \ dead
         IN  \/ \E new \in Families!New : Families!Login(new) \/ \E old \in good : Families!Rotate(old, new)
             \/ \E b \in Pairs \ Families!New : Families!End(family[b])
             \/ \E b \in good : Families!TakeAway(b)
BY DEF Families!Next, Families!End

(***************************************************************************)
(* A family that has lost its last good pair never has one again, so that  *)
(* a reuse cuts off every terminal of the family (DESIGN.md 3-2).          *)
(***************************************************************************)
THEOREM RefreshOverForGood == Spec => Families!OverForGood
<1> DEFINE good == (1..issued) \ dead
           Over == \A n \in Pairs \ Families!New :
                     good \cap Families!Family(family[n]) = {} => (good \cap Families!Family(family[n]))' = {}
<1> USE RefreshAssumption
<1>1. ASSUME IInv, Numbered, [Next]_vars
      PROVE  [Over]_(Families!vars)
  <2>1. family \in [Pairs -> Tokens] /\ good \subseteq Pairs
    <3>1. issued \in 0..MaxPairs /\ MaxPairs \in Nat /\ family \in [Pairs -> Tokens]
      BY <1>1 DEF IInv, TypeOK, Tokens, RefreshAssumption
    <3> QED  BY <3>1 DEF Pairs
  <2> SUFFICES ASSUME NEW n \in Pairs \ Families!New, good \cap Families!Family(family[n]) = {},
                      ~UNCHANGED Families!vars
               PROVE  good' \cap {m \in Pairs : family'[m] = family'[n]} = {}
    BY DEF Families!Family
  <2> SUFFICES ASSUME NEW m \in good', m \in Pairs, family'[m] = family'[n]
               PROVE  FALSE
    OBVIOUS
  <2>2. \/ \E new \in Families!New : Families!Login(new) \/ \E old \in good : Families!Rotate(old, new)
        \/ \E b \in Pairs \ Families!New : Families!End(family[b])
        \/ \E b \in good : Families!TakeAway(b)
    BY <1>1, FamilyNext, FamilyStep
  <2>3. \A b \in good : family[b] # family[n]
    BY <2>1 DEF Families!Family
  <2> HIDE DEF good
  <2>4. ASSUME NEW new \in Families!New, Families!Login(new)
        PROVE  FALSE
    <3>1. PICK f \in Pairs : Families!Family(f) = {} /\ family' = [family EXCEPT ![new] = f]
      BY <2>4 DEF Families!Login
    <3>2. new # n /\ family[n] # f /\ good' = good \cup {new}
      BY <2>4, <3>1 DEF Families!New, Families!Family, Families!Login, good
    <3> QED  BY <2>1, <2>3, <3>1, <3>2
  <2>5. ASSUME NEW new \in Families!New, NEW old \in good, Families!Rotate(old, new)
        PROVE  FALSE
    <3>1. new # n /\ family' = [family EXCEPT ![new] = family[old]] /\ good' = (good \ {old}) \cup {new}
      BY <2>5 DEF Families!Rotate, good
    <3> QED  BY <2>1, <2>3, <3>1
  <2>6. ASSUME UNCHANGED family, good' \subseteq good
        PROVE  FALSE
    BY <2>3, <2>6
  <2>7. CASE \E b \in Pairs \ Families!New : Families!End(family[b])
    BY <2>6, <2>7 DEF Families!End, good
  <2>8. CASE \E b \in good : Families!TakeAway(b)
    BY <2>6, <2>8 DEF Families!TakeAway, good
  <2> QED  BY <2>2, <2>4, <2>5, <2>7, <2>8
<1>2. Init => Numbered
  BY DEF Init, Numbered
<1>3. IInv /\ Numbered /\ [Next]_vars => Numbered'
  BY FamilyStep
<1> QED  BY <1>1, <1>2, <1>3, RefreshInvariant, PTL DEF Spec, Families!OverForGood

\* At every moment one pair of a family is in force, and none of a family that was revoked.
THEOREM RefreshOneGood == Spec => []Families!OneGood
<1>1. ASSUME IInv, RefreshAssumption
      PROVE  Families!OneGood
  <2>1. issued \in 0..MaxPairs /\ MaxPairs \in Nat
    BY <1>1 DEF IInv, TypeOK, Tokens, RefreshAssumption
  <2>2. \A n \in 1..issued : n \in Pairs /\ family[n] # 0
    BY <1>1, <2>1 DEF IInv, ServerInv, Issued, Pairs
  <2>3. \A m, n \in (1..issued) \ dead : family[m] = family[n] => m = n
    BY <1>1 DEF IInv, OneInForce
  <2>4. ASSUME NEW n \in (1..issued) \ dead, NEW r \in revoked, family[n] = family[r]
        PROVE  FALSE
    <3>1. n \in FamilyOf(r)
      BY <2>4 DEF FamilyOf
    <3> QED  BY <1>1, <2>4, <3>1 DEF IInv, RevokedTogether
  <2> QED  BY <2>2, <2>3, <2>4 DEF Families!OneGood, Families!New
<1> QED  BY <1>1, RefreshAssumption, RefreshInvariant, PTL
=============================================================================
