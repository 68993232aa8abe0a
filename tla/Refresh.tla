------------------------------ MODULE Refresh ------------------------------
(***************************************************************************)
(* The OAuth tokens of one user at one server, kept in one credentials     *)
(* file that all client processes of the machine share.  An access token   *)
(* is issued with a refresh token; presenting the refresh token gives a    *)
(* new pair of the same family and puts the old pair out of force.  A      *)
(* refresh token that comes twice is taken for stolen, and its whole       *)
(* family is revoked: a client must never present one twice by itself,     *)
(* however many of its processes find the access token expired.            *)
(*                                                                         *)
(* A pair is named by the number of its issue; 0 is no token.  A request   *)
(* to the server is one transaction that locks the refresh token's row     *)
(* (and, to revoke, all rows of the family), so its effect is one step.    *)
(***************************************************************************)
EXTENDS Integers, FiniteSets

CONSTANTS
  Callers,     \* processes that call the API: hooks and commands
  Logins,      \* processes of "looptrack login --browser"
  NoOne,
  MaxPairs,    \* bound: pairs issued
  MaxClients,  \* bound: clients registered
  MaxFailures  \* bound: processes that die, lost replies, failed writes of the file

Procs == Callers \cup Logins
Pairs == 1..MaxPairs

ASSUME RefreshAssumption ==
  /\ Callers \cap Logins = {} /\ NoOne \notin Procs
  /\ MaxPairs \in Nat /\ MaxClients \in Nat /\ MaxFailures \in Nat

VARIABLES
  issued,    \* how many pairs were issued
  family,    \* the family of a pair: the first pair of its login
  clientOf,  \* the client that a pair was issued to
  clients,   \* how many clients were registered
  used,      \* pairs whose refresh token was rotated
  revoked,   \* pairs whose refresh token was revoked
  dead,      \* pairs whose access token was revoked
  age,       \* of a pair: 0; 1, the access token ends within a day; 2, it has ended; 3, the refresh token too
  file,      \* the entry of the server in credentials.json
  lock,      \* who holds credentials.json.lock
  proc,      \* what a process does: its place, the token it calls with, whether it refreshes before
             \* the call, the entry it read, the pair it was given
  late,      \* requests with a refresh token that reach the server although nobody waits for them
  failures,
  cut        \* the user revoked an access token on the account page

tokenVars == <<issued, family, clientOf, used, revoked, dead, age>>
history   == <<failures, cut>>
vars == <<tokenVars, clients, file, lock, proc, late, history>>

Tokens == 0..MaxPairs
Entry  == [token : Tokens, refresh : Tokens, client : Nat]
Empty  == [token |-> 0, refresh |-> 0, client |-> 0]
Places == {"idle", "check", "lock", "asked", "granted", "invalid", "call",
           "reusing", "register", "registered", "approved"}
Process == [pc : Places, token : Tokens, early : BOOLEAN, entry : Entry, pair : Tokens]
Idle == [pc |-> "idle", token |-> 0, early |-> FALSE, entry |-> Empty, pair |-> 0]

TypeOK ==
  /\ issued \in Tokens /\ clients \in Nat
  /\ family \in [Pairs -> Tokens] /\ clientOf \in [Pairs -> Nat]
  /\ used \subseteq Pairs /\ revoked \subseteq Pairs /\ dead \subseteq Pairs
  /\ age \in [Pairs -> 0..3]
  /\ file \in Entry /\ lock \in Procs \cup {NoOne}
  /\ proc \in [Procs -> Process]
  /\ late \in [Pairs -> Nat] /\ failures \in Nat
  /\ cut \in BOOLEAN

Init ==
  /\ issued = 0 /\ clients = 0
  /\ family = [n \in Pairs |-> 0] /\ clientOf = [n \in Pairs |-> 0] /\ age = [n \in Pairs |-> 0]
  /\ used = {} /\ revoked = {} /\ dead = {}
  /\ file = Empty /\ lock = NoOne
  /\ proc = [p \in Procs |-> Idle]
  /\ late = [n \in Pairs |-> 0] /\ failures = 0 /\ cut = FALSE

Becomes(p, new) == proc' = [proc EXCEPT ![p] = new]
Going(p, pc)    == Becomes(p, [proc[p] EXCEPT !.pc = pc])
Ends(p)         == Becomes(p, Idle)
Fails           == /\ failures < MaxFailures /\ failures' = failures + 1
                   /\ UNCHANGED cut

-----------------------------------------------------------------------------
(* The server. *)

FamilyOf(n) == {m \in 1..issued : family[m] = family[n]}
OutOfForce  == used \cup dead

\* issueOAuthTokens
Issue(fam, client) ==
  /\ issued < MaxPairs
  /\ issued' = issued + 1
  /\ family' = [family EXCEPT ![issued + 1] = fam]
  /\ clientOf' = [clientOf EXCEPT ![issued + 1] = client]
  /\ UNCHANGED <<revoked, age>>

\* Faulty variant: the access token of the old pair stays good.
RotateRefreshOnly(n, client) ==
  /\ clientOf[n] = client /\ n \notin revoked \cup OutOfForce /\ age[n] < 3
  /\ used' = used \cup {n} /\ dead' = dead
  /\ Issue(family[n], client)

\* The refresh token is marked used, and the access token it was issued with is revoked.
Rotate(n, client) ==
  /\ clientOf[n] = client /\ n \notin revoked \cup OutOfForce /\ age[n] < 3
  /\ used' = used \cup {n} /\ dead' = dead \cup {n}
  /\ Issue(family[n], client)

\* Faulty variant: only the presented pair is revoked.
RevokeOne(n) ==
  /\ revoked' = revoked \cup {n} /\ dead' = dead \cup {n}
  /\ UNCHANGED <<issued, family, clientOf, used, age>>

RevokeRefreshFamily(n) ==
  /\ revoked' = revoked \cup FamilyOf(n) /\ dead' = dead \cup FamilyOf(n)
  /\ UNCHANGED <<issued, family, clientOf, used, age>>

\* invalid_grant: another client's token, or one that is revoked or has lapsed, changes nothing;
\* one that was used, or whose access token was revoked, ends its family.
Deny(n, client) ==
  \/ /\ \/ clientOf[n] # client
        \/ n \in revoked
        \/ n \notin OutOfForce /\ age[n] = 3
     /\ UNCHANGED tokenVars
  \/ /\ clientOf[n] = client /\ n \in OutOfForce \ revoked
     /\ RevokeRefreshFamily(n)

\* bearer
Accepts(n) == n \notin dead /\ age[n] < 2

Late(n) ==
  /\ late[n] > 0 /\ late' = [late EXCEPT ![n] = @ - 1]
  /\ Rotate(n, clientOf[n]) \/ Deny(n, clientOf[n])
  /\ UNCHANGED <<clients, file, lock, proc, history>>

\* accountRevokeToken; bound: once.
UserRevokes(n) ==
  /\ n <= issued /\ n \notin dead /\ ~cut
  /\ dead' = dead \cup {n} /\ cut' = TRUE
  /\ UNCHANGED <<issued, family, clientOf, used, revoked, age, clients, file, lock, proc, late,
                 failures>>

\* The dates of a pair that is out of force and not in the file no longer matter.
Matters(n) == n \notin OutOfForce \/ n = file.token

\* Time passes: an older pair reaches each of its dates first.
Age(n) ==
  /\ n <= issued /\ Matters(n) /\ age[n] < 3
  /\ \A m \in 1..(n - 1) : Matters(m) => age[m] > age[n]
  /\ age' = [age EXCEPT ![n] = @ + 1]
  /\ UNCHANGED <<issued, family, clientOf, used, revoked, dead, clients, file, lock, proc, late, history>>

-----------------------------------------------------------------------------
(* A caller: Do. *)

\* Faulty variant: a return without the deferred unlock.
StaysLocked == lock' = lock

Unlock == lock' = NoOne

\* TokenSource
Start(p) ==
  /\ proc[p].pc = "idle" /\ file.token # 0
  /\ Becomes(p, [Idle EXCEPT !.pc = "check", !.token = file.token])
  /\ UNCHANGED <<tokenVars, clients, file, lock, late, history>>

\* refreshIfExpiring: a look at the file, without the lock.
Check(p) ==
  /\ proc[p].pc = "check"
  /\ IF file.token = proc[p].token /\ file.refresh # 0 /\ age[file.token] > 0
     THEN Becomes(p, [proc[p] EXCEPT !.pc = "lock", !.early = TRUE])
     ELSE Going(p, "call")
  /\ UNCHANGED <<tokenVars, clients, file, lock, late, history>>

\* The end of refresh, with a token or with the old one.  After a 401 Do calls once more if it has a
\* new token, and ends whatever the answer is.
Refreshed(p, token) ==
  IF proc[p].early THEN Becomes(p, [Idle EXCEPT !.pc = "call", !.token = token]) ELSE Ends(p)
NotRefreshed(p) == Refreshed(p, proc[p].token)

Locked(p) == proc[p].pc = "lock" /\ lock = NoOne

\* refresh, under the lock: another process was faster.
UseNewer(p) ==
  /\ Locked(p) /\ file.token # proc[p].token
  /\ Refreshed(p, file.token)
  /\ UNCHANGED <<tokenVars, clients, file, lock, late, history>>

NothingToPresent(p) ==
  /\ Locked(p) /\ file.token = proc[p].token /\ (file.refresh = 0 \/ file.client = 0)
  /\ NotRefreshed(p)
  /\ UNCHANGED <<tokenVars, clients, file, lock, late, history>>

\* Faulty variant: the entry was read before the lock was taken.
AskWithOld(p) ==
  /\ Locked(p) /\ file.refresh # 0 /\ file.client # 0
  /\ lock' = p
  /\ Becomes(p, [proc[p] EXCEPT !.pc = "asked",
                                !.entry = [file EXCEPT !.token = proc[p].token, !.refresh = proc[p].token]])
  /\ UNCHANGED <<tokenVars, clients, file, late, history>>

Ask(p) ==
  /\ Locked(p) /\ file.token = proc[p].token /\ file.refresh # 0 /\ file.client # 0
  /\ lock' = p
  /\ Becomes(p, [proc[p] EXCEPT !.pc = "asked", !.entry = file])
  /\ UNCHANGED <<tokenVars, clients, file, late, history>>

Granted(p) ==
  /\ proc[p].pc = "asked"
  /\ Rotate(proc[p].entry.refresh, proc[p].entry.client)
  /\ Becomes(p, [proc[p] EXCEPT !.pc = "granted", !.pair = issued + 1])
  /\ UNCHANGED <<clients, file, lock, late, history>>

Denied(p) ==
  /\ proc[p].pc = "asked"
  /\ Deny(proc[p].entry.refresh, proc[p].entry.client)
  /\ Going(p, "invalid")
  /\ UNCHANGED <<clients, file, lock, late, history>>

\* A request that nobody waits for any more is lost, or handled later; another client's changes nothing.
Abandoned(p) ==
  \/ late' = late
  \/ /\ clientOf[proc[p].entry.refresh] = proc[p].entry.client
     /\ late' = [late EXCEPT ![proc[p].entry.refresh] = @ + 1]

\* No connection, no answer, an error of the server.
NoAnswer(p) ==
  /\ proc[p].pc = "asked" /\ Fails
  /\ Abandoned(p)
  /\ NotRefreshed(p) /\ Unlock
  /\ UNCHANGED <<tokenVars, clients, file>>

Save(p) ==
  /\ proc[p].pc = "granted"
  /\ file' = [proc[p].entry EXCEPT !.token = proc[p].pair, !.refresh = proc[p].pair]
  /\ Refreshed(p, proc[p].pair) /\ Unlock
  /\ UNCHANGED <<tokenVars, clients, late, history>>

\* Faulty variant: the refused refresh token stays in the file.
KeepInvalid(p) ==
  /\ proc[p].pc = "invalid"
  /\ file' = proc[p].entry
  /\ NotRefreshed(p) /\ Unlock
  /\ UNCHANGED <<tokenVars, clients, late, history>>

Forget(p) ==
  /\ proc[p].pc = "invalid"
  /\ file' = [proc[p].entry EXCEPT !.refresh = 0]
  /\ NotRefreshed(p) /\ Unlock
  /\ UNCHANGED <<tokenVars, clients, late, history>>

SaveFails(p) ==
  /\ proc[p].pc \in {"granted", "invalid"} /\ Fails
  /\ Ends(p) /\ Unlock
  /\ UNCHANGED <<tokenVars, clients, file, late>>

\* The call itself; a 401 is followed by a refresh.
CallOnce(p) ==
  /\ proc[p].pc = "call"
  /\ IF Accepts(proc[p].token) THEN Ends(p)
     ELSE Becomes(p, [proc[p] EXCEPT !.pc = "lock", !.early = FALSE])
  /\ UNCHANGED <<tokenVars, clients, file, lock, late, history>>

\* The system releases the lock of a process that dies.
Release(p) == lock' = IF lock = p THEN NoOne ELSE lock

Crash(p) ==
  /\ proc[p].pc # "idle" /\ Fails
  /\ IF proc[p].pc = "asked" THEN Abandoned(p) ELSE late' = late
  /\ Ends(p) /\ Release(p)
  /\ UNCHANGED <<tokenVars, clients, file>>

Call(p) == \/ Start(p) \/ Check(p) \/ UseNewer(p) \/ NothingToPresent(p) \/ Ask(p)
           \/ Granted(p) \/ Denied(p) \/ Save(p) \/ Forget(p) \/ CallOnce(p)

-----------------------------------------------------------------------------
(* A login: loginBrowser.  It holds the lock for each access to the file,  *)
(* and not while it waits for the browser.                                 *)

Open(l) ==
  /\ proc[l].pc = "idle" /\ lock = NoOne
  /\ Becomes(l, [Idle EXCEPT !.pc = IF file.client = 0 THEN "register" ELSE "reusing", !.entry.client = file.client])
  /\ UNCHANGED <<tokenVars, clients, file, lock, late, history>>

\* The entry gets another client, or none; its tokens stay, which were issued to the client it had.
Relabels(client) ==
  /\ file' = [file EXCEPT !.client = client]
  /\ UNCHANGED <<tokenVars, lock, late, history>>

\* A new client; its number is saved for the next login.
Register(l) ==
  /\ proc[l].pc = "register" /\ lock = NoOne
  /\ clients < MaxClients /\ clients' = clients + 1
  /\ Relabels(clients + 1)
  /\ Becomes(l, [proc[l] EXCEPT !.pc = "registered", !.entry.client = clients + 1])

\* The user approved in the browser, and the code was exchanged for the first pair of a family.
Approve(l) ==
  /\ proc[l].pc \in {"reusing", "registered"}
  /\ Issue(issued + 1, proc[l].entry.client)
  /\ Becomes(l, [proc[l] EXCEPT !.pc = "approved", !.pair = issued + 1])
  /\ UNCHANGED <<used, dead, clients, file, lock, late, history>>

SaveLogin(l) ==
  /\ proc[l].pc = "approved" /\ lock = NoOne
  /\ file' = [token |-> proc[l].pair, refresh |-> proc[l].pair, client |-> proc[l].entry.client]
  /\ Ends(l)
  /\ UNCHANGED <<tokenVars, clients, lock, late, history>>

\* Nobody answered: perhaps the server does not know the client, so the next login registers anew.
TimeOut(l) ==
  /\ proc[l].pc = "reusing" /\ lock = NoOne
  /\ Relabels(0)
  /\ Ends(l)
  /\ UNCHANGED clients

\* Interrupted, refused, or the exchange failed.
Quit(l) ==
  /\ proc[l].pc # "idle"
  /\ Ends(l)
  /\ UNCHANGED <<tokenVars, clients, file, lock, late, history>>

-----------------------------------------------------------------------------
Next ==
  \/ \E n \in Pairs : Late(n) \/ UserRevokes(n) \/ Age(n)
  \/ \E p \in Callers : Call(p) \/ NoAnswer(p) \/ SaveFails(p) \/ Crash(p)
  \/ \E l \in Logins : Open(l) \/ Register(l) \/ Approve(l) \/ SaveLogin(l) \/ TimeOut(l) \/ Quit(l)

Spec == Init /\ [][Next]_vars

\* The hooks of the sessions go on calling, and a call goes on when it can.
LiveSpec == Spec /\ \A p \in Callers : WF_vars(Call(p))

-----------------------------------------------------------------------------
(* Properties. *)

(***************************************************************************)
(* DESIGN.md 3-2: "the account page always shows one valid token per       *)
(* family": of the pairs of a family at most one is good for calls, and at *)
(* most one can be presented, however rotations, reuses, revocations and   *)
(* late requests mix (oauthTokenFromRefresh).                              *)
(***************************************************************************)
OneInForce ==
  \A m, n \in 1..issued : m # n /\ family[m] = family[n] =>
    {m, n} \cap dead # {} /\ {m, n} \cap (used \cup revoked) # {}

(***************************************************************************)
(* A family is revoked as a whole and for good: nothing that was issued in *)
(* it before, or by a request that was under way, works afterwards         *)
(* (RevokeRefreshFamily).                                                  *)
(***************************************************************************)
RevokedTogether == \A n \in revoked : FamilyOf(n) \subseteq revoked \cap dead

\* No process died, no reply was lost, no write of the file failed, and the user revoked nothing.
NothingWentWrong == failures = 0 /\ ~cut

\* The entry has the client that its token was issued to.
SameClient == file.client = clientOf[file.token]

\* The server will accept the file's refresh token from that client.
Presentable == file.refresh \notin used \cup revoked \cup dead

(***************************************************************************)
(* Processes that share the file do not log each other out.  As long as    *)
(* nothing of NothingWentWrong fails, they never make the server take      *)
(* their refresh token for stolen; and the entry then has one that will be *)
(* accepted, if it has not lapsed and the entry still has the client that  *)
(* it was issued to (refresh with credentials.json.lock).                  *)
(*                                                                         *)
(* The last condition is one that DESIGN.md 3-2 does not make ("a terminal *)
(* that is used within 90 days is not cut off"): a login in the browser    *)
(* that nobody answers takes the client away from the entry in use         *)
(* (TimeOut, login.go:236), the next one puts a new client there           *)
(* (Register; so does the slower of two first logins), and from then on    *)
(* the entry cannot be refreshed until somebody logs in.  Even then no     *)
(* token is presented twice.                                               *)
(***************************************************************************)
StaysLoggedIn ==
  NothingWentWrong =>
    /\ revoked = {}
    /\ lock = NoOne /\ file.token # 0 /\ age[file.token] < 3 /\ SameClient
         => file.refresh = file.token /\ Presentable

\* The server has taken back the file's refresh token, or has rotated it and the answer did not arrive.
Spent == file.refresh \in used \cup revoked /\ file.client # 0

(***************************************************************************)
(* After a lost answer or a write that failed, the client does not go on   *)
(* with a refresh token that is no longer good: it presents it, is         *)
(* refused, and forgets it, so that the user is sent to log in again       *)
(* (refresh, "invalid").                                                   *)
(***************************************************************************)
UserIsTold == Spent ~> ~Spent

\* What the tables say of families: the pairs that are good (but for their dates), and the families revoked.
Families == INSTANCE TokenFamilies WITH good <- (1..issued) \ dead, ended <- {family[n] : n \in revoked}

(***************************************************************************)
(* The marks on pairs implement chains of tokens: each rotation replaces   *)
(* the one good pair of its family, a refresh token that comes twice ends  *)
(* the family whole, and a family that has ended, or has lost its good     *)
(* pair, has none again (oauthTokenFromRefresh, RevokeRefreshFamily).      *)
(***************************************************************************)
ImplementsFamilies == Families!Spec

-----------------------------------------------------------------------------
(* The inductive invariant. *)

Issued == 1..issued
Refreshing == {"asked", "granted", "invalid"}
LoginPlaces == {"idle", "reusing", "register", "registered", "approved"}

\* Whoever holds the lock refreshes, and nobody changes the file under it.
LockInv ==
  /\ \A p \in Procs : lock = p <=> proc[p].pc \in Refreshing
  /\ \A l \in Logins : proc[l].pc \in LoginPlaces
  /\ \A p \in Callers : proc[p].pc \in Refreshing => proc[p].entry = file /\ file.refresh # 0

ServerInv ==
  /\ \A n \in Issued : family[n] \in 1..n
  /\ used \cup revoked \subseteq dead /\ dead \subseteq Issued

LateInv == \A n \in Pairs : late[n] > 0 => n \in Issued

\* The processes that bring a pair to the file.
OnTheWay == {p \in Procs : proc[p].pc \in {"granted", "approved"}}

FileInv ==
  /\ file.token \in Issued \cup {0} /\ file.refresh \in {0, file.token}
  /\ \A p \in OnTheWay : proc[p].pair \in Issued

Fresh(p) ==
  /\ proc[p].pair \notin used /\ proc[p].pair # file.refresh
  /\ clientOf[proc[p].pair] = proc[p].entry.client

\* Clients are registered before they are used, and no number is given twice.
ClientInv ==
  /\ \A n \in Issued : clientOf[n] \in 1..clients
  /\ file.client \in 0..clients
  /\ \A l \in Logins : proc[l].pc \in {"reusing", "registered", "approved"} => proc[l].entry.client \in 1..clients

\* The server refuses the entry's refresh token although it was never used.
Lapsed == age[file.token] = 3 \/ ~SameClient

\* What holds as long as nothing has gone wrong.
Calm ==
  /\ revoked = {} /\ dead = used /\ \A n \in Pairs : late[n] = 0
  /\ \A p \in OnTheWay : Fresh(p)
  /\ \A p, q \in OnTheWay : p # q => proc[p].pair # proc[q].pair
  /\ file.token # 0 /\ file.refresh = 0 => Lapsed
  /\ \A p \in Callers : proc[p].pc = "invalid" => Lapsed
  /\ file.refresh # 0 /\ (\A p \in Callers : proc[p].pc # "granted") => Presentable

CalmInv == NothingWentWrong => Calm

IInv == /\ TypeOK /\ LockInv /\ FileInv /\ ServerInv /\ LateInv /\ ClientInv
        /\ OneInForce /\ RevokedTogether /\ CalmInv

=============================================================================
