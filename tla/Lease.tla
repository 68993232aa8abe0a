------------------------------- MODULE Lease -------------------------------
(***************************************************************************)
(* A lease on one named resource of a project (internal/service/lease.go)  *)
(* and the client processes that take it, extend it, give it back and      *)
(* break it.  A request runs in one transaction that starts by locking the *)
(* row, so the server's side of it is one step; what is hard lies between  *)
(* the client and that step: a process gives up waiting, its request is    *)
(* handled all the same, later, in any order; a granted reply travels      *)
(* while time passes or never arrives.                                     *)
(*                                                                         *)
(* `belief` is what a process knows from the replies it got.  A lease is   *)
(* good for nothing unless two processes never both believe in it.         *)
(*                                                                         *)
(* Times are what is left until the expiry, so that they all run down      *)
(* together; the servers' clocks agree.                                    *)
(***************************************************************************)
EXTENDS Integers, FiniteSets

CONSTANTS Procs,      \* client processes (CLI calls of a script, MCP clients)
          Sessions, NoSession,
          SessionOf,  \* the user's session that the requests of a process carry
          Keyed,      \* the processes that send the key they were given (it is optional)
          Tokens, NoToken,
          TTLs,       \* the lengths that requests ask for
          Omitted,    \* no length asked for
          Default,    \* DefaultLeaseTTL
          MaxPending  \* bounds the requests of one process that are under way

ASSUME TTLAssumption     == Default \in Nat \ {0} /\ TTLs \subseteq Nat \ {0} /\ Omitted \notin TTLs
ASSUME TokenAssumption   == NoToken \notin Tokens
ASSUME SessionAssumption == NoSession \notin Sessions /\ SessionOf \in [Procs -> Sessions \cup {NoSession}]

VARIABLES
  lease,    \* the row: generation key, session of the holder, time left
  pending,  \* the requests of each process that no server has handled
  waiting,  \* the processes that wait for a reply
  reply,    \* a grant on its way to a process
  belief,   \* the generation that a process holds, as far as it knows
  cut       \* generations that someone entitled to it ended or shortened

vars == <<lease, pending, waiting, reply, belief, cut>>

NoGrant == [token |-> NoToken, left |-> 0]
Grant   == [token : Tokens \cup {NoToken}, left : Nat]
Free    == [token |-> NoToken, session |-> NoSession, left |-> 0]
Request == [op : {"acquire", "extend", "release", "break"}, token : Tokens \cup {NoToken},
            ttl : TTLs \cup {Omitted}, live : BOOLEAN]

Held == lease.token # NoToken

TypeOK ==
  /\ lease \in [token : Tokens \cup {NoToken}, session : Sessions \cup {NoSession}, left : Nat]
  /\ pending \in [Procs -> SUBSET Request]
  /\ waiting \in [Procs -> BOOLEAN]
  /\ reply \in [Procs -> Grant]
  /\ belief \in [Procs -> Grant]
  /\ cut \subseteq Tokens

Init ==
  /\ lease = Free
  /\ pending = [p \in Procs |-> {}]
  /\ waiting = [p \in Procs |-> FALSE]
  /\ reply = [p \in Procs |-> NoGrant]
  /\ belief = [p \in Procs |-> NoGrant]
  /\ cut = {}

Smaller(a, b) == IF a < b THEN a ELSE b
Larger(a, b)  == IF a < b THEN b ELSE a

-----------------------------------------------------------------------------
(* A client process: one request at a time, and it may give up waiting. *)

Send(p, r) ==
  /\ ~waiting[p] /\ Cardinality(pending[p]) < MaxPending
  /\ pending' = [pending EXCEPT ![p] = @ \cup {r}]
  /\ waiting' = [waiting EXCEPT ![p] = TRUE]
  /\ UNCHANGED <<lease, reply, cut>>

AskAcquire(p, ttl) ==
  /\ belief[p].left = 0
  /\ Send(p, [op |-> "acquire", token |-> NoToken, ttl |-> ttl, live |-> TRUE])
  /\ belief' = [belief EXCEPT ![p] = NoGrant]

Key(p) == IF p \in Keyed THEN belief[p].token ELSE NoToken

AskExtend(p, ttl) ==
  /\ belief[p].token # NoToken
  /\ Send(p, [op |-> "extend", token |-> Key(p), ttl |-> ttl, live |-> TRUE])
  /\ UNCHANGED belief

\* It stops using the resource before it gives it back.
AskRelease(p) ==
  /\ belief[p].token # NoToken
  /\ Send(p, [op |-> "release", token |-> Key(p), ttl |-> Omitted, live |-> TRUE])
  /\ belief' = [belief EXCEPT ![p] = NoGrant]

AskBreak(p) ==
  /\ Send(p, [op |-> "break", token |-> NoToken, ttl |-> Omitted, live |-> TRUE])
  /\ UNCHANGED belief

\* Timeout, lost connection, killed process: the request may still arrive.
GiveUp(p) ==
  /\ waiting[p]
  /\ waiting' = [waiting EXCEPT ![p] = FALSE]
  /\ pending' = [pending EXCEPT ![p] = {[r EXCEPT !.live = FALSE] : r \in @}]
  /\ reply' = [reply EXCEPT ![p] = NoGrant]
  /\ UNCHANGED <<lease, belief, cut>>

Receive(p) ==
  /\ reply[p] # NoGrant
  /\ belief' = [belief EXCEPT ![p] = reply[p]]
  /\ reply' = [reply EXCEPT ![p] = NoGrant]
  /\ waiting' = [waiting EXCEPT ![p] = FALSE]
  /\ UNCHANGED <<lease, pending, cut>>

-----------------------------------------------------------------------------
(* The server. *)

\* The request is done; its process gets g, if it still waits.
AnswerWith(p, r, g) ==
  /\ pending' = [pending EXCEPT ![p] = @ \ {r}]
  /\ reply' = IF r.live THEN [reply EXCEPT ![p] = g] ELSE reply
  /\ waiting' = IF r.live /\ g = NoGrant THEN [waiting EXCEPT ![p] = FALSE] ELSE waiting
  /\ UNCHANGED belief

Known(p) == {belief[p].token, reply[p].token}

\* newLeaseToken: 16 random bytes, never seen before.
NewToken(t) == /\ t # lease.token
               /\ \A p \in Procs : t \notin Known(p) /\ \A r \in pending[p] : r.token # t

TTL(r) == IF r.ttl = Omitted THEN Default ELSE r.ttl

\* Faulty variant: a holder that never comes back keeps the lease.
AcquireFree(p, r) ==
  \E t \in Tokens :
    /\ r \in pending[p] /\ r.op = "acquire"
    /\ ~Held /\ NewToken(t)
    /\ lease' = [token |-> t, session |-> SessionOf[p], left |-> TTL(r)]
    /\ cut' = cut \ {t}
    /\ AnswerWith(p, r, [token |-> t, left |-> TTL(r)])

AcquireLease(p, r) ==
  \E t \in Tokens :
    /\ r \in pending[p] /\ r.op = "acquire"
    /\ ~Held \/ lease.left = 0
    /\ NewToken(t)
    /\ lease' = [token |-> t, session |-> SessionOf[p], left |-> TTL(r)]
    /\ cut' = cut \ {t}
    /\ AnswerWith(p, r, [token |-> t, left |-> TTL(r)])

\* sameLeaseSession: requests without a session own nothing.
SameSession(p) == SessionOf[p] # NoSession /\ lease.session = SessionOf[p]

\* Faulty variant: the session is enough, whatever key comes with it.
SessionOrKey(p, r) == SameSession(p) \/ r.token = lease.token

\* isLeaseHolder: a key decides alone.
IsHolder(p, r) == IF r.token # NoToken THEN r.token = lease.token ELSE SameSession(p)

\* The generation that a request speaks for.
Meant(r) == IF r.token # NoToken THEN r.token ELSE lease.token

Extended(r) == IF r.ttl = Omitted THEN Larger(lease.left, Default) ELSE r.ttl

ExtendLease(p, r) ==
  /\ r \in pending[p] /\ r.op = "extend"
  /\ Held /\ IsHolder(p, r) /\ lease.left > 0
  /\ lease' = [lease EXCEPT !.left = Extended(r)]
  /\ cut' = IF Extended(r) < lease.left THEN cut \cup {Meant(r)} ELSE cut
  /\ AnswerWith(p, r, [token |-> lease.token, left |-> Extended(r)])

\* Also after the expiry, until the next one takes it.
ReleaseLease(p, r) ==
  /\ r \in pending[p] /\ r.op = "release"
  /\ Held /\ IsHolder(p, r)
  /\ lease' = Free
  /\ cut' = cut \cup {Meant(r)}
  /\ AnswerWith(p, r, NoGrant)

BreakLease(p, r) ==
  /\ r \in pending[p] /\ r.op = "break"
  /\ Held
  /\ lease' = Free
  /\ cut' = cut \cup {lease.token}
  /\ AnswerWith(p, r, NoGrant)

\* Held by another, not the holder, expired, free, archived project, no role,
\* a failing database: nothing changes.
Refuse(p, r) ==
  /\ r \in pending[p]
  /\ AnswerWith(p, r, NoGrant)
  /\ UNCHANGED <<lease, cut>>

Down(n) == IF n > 0 THEN n - 1 ELSE 0

Tick ==
  /\ lease' = [lease EXCEPT !.left = Down(@)]
  /\ reply' = [p \in Procs |-> [reply[p] EXCEPT !.left = Down(@)]]
  /\ belief' = [p \in Procs |-> [belief[p] EXCEPT !.left = Down(@)]]
  /\ UNCHANGED <<pending, waiting, cut>>

Ask(p) == \/ \E ttl \in TTLs \cup {Omitted} : AskAcquire(p, ttl) \/ AskExtend(p, ttl)
          \/ AskRelease(p)
          \/ AskBreak(p)

Handle(p, r) == \/ AcquireLease(p, r) \/ ExtendLease(p, r) \/ ReleaseLease(p, r)
                \/ BreakLease(p, r) \/ Refuse(p, r)

Next == \/ \E p \in Procs : Ask(p) \/ GiveUp(p) \/ Receive(p) \/ \E r \in pending[p] : Handle(p, r)
        \/ Tick

Spec == Init /\ [][Next]_vars

-----------------------------------------------------------------------------
\* A process that may use the resource, as far as it can know.
Believes(p) == belief[p].token \notin cut \cup {NoToken} /\ belief[p].left > 0

(***************************************************************************)
(* Mutual exclusion where it counts, at the clients: two processes that    *)
(* both believe in their lease, which nobody broke, released or shortened  *)
(* for them, are of one session that shares it without keys.  Late and     *)
(* lost requests and replies do not matter (isLeaseHolder, lease_held).    *)
(***************************************************************************)
Exclusive ==
  \A p, q \in Procs : p # q /\ Believes(p) /\ Believes(q) =>
    /\ belief[p].token = belief[q].token
    /\ SessionOf[p] = SessionOf[q] /\ SessionOf[p] # NoSession
    /\ ~ {p, q} \subseteq Keyed

-----------------------------------------------------------------------------
(* The inductive invariant behind it. *)

\* What a process knows, or is about to, is what the row says, or less.
Sound ==
  \A p \in Procs : \A g \in {belief[p], reply[p]} :
    g.token \notin cut \cup {NoToken} /\ g.left > 0 => g.token = lease.token /\ g.left <= lease.left

\* A generation is known in one session, and its key to one process.
Shared ==
  \A p, q \in Procs : p # q =>
    \A t \in (Known(p) \cap Known(q)) \ {NoToken} :
      SessionOf[p] = SessionOf[q] /\ SessionOf[p] # NoSession /\ ~ {p, q} \subseteq Keyed

KnownInSession ==
  \A p \in Procs : lease.token \in Known(p) \ {NoToken} => SessionOf[p] = lease.session

\* The one request whose answer a process waits for, and the key it carries.
Waits ==
  \A p \in Procs :
    /\ reply[p] # NoGrant => waiting[p]
    /\ \A r \in pending[p] :
         /\ r.live => waiting[p] /\ reply[p] = NoGrant /\ \A s \in pending[p] : s.live => s = r
         /\ r.op = "extend" /\ p \in Keyed => r.token # NoToken
         /\ r.op = "extend" /\ r.live /\ r.token # NoToken => r.token = belief[p].token

IInv == TypeOK /\ Sound /\ Shared /\ KnownInSession /\ Waits
=============================================================================
