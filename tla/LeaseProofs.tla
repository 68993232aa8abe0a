---------------------------- MODULE LeaseProofs ----------------------------
(***************************************************************************)
(* Exclusive holds for any processes, sessions, keys and lengths.          *)
(***************************************************************************)
EXTENDS Lease, TLAPS

(***************************************************************************)
(* The length of a grant is a positive time (leaseTTL).                    *)
(***************************************************************************)
LEMMA Lengths ==
  ASSUME NEW r \in Request
  PROVE  TTL(r) \in Nat \ {0}
BY TTLAssumption DEF Request, TTL

(***************************************************************************)
(* An extension leaves a positive time as well.                            *)
(***************************************************************************)
LEMMA ExtendedType ==
  ASSUME TypeOK, NEW r \in Request
  PROVE  Extended(r) \in Nat
BY TTLAssumption DEF TypeOK, Request, Extended, Larger

(***************************************************************************)
(* The answer to a request keeps the types of what it touches.             *)
(***************************************************************************)
LEMMA AnswerType ==
  ASSUME TypeOK, NEW p \in Procs, NEW r \in pending[p], NEW g \in Grant, AnswerWith(p, r, g)
  PROVE  /\ pending' \in [Procs -> SUBSET Request]
         /\ reply' \in [Procs -> Grant]
         /\ waiting' \in [Procs -> BOOLEAN]
         /\ belief' \in [Procs -> Grant]
BY DEF TypeOK, AnswerWith

\* A request that is sent keeps the types.
LEMMA SendType ==
  ASSUME TypeOK, NEW p \in Procs, NEW r \in Request, Send(p, r)
  PROVE  /\ pending' \in [Procs -> SUBSET Request]
         /\ reply' \in [Procs -> Grant]
         /\ waiting' \in [Procs -> BOOLEAN]
         /\ lease' = lease /\ cut' = cut
BY DEF TypeOK, Send

\* The empty grant is a grant.
LEMMA Nothing == NoGrant \in Grant
BY DEF NoGrant, Grant

\* Every step keeps the types.
LEMMA TypeStep ==
  ASSUME TypeOK, [Next]_vars
  PROVE  TypeOK'
<1>1. ASSUME NEW p \in Procs, NEW ttl \in TTLs \cup {Omitted}, AskAcquire(p, ttl)
      PROVE  TypeOK'
  <2>1. [op |-> "acquire", token |-> NoToken, ttl |-> ttl, live |-> TRUE] \in Request
    BY DEF Request
  <2>2. belief' \in [Procs -> Grant]
    BY <1>1, Nothing DEF AskAcquire, TypeOK
  <2> QED  BY <1>1, <2>1, <2>2, SendType DEF AskAcquire, TypeOK
<1>2. ASSUME NEW p \in Procs, NEW ttl \in TTLs \cup {Omitted}, AskExtend(p, ttl)
      PROVE  TypeOK'
  <2>1. [op |-> "extend", token |-> Key(p), ttl |-> ttl, live |-> TRUE] \in Request
    BY DEF Request, Key, TypeOK, Grant
  <2> QED  BY <1>2, <2>1, SendType DEF AskExtend, TypeOK
<1>3. ASSUME NEW p \in Procs, AskRelease(p)
      PROVE  TypeOK'
  <2>1. [op |-> "release", token |-> Key(p), ttl |-> Omitted, live |-> TRUE] \in Request
    BY DEF Request, Key, TypeOK, Grant
  <2>2. belief' \in [Procs -> Grant]
    BY <1>3, Nothing DEF AskRelease, TypeOK
  <2> QED  BY <1>3, <2>1, <2>2, SendType DEF AskRelease, TypeOK
<1>4. ASSUME NEW p \in Procs, AskBreak(p)
      PROVE  TypeOK'
  <2>1. [op |-> "break", token |-> NoToken, ttl |-> Omitted, live |-> TRUE] \in Request
    BY DEF Request
  <2> QED  BY <1>4, <2>1, SendType DEF AskBreak, TypeOK
<1>5. ASSUME NEW p \in Procs, GiveUp(p)
      PROVE  TypeOK'
  <2>1. ASSUME NEW r \in pending[p]
        PROVE  [r EXCEPT !.live = FALSE] \in Request
    <3>1. r \in Request
      BY DEF TypeOK
    <3> QED  BY <3>1 DEF Request
  <2> QED  BY <1>5, <2>1, Nothing DEF GiveUp, TypeOK
<1>6. ASSUME NEW p \in Procs, Receive(p)
      PROVE  TypeOK'
  BY <1>6, Nothing DEF Receive, TypeOK
<1>7. ASSUME NEW p \in Procs, NEW r \in pending[p], AcquireLease(p, r)
      PROVE  TypeOK'
  <2>0. r \in Request
    BY DEF TypeOK
  <2>1. PICK t \in Tokens :
          /\ lease' = [token |-> t, session |-> SessionOf[p], left |-> TTL(r)]
          /\ cut' = cut \ {t}
          /\ AnswerWith(p, r, [token |-> t, left |-> TTL(r)])
    BY <1>7 DEF AcquireLease
  <2>2. [token |-> t, left |-> TTL(r)] \in Grant
    BY <2>0, Lengths DEF Grant
  <2> QED  BY <2>0, <2>1, <2>2, AnswerType, Lengths, SessionAssumption DEF TypeOK
<1>8. ASSUME NEW p \in Procs, NEW r \in pending[p], ExtendLease(p, r)
      PROVE  TypeOK'
  <2>0. r \in Request
    BY DEF TypeOK
  <2>1. [token |-> lease.token, left |-> Extended(r)] \in Grant
    BY <2>0, ExtendedType DEF Grant, TypeOK
  <2>2. Meant(r) \in Tokens
    BY <1>8, <2>0 DEF ExtendLease, Meant, Held, TypeOK, Request
  <2>3. lease' = [lease EXCEPT !.left = Extended(r)]
        /\ AnswerWith(p, r, [token |-> lease.token, left |-> Extended(r)])
        /\ cut' \subseteq Tokens
    BY <1>8, <2>2 DEF ExtendLease, TypeOK
  <2> QED  BY <2>0, <2>1, <2>3, AnswerType, ExtendedType DEF TypeOK
<1>9. ASSUME NEW p \in Procs, NEW r \in pending[p], ReleaseLease(p, r)
      PROVE  TypeOK'
  <2>0. r \in Request
    BY DEF TypeOK
  <2>2. Meant(r) \in Tokens
    BY <1>9, <2>0 DEF ReleaseLease, Meant, Held, TypeOK, Request
  <2> QED  BY <1>9, <2>2, AnswerType, Nothing DEF ReleaseLease, TypeOK, Free
<1>10. ASSUME NEW p \in Procs, NEW r \in pending[p], BreakLease(p, r)
       PROVE  TypeOK'
  BY <1>10, AnswerType, Nothing DEF BreakLease, TypeOK, Free, Held
<1>11. ASSUME NEW p \in Procs, NEW r \in pending[p], Refuse(p, r)
       PROVE  TypeOK'
  BY <1>11, AnswerType, Nothing DEF Refuse, TypeOK
<1>12. CASE Tick
  <2>1. \A n \in Nat : Down(n) \in Nat
    BY DEF Down
  <2>2. \A g \in Grant : [g EXCEPT !.left = Down(@)] \in Grant
    BY <2>1 DEF Grant
  <2>3. lease' \in [token : Tokens \cup {NoToken}, session : Sessions \cup {NoSession}, left : Nat]
    BY <1>12, <2>1 DEF Tick, TypeOK
  <2> QED  BY <1>12, <2>2, <2>3 DEF Tick, TypeOK
<1>13. CASE UNCHANGED vars
  BY <1>13 DEF vars, TypeOK
<1> QED
  BY <1>1, <1>2, <1>3, <1>4, <1>5, <1>6, <1>7, <1>8, <1>9, <1>10, <1>11, <1>12, <1>13
  DEF Next, Ask, Handle

(***************************************************************************)
(* What an answer leaves of the requests and the replies.                  *)
(***************************************************************************)
LEMMA AnswerFacts ==
  ASSUME TypeOK, NEW p \in Procs, NEW r \in pending[p], NEW g \in Grant, AnswerWith(p, r, g)
  PROVE  /\ pending'[p] = pending[p] \ {r}
         /\ \A q \in Procs \ {p} : pending'[q] = pending[q] /\ reply'[q] = reply[q] /\ waiting'[q] = waiting[q]
         /\ reply'[p] = IF r.live THEN g ELSE reply[p]
         /\ waiting'[p] = IF r.live /\ g = NoGrant THEN FALSE ELSE waiting[p]
         /\ belief' = belief
BY DEF AnswerWith, TypeOK

\* The beliefs stay, and at most one process gets a reply.
LEMMA AnswerReplies ==
  ASSUME TypeOK, NEW p \in Procs, NEW r \in pending[p], NEW g \in Grant, AnswerWith(p, r, g)
  PROVE  /\ belief' = belief
         /\ \A q \in Procs : reply'[q] = reply[q] \/ (q = p /\ r.live /\ reply'[q] = g)
<1>1. CASE r.live
  BY <1>1 DEF AnswerWith, TypeOK
<1>2. CASE ~r.live
  BY <1>2 DEF AnswerWith
<1> QED  BY <1>1, <1>2

(***************************************************************************)
(* Waits is preserved by every answer that a server gives.                 *)
(***************************************************************************)
LEMMA AnswerWaits ==
  ASSUME TypeOK, Waits, NEW p \in Procs, NEW r \in pending[p], NEW g \in Grant, AnswerWith(p, r, g)
  PROVE  Waits'
<1> SUFFICES ASSUME NEW q \in Procs
             PROVE  /\ reply'[q] # NoGrant => waiting'[q]
                    /\ \A u \in pending'[q] :
                         /\ u.live => waiting'[q] /\ reply'[q] = NoGrant /\ \A v \in pending'[q] : v.live => v = u
                         /\ u.op = "extend" /\ q \in Keyed => u.token # NoToken
                         /\ u.op = "extend" /\ u.live /\ u.token # NoToken => u.token = belief'[q].token
  BY DEF Waits
<1>0. /\ pending'[p] = pending[p] \ {r} /\ belief' = belief
      /\ \A z \in Procs \ {p} : pending'[z] = pending[z] /\ reply'[z] = reply[z] /\ waiting'[z] = waiting[z]
      /\ reply'[p] = IF r.live THEN g ELSE reply[p]
      /\ waiting'[p] = IF r.live /\ g = NoGrant THEN FALSE ELSE waiting[p]
  BY AnswerFacts
<1>1. CASE q # p
  BY <1>0, <1>1 DEF Waits
<1>2. CASE q = p /\ r.live
  <2>1. \A u \in pending'[p] : ~u.live
    BY <1>0, <1>2 DEF Waits
  <2>2. waiting[p]
    BY <1>2 DEF Waits
  <2> QED  BY <1>0, <1>2, <2>1, <2>2 DEF Waits
<1>3. CASE q = p /\ ~r.live
  BY <1>0, <1>3 DEF Waits
<1> QED  BY <1>1, <1>2, <1>3

\* Waits is preserved by every request that a process sends.
LEMMA SendWaits ==
  ASSUME TypeOK, Waits, NEW p \in Procs, NEW r \in Request, Send(p, r),
         r.op = "extend" => r.token = Key(p) /\ belief[p].token # NoToken,
         \/ belief' = belief
         \/ r.op # "extend" /\ belief' = [belief EXCEPT ![p] = NoGrant]
  PROVE  Waits'
<1> SUFFICES ASSUME NEW q \in Procs
             PROVE  /\ reply'[q] # NoGrant => waiting'[q]
                    /\ \A u \in pending'[q] :
                         /\ u.live => waiting'[q] /\ reply'[q] = NoGrant /\ \A v \in pending'[q] : v.live => v = u
                         /\ u.op = "extend" /\ q \in Keyed => u.token # NoToken
                         /\ u.op = "extend" /\ u.live /\ u.token # NoToken => u.token = belief'[q].token
  BY DEF Waits
<1>0. /\ pending'[p] = pending[p] \cup {r} /\ waiting'[p] /\ reply' = reply /\ reply[p] = NoGrant
      /\ \A u \in pending[p] : ~u.live
      /\ \A z \in Procs \ {p} : pending'[z] = pending[z] /\ waiting'[z] = waiting[z] /\ belief'[z] = belief[z]
  BY DEF Send, Waits, TypeOK
<1>1. CASE q # p
  BY <1>0, <1>1 DEF Waits
<1>2. CASE q = p
  BY <1>0, <1>2 DEF Waits, Key
<1> QED  BY <1>1, <1>2

\* Every step preserves Waits.
LEMMA WaitsStep ==
  ASSUME TypeOK, Waits, [Next]_vars
  PROVE  Waits'
<1>1. ASSUME NEW p \in Procs, NEW ttl \in TTLs \cup {Omitted}, AskAcquire(p, ttl)
      PROVE  Waits'
  <2>1. [op |-> "acquire", token |-> NoToken, ttl |-> ttl, live |-> TRUE] \in Request
    BY DEF Request
  <2> QED  BY <1>1, <2>1, SendWaits DEF AskAcquire
<1>2. ASSUME NEW p \in Procs, NEW ttl \in TTLs \cup {Omitted}, AskExtend(p, ttl)
      PROVE  Waits'
  <2>1. [op |-> "extend", token |-> Key(p), ttl |-> ttl, live |-> TRUE] \in Request
    BY DEF Request, Key, TypeOK, Grant
  <2> QED  BY <1>2, <2>1, SendWaits DEF AskExtend
<1>3. ASSUME NEW p \in Procs, AskRelease(p)
      PROVE  Waits'
  <2>1. [op |-> "release", token |-> Key(p), ttl |-> Omitted, live |-> TRUE] \in Request
    BY DEF Request, Key, TypeOK, Grant
  <2> QED  BY <1>3, <2>1, SendWaits DEF AskRelease
<1>4. ASSUME NEW p \in Procs, AskBreak(p)
      PROVE  Waits'
  <2>1. [op |-> "break", token |-> NoToken, ttl |-> Omitted, live |-> TRUE] \in Request
    BY DEF Request
  <2> QED  BY <1>4, <2>1, SendWaits DEF AskBreak
<1>5. ASSUME NEW p \in Procs, GiveUp(p)
      PROVE  Waits'
  <2>1. \A u \in pending'[p] : \E v \in pending[p] : u = [v EXCEPT !.live = FALSE]
    BY <1>5 DEF GiveUp, TypeOK
  <2>2. \A u \in pending'[p] : ~u.live /\ \E v \in pending[p] : u.op = v.op /\ u.token = v.token
    BY <2>1 DEF TypeOK, Request
  <2> QED  BY <1>5, <2>2 DEF GiveUp, Waits, TypeOK
<1>6. ASSUME NEW p \in Procs, Receive(p)
      PROVE  Waits'
  BY <1>6 DEF Receive, Waits, TypeOK
<1>7. ASSUME NEW p \in Procs, NEW r \in pending[p], Handle(p, r)
      PROVE  Waits'
  <2>1. \E g \in Grant : AnswerWith(p, r, g)
    <3>0. r \in Request
      BY DEF TypeOK
    <3>1. CASE \E t \in Tokens : AnswerWith(p, r, [token |-> t, left |-> TTL(r)])
      BY <3>0, <3>1, Lengths DEF Grant
    <3>2. CASE AnswerWith(p, r, [token |-> lease.token, left |-> Extended(r)])
      <4>1. [token |-> lease.token, left |-> Extended(r)] \in Grant
        BY <3>0, ExtendedType DEF Grant, TypeOK
      <4> QED  BY <3>2, <4>1
    <3>3. CASE AnswerWith(p, r, NoGrant)
      BY <3>3, Nothing
    <3> QED
      BY <1>7, <3>1, <3>2, <3>3
      DEF Handle, AcquireLease, ExtendLease, ReleaseLease, BreakLease, Refuse
  <2> QED  BY <2>1, AnswerWaits
<1>8. CASE Tick
  <2>1. ASSUME NEW p \in Procs
        PROVE  /\ pending'[p] = pending[p] /\ waiting'[p] = waiting[p]
               /\ belief'[p].token = belief[p].token
               /\ reply[p] = NoGrant => reply'[p] = NoGrant
    <3>1. reply'[p] = [reply[p] EXCEPT !.left = Down(@)] /\ reply[p] \in Grant /\ reply'[p].token = reply[p].token
      BY <1>8 DEF Tick, TypeOK, Grant
    <3> QED  BY <1>8, <3>1 DEF Tick, TypeOK, Grant, NoGrant, Down
  <2> QED  BY <2>1 DEF Waits
<1>9. CASE UNCHANGED vars
  BY <1>9 DEF vars, Waits
<1> QED
  BY <1>1, <1>2, <1>3, <1>4, <1>5, <1>6, <1>7, <1>8, <1>9 DEF Next, Ask

(***************************************************************************)
(* Who knows which generation, after a step that leaves the row's alone    *)
(* and tells no process anything new.                                      *)
(***************************************************************************)
LEMMA NothingLearnt ==
  ASSUME Shared, KnownInSession,
         lease'.token = lease.token /\ lease'.session = lease.session,
         \A p \in Procs : Known(p)' \subseteq Known(p) \cup {NoToken}
  PROVE  Shared' /\ KnownInSession'
BY DEF Shared, KnownInSession

\* A refusal and a release tell nothing either.
LEMMA AnswerNothing ==
  ASSUME TypeOK, NEW p \in Procs, NEW r \in pending[p], AnswerWith(p, r, NoGrant)
  PROVE  \A q \in Procs : Known(q)' \subseteq Known(q) \cup {NoToken}
<1>1. \A q \in Procs : reply'[q] \in {reply[q], NoGrant} /\ belief'[q] = belief[q]
  BY DEF AnswerWith, TypeOK
<1> QED  BY <1>1 DEF Known, NoGrant

\* A generation never becomes known outside its session, nor its key to two processes.
LEMMA SharedStep ==
  ASSUME TypeOK, Waits, Shared, KnownInSession, [Next]_vars
  PROVE  Shared' /\ KnownInSession'
<1>1. ASSUME NEW p \in Procs, Ask(p) \/ GiveUp(p) \/ Receive(p)
      PROVE  Shared' /\ KnownInSession'
  <2>1. lease' = lease
    BY <1>1 DEF Ask, AskAcquire, AskExtend, AskRelease, AskBreak, Send, GiveUp, Receive
  <2>2. CASE Ask(p) \/ GiveUp(p)
    <3>1. \A q \in Procs : belief'[q] \in {belief[q], NoGrant} /\ reply'[q] \in {reply[q], NoGrant}
      BY <2>2 DEF Ask, AskAcquire, AskExtend, AskRelease, AskBreak, Send, GiveUp, TypeOK
    <3>2. \A q \in Procs : Known(q)' \subseteq Known(q) \cup {NoToken}
      BY <3>1 DEF Known, NoGrant
    <3> QED  BY <2>1, <3>2, NothingLearnt
  <2>3. CASE Receive(p)
    <3>1. \A q \in Procs : belief'[q] \in {belief[q], reply[q]} /\ reply'[q] \in {reply[q], NoGrant}
      BY <2>3 DEF Receive, TypeOK
    <3>2. \A q \in Procs : Known(q)' \subseteq Known(q) \cup {NoToken}
      BY <3>1 DEF Known, NoGrant
    <3> QED  BY <2>1, <3>2, NothingLearnt
  <2> QED  BY <1>1, <2>2, <2>3
<1>2. ASSUME NEW p \in Procs, NEW r \in pending[p], AcquireLease(p, r)
      PROVE  Shared' /\ KnownInSession'
  <2>0. r \in Request
    BY DEF TypeOK
  <2>1. PICK t \in Tokens :
          /\ NewToken(t)
          /\ lease' = [token |-> t, session |-> SessionOf[p], left |-> TTL(r)]
          /\ AnswerWith(p, r, [token |-> t, left |-> TTL(r)])
    BY <1>2 DEF AcquireLease
  <2>2. [token |-> t, left |-> TTL(r)] \in Grant
    BY <2>0, Lengths DEF Grant
  <2>3. /\ \A q \in Procs \ {p} : Known(q)' = Known(q)
        /\ Known(p)' \subseteq Known(p) \cup {t}
    <3> DEFINE g == [token |-> t, left |-> TTL(r)]
    <3>1. g \in Grant /\ AnswerWith(p, r, g) /\ g.token = t
      BY <2>1, <2>2
    <3> HIDE DEF g
    <3>2. /\ belief' = belief
          /\ \A q \in Procs : reply'[q] = reply[q] \/ (q = p /\ r.live /\ reply'[q] = g)
      BY <3>1, AnswerReplies
    <3> QED  BY <3>1, <3>2 DEF Known
  <2>4. \A q \in Procs : t \notin Known(q)
    BY <2>1 DEF NewToken
  <2> QED  BY <2>1, <2>3, <2>4 DEF Shared, KnownInSession
<1>3. ASSUME NEW p \in Procs, NEW r \in pending[p], ExtendLease(p, r)
      PROVE  Shared' /\ KnownInSession'
  <2>0. r \in Request
    BY DEF TypeOK
  <2>1. [token |-> lease.token, left |-> Extended(r)] \in Grant
    BY <2>0, ExtendedType DEF Grant, TypeOK
  <2>2. /\ \A q \in Procs \ {p} : Known(q)' = Known(q)
        /\ Known(p)' \subseteq Known(p) \cup {lease.token}
        /\ ~r.live => Known(p)' = Known(p)
    <3>1. AnswerWith(p, r, [token |-> lease.token, left |-> Extended(r)])
      BY <1>3 DEF ExtendLease
    <3>2. /\ belief' = belief
          /\ \A q \in Procs : \/ reply'[q] = reply[q]
                              \/ q = p /\ r.live /\ reply'[q] = [token |-> lease.token, left |-> Extended(r)]
      BY <2>1, <3>1, AnswerReplies
    <3> QED  BY <3>2 DEF Known
  <2>3. lease'.token = lease.token /\ lease'.session = lease.session
    BY <1>3 DEF ExtendLease, TypeOK
  <2>4. CASE ~r.live \/ r.token # NoToken
    <3>1. r.live => r.token = belief[p].token
      BY <1>3, <2>4 DEF Waits, ExtendLease
    <3>2. r.live => lease.token \in Known(p)
      BY <1>3, <2>4, <3>1 DEF ExtendLease, IsHolder, Known
    <3> QED  BY <2>2, <2>3, <3>2, NothingLearnt
  <2>5. CASE r.token = NoToken
    <3>1. p \notin Keyed
      BY <1>3, <2>5 DEF Waits, ExtendLease
    <3>2. SessionOf[p] # NoSession /\ lease.session = SessionOf[p]
      BY <1>3, <2>5 DEF ExtendLease, IsHolder, SameSession
    <3> QED  BY <2>2, <2>3, <3>1, <3>2 DEF Shared, KnownInSession
  <2> QED  BY <2>4, <2>5
<1>4. ASSUME NEW p \in Procs, NEW r \in pending[p],
             ReleaseLease(p, r) \/ BreakLease(p, r) \/ Refuse(p, r)
      PROVE  Shared' /\ KnownInSession'
  <2>1. AnswerWith(p, r, NoGrant)
    BY <1>4 DEF ReleaseLease, BreakLease, Refuse
  <2>2. \A q \in Procs : Known(q)' \subseteq Known(q) \cup {NoToken}
    BY <2>1, AnswerNothing
  <2>3. Shared'
    BY <2>2 DEF Shared
  <2>4. lease' = lease \/ lease'.token = NoToken
    BY <1>4 DEF ReleaseLease, BreakLease, Refuse, Free
  <2> QED  BY <2>2, <2>3, <2>4 DEF KnownInSession
<1>5. CASE Tick
  <2>1. lease'.token = lease.token /\ lease'.session = lease.session
    BY <1>5 DEF Tick, TypeOK
  <2>2. \A q \in Procs : belief'[q].token = belief[q].token /\ reply'[q].token = reply[q].token
    BY <1>5 DEF Tick, TypeOK, Grant
  <2> QED  BY <2>1, <2>2, NothingLearnt DEF Known
<1>6. CASE UNCHANGED vars
  BY <1>6, NothingLearnt DEF vars, Known
<1> QED
  BY <1>1, <1>2, <1>3, <1>4, <1>5, <1>6 DEF Next, Handle

(***************************************************************************)
(* No step makes a process count on more than the row gives it.            *)
(***************************************************************************)
LEMMA SoundStep ==
  ASSUME TypeOK, Sound, [Next]_vars
  PROVE  Sound'
<1> DEFINE Good(g) == g.token \notin cut \cup {NoToken} /\ g.left > 0
                        => g.token = lease.token /\ g.left <= lease.left
<1>0. \A q \in Procs : Good(belief[q]) /\ Good(reply[q]) /\ belief[q] \in Grant /\ reply[q] \in Grant
  BY DEF Sound, TypeOK
<1>1. ASSUME NEW p \in Procs, Ask(p) \/ GiveUp(p) \/ Receive(p)
      PROVE  Sound'
  <2>1. lease' = lease /\ cut' = cut
    BY <1>1 DEF Ask, AskAcquire, AskExtend, AskRelease, AskBreak, Send, GiveUp, Receive
  <2>2. \A q \in Procs : /\ belief'[q] \in {belief[q], reply[q], NoGrant}
                         /\ reply'[q] \in {reply[q], NoGrant}
    BY <1>1 DEF Ask, AskAcquire, AskExtend, AskRelease, AskBreak, Send, GiveUp, Receive, TypeOK
  <2> QED  BY <1>0, <2>1, <2>2 DEF Sound, NoGrant
<1>2. ASSUME NEW p \in Procs, NEW r \in pending[p], AcquireLease(p, r)
      PROVE  Sound'
  <2>0. r \in Request
    BY DEF TypeOK
  <2>1. PICK t \in Tokens :
          /\ NewToken(t)
          /\ lease' = [token |-> t, session |-> SessionOf[p], left |-> TTL(r)]
          /\ cut' = cut \ {t}
          /\ AnswerWith(p, r, [token |-> t, left |-> TTL(r)])
    BY <1>2 DEF AcquireLease
  <2>2. [token |-> t, left |-> TTL(r)] \in Grant /\ TTL(r) \in Nat
    BY <2>0, Lengths DEF Grant
  <2>3. \A q \in Procs : /\ belief'[q] = belief[q]
                         /\ reply'[q] \in {reply[q], [token |-> t, left |-> TTL(r)]}
                         /\ belief[q].token # t /\ reply[q].token # t
    <3>1. \A q \in Procs : belief'[q] = belief[q] /\ reply'[q] \in {reply[q], [token |-> t, left |-> TTL(r)]}
      BY <2>1, <2>2, AnswerReplies
    <3> QED  BY <2>1, <3>1 DEF NewToken, Known
  <2>4. lease.token = NoToken \/ lease.left = 0
    BY <1>2 DEF AcquireLease, Held
  <2>5. \A q \in Procs : \A g \in {belief[q], reply[q]} : g.token \in cut' \cup {NoToken} \/ ~(g.left > 0)
    BY <1>0, <2>1, <2>3, <2>4 DEF Grant
  <2> QED  BY <2>1, <2>2, <2>3, <2>5 DEF Sound
<1>3. ASSUME NEW p \in Procs, NEW r \in pending[p], ExtendLease(p, r)
      PROVE  Sound'
  <2>0. r \in Request
    BY DEF TypeOK
  <2>1. [token |-> lease.token, left |-> Extended(r)] \in Grant /\ Extended(r) \in Nat
    BY <2>0, ExtendedType DEF Grant, TypeOK
  <2>2. \A q \in Procs : /\ belief'[q] = belief[q]
                         /\ reply'[q] \in {reply[q], [token |-> lease.token, left |-> Extended(r)]}
    <3>1. AnswerWith(p, r, [token |-> lease.token, left |-> Extended(r)])
      BY <1>3 DEF ExtendLease
    <3> QED  BY <2>1, <3>1, AnswerReplies
  <2>3. lease'.token = lease.token /\ lease'.left = Extended(r) /\ lease.left \in Nat
    BY <1>3 DEF ExtendLease, TypeOK
  <2>4. Meant(r) = lease.token \/ Extended(r) >= lease.left
    BY <1>3, <2>0 DEF ExtendLease, IsHolder, Meant
  <2>5. cut \subseteq cut' /\ (Extended(r) < lease.left => lease.token \in cut')
    BY <1>3, <2>1, <2>3, <2>4 DEF ExtendLease
  <2> QED  BY <1>0, <2>1, <2>2, <2>3, <2>5 DEF Sound, Grant
<1>4. ASSUME NEW p \in Procs, NEW r \in pending[p],
             ReleaseLease(p, r) \/ BreakLease(p, r) \/ Refuse(p, r)
      PROVE  Sound'
  <2>1. \A q \in Procs : belief'[q] = belief[q] /\ reply'[q] \in {reply[q], NoGrant}
    BY <1>4, Nothing, AnswerFacts DEF ReleaseLease, BreakLease, Refuse
  <2>2. \/ lease' = lease /\ cut' = cut
        \/ cut' = cut \cup {lease.token}
    BY <1>4 DEF ReleaseLease, BreakLease, Refuse, IsHolder, Meant
  <2> QED  BY <1>0, <2>1, <2>2 DEF Sound, NoGrant
<1>5. CASE Tick
  <2>1. \A n \in Nat : Down(n) \in Nat /\ Down(n) <= n /\ \A k \in Nat : n <= k => Down(n) <= Down(k)
    BY DEF Down
  <2>2. \A q \in Procs : /\ belief'[q].token = belief[q].token /\ belief'[q].left = Down(belief[q].left)
                         /\ reply'[q].token = reply[q].token /\ reply'[q].left = Down(reply[q].left)
    BY <1>5 DEF Tick, TypeOK, Grant
  <2>3. lease'.token = lease.token /\ lease'.left = Down(lease.left) /\ cut' = cut /\ lease.left \in Nat
    BY <1>5 DEF Tick, TypeOK
  <2>4. ASSUME NEW g \in Grant, NEW h, Good(g), h.token = g.token, h.left = Down(g.left)
        PROVE  h.token \notin cut' \cup {NoToken} /\ h.left > 0 => h.token = lease'.token /\ h.left <= lease'.left
    <3>1. g.left \in Nat
      BY DEF Grant
    <3> QED  BY <2>1, <2>3, <2>4, <3>1
  <2>5. ASSUME NEW q \in Procs
        PROVE  \A h \in {belief'[q], reply'[q]} :
                 h.token \notin cut' \cup {NoToken} /\ h.left > 0 => h.token = lease'.token /\ h.left <= lease'.left
    BY <1>0, <2>2, <2>4
  <2> QED  BY <2>5 DEF Sound
<1>6. CASE UNCHANGED vars
  BY <1>6 DEF vars, Sound
<1> QED
  BY <1>1, <1>2, <1>3, <1>4, <1>5, <1>6 DEF Next, Handle

\* The invariant holds in the beginning.
LEMMA Start ==
  ASSUME Init
  PROVE  IInv
<1>1. TypeOK
  BY Nothing DEF Init, TypeOK, Free
<1> QED  BY <1>1 DEF Init, IInv, Sound, Shared, KnownInSession, Waits, Free, NoGrant, Known

\* Every step preserves the invariant.
LEMMA Inductive ==
  ASSUME IInv, [Next]_vars
  PROVE  IInv'
BY TypeStep, WaitsStep, SharedStep, SoundStep DEF IInv

\* The invariant gives mutual exclusion.
LEMMA ExclusiveNow ==
  ASSUME IInv
  PROVE  Exclusive
<1> SUFFICES ASSUME NEW p \in Procs, NEW q \in Procs, p # q, Believes(p), Believes(q)
             PROVE  /\ belief[p].token = belief[q].token
                    /\ SessionOf[p] = SessionOf[q] /\ SessionOf[p] # NoSession
                    /\ ~ {p, q} \subseteq Keyed
  BY DEF Exclusive
<1>1. belief[p].token = lease.token /\ belief[q].token = lease.token /\ lease.token # NoToken
  BY DEF IInv, Sound, Believes
<1>2. lease.token \in (Known(p) \cap Known(q)) \ {NoToken}
  BY <1>1 DEF Known
<1> QED  BY <1>1, <1>2 DEF IInv, Shared

(***************************************************************************)
(* At no time do two processes both count on the lease, unless they share  *)
(* it within a session without keys.                                       *)
(***************************************************************************)
THEOREM LeaseExclusive == Spec => []Exclusive
<1>1. Spec => []IInv
  BY Start, Inductive, PTL DEF Spec
<1>2. IInv => Exclusive
  BY ExclusiveNow
<1> QED  BY <1>1, <1>2, PTL

(***************************************************************************)
(* The inductive invariant itself: what a process knows of a lease that    *)
(* nobody cut is what the row says, or less (Sound), whatever was lost,    *)
(* delayed or reordered.                                                   *)
(***************************************************************************)
THEOREM LeaseInvariant == Spec => []IInv
BY Start, Inductive, PTL DEF Spec
=============================================================================
