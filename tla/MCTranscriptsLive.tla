------------------------- MODULE MCTranscriptsLive -------------------------
(***************************************************************************)
(* What the agent wrote reaches the server in the end, after at most       *)
(* MaxFaults disturbances or beside the push of another process.           *)
(***************************************************************************)
EXTENDS MCTranscripts

CONSTANT MaxFaults

VARIABLE faults   \* the disturbances so far; MaxFaults once another process has pushed

\* The hook of the session's own agent is p1; another process may push the same session at the same time.
OthersIdle == \A p \in Pushers \ {p1} : pusher[p].pc = "idle" => pusher'[p] = pusher[p]

LiveInit == Init /\ faults = 0
LiveNext == \/ Work /\ OthersIdle /\ UNCHANGED faults
            \/ faults < MaxFaults /\ Disturbance /\ faults' = faults + 1
            \/ faults = 0 /\ faults' = MaxFaults /\ \E p \in Pushers \ {p1} : Start(p)

(***************************************************************************)
(* The hooks start pushes again and again; a push that runs goes on, the   *)
(* server answers what it got, and its transactions end.  Nothing makes a  *)
(* user or the retention job purge, or an agent write.                     *)
(***************************************************************************)
Still(A) == A /\ UNCHANGED faults
lvars == <<vars, faults>>

GoesOn(p) == \/ pusher[p].pc # "idle" /\ Push(p)
             \/ Waiting(p) /\ HandleAppend(p, NextChunk(p))

Fairness ==
  /\ WF_lvars(Still(Start(p1)))
  /\ \A p \in Pushers : WF_lvars(Still(GoesOn(p)))
  /\ WF_lvars(Still(\/ \E x \in appending : EndAppend(x)
                    \/ \E q \in purging : InsertTranscriptPurge(q)))

LiveSpec == LiveInit /\ [][LiveNext]_lvars /\ Fairness

Unsent(t) == {f \in Files : FileLength(t, f) < source[t][f]}

\* The sizes of chunk that halving goes through, and those of them that are sent of n lines and not too large.
Cuts    == {c \in 1 .. FirstCut : \E i \in 0 .. FirstCut : c = FirstCut \div 2^i}
Fits(n) == {Smaller(c, n) : c \in Cuts} \cap 1 .. MaxChunk

\* What a push sends next does not go into what the limit of the user leaves.  A push begins with its largest
\* chunk, and makes it smaller when the chunk is too large, not when the limit refuses it.
NoRoom(t) ==
  \E f \in Unsent(t) :
    /\ \A g \in Unsent(t) : f <= g
    /\ UserBytes + Greatest(Fits(source[t][f] - FileLength(t, f))) > MaxUser

(***************************************************************************)
(* Whatever was lost, refused, sent twice or purged on the way: the server *)
(* ends up with every line of every file, or the chunk that a new push     *)
(* would send first does not fit under the limit of the user, and that     *)
(* stays so.  A push's largest chunk comes down to what the server         *)
(* accepts, and resynchronising in sendPlans and the next push after a     *)
(* failed one leave nothing behind.  It is not promised that all the room  *)
(* is used: the client does not halve a chunk that transcript_quota        *)
(* refuses, and offers it again as it is.                                  *)
(***************************************************************************)
EverythingArrives == <>[](\A t \in Transcripts : Unsent(t) = {} \/ NoRoom(t))
=============================================================================
