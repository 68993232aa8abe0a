---------------------------- MODULE TranscriptLog ----------------------------
(***************************************************************************)
(* What the owner of a session is promised: a pull gets, of each file, the *)
(* first lines as the agent wrote them, as many as have been stored, until *)
(* a purge takes the whole session back.  Transcripts implements this with *)
(* chunks, numbers, offsets and retries.                                   *)
(***************************************************************************)
EXTENDS Naturals

CONSTANTS Transcripts, Files

VARIABLES source,  \* how many lines the agent has written to each file
          pulled   \* the lines of each file that a pull gets

vars == <<source, pulled>>

TypeOK == /\ source \in [Transcripts -> [Files -> Nat]]
          /\ pulled \in [Transcripts -> [Files -> SUBSET Nat]]

Init ==
  /\ source = [t \in Transcripts |-> [f \in Files |-> 0]]
  /\ pulled = [t \in Transcripts |-> [f \in Files |-> {}]]

Grow(t, f) == source' = [source EXCEPT ![t][f] = @ + 1] /\ UNCHANGED pulled

\* The next lines of one file.
Store(t, f) ==
  \E m, n \in 0 .. source[t][f] :
    /\ m < n /\ pulled[t][f] = 1 .. m
    /\ pulled' = [pulled EXCEPT ![t][f] = 1 .. n]
    /\ UNCHANGED source

Purge(t) == pulled' = [pulled EXCEPT ![t] = [f \in Files |-> {}]] /\ UNCHANGED source

Next == \E t \in Transcripts : Purge(t) \/ \E f \in Files : Grow(t, f) \/ Store(t, f)

Spec == Init /\ [][Next]_vars

\* What is pulled of a file is a beginning of it.
Beginning ==
  \A t \in Transcripts, f \in Files : \E n \in 0 .. source[t][f] : pulled[t][f] = 1 .. n
=============================================================================
