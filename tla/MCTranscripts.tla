--------------------------- MODULE MCTranscripts ---------------------------
EXTENDS Transcripts

CONSTANTS p1, p2, t1, t2

\* Two pushes of one session.
OneSession == [p \in Pushers |-> t1]
=============================================================================
