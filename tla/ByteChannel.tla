----------------------------- MODULE ByteChannel ----------------------------
(***************************************************************************)
(* What the user of a hole_punch::Stream relies on, in one direction: the  *)
(* reader gets what was written, in that order, without a gap and without  *)
(* anything else in between, and the end of the stream only after all of   *)
(* it. A connection that is lost on the way may cut the stream off; what   *)
(* was read is a part of what was written all the same.                    *)
(***************************************************************************)
EXTENDS Naturals, Sequences

CONSTANT Data

VARIABLES
    sent,       \* what was written to the current stream
    received,   \* what was read from it
    intact,     \* no connection was lost on the way
    eof         \* the reader has seen the end of the stream

cvars == <<sent, received, intact, eof>>

Init == sent = <<>> /\ received = <<>> /\ intact = TRUE /\ eof = FALSE

\* Another stream is opened.
Open ==
    /\ sent' = <<>>
    /\ received' = <<>>
    /\ intact' = TRUE
    /\ eof' = FALSE

Write ==
    /\ \E d \in Data : sent' = Append(sent, d)
    /\ UNCHANGED <<received, intact, eof>>

Read ==
    /\ ~eof
    /\ \E n \in (Len(received) + 1)..Len(sent) : received' = SubSeq(sent, 1, n)
    /\ UNCHANGED <<sent, intact, eof>>

Eof ==
    /\ intact => received = sent
    /\ eof' = TRUE
    /\ UNCHANGED <<sent, received, intact>>

Break ==
    /\ intact' = FALSE
    /\ UNCHANGED <<sent, received, eof>>

Next == Open \/ Write \/ Read \/ Eof \/ Break

Spec == Init /\ [][Next]_cvars
=============================================================================
