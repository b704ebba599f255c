----------------------------- MODULE LineChannel -----------------------------
(***************************************************************************)
(* What a connection promises its reader: while it is open, the lines that *)
(* are due are yielded in order, each of them once; lines may become due   *)
(* only behind the ones already due; closing ends it all.                  *)
(***************************************************************************)
EXTENDS Sequences, SequencesExt

CONSTANT Line

VARIABLES
    open,   \* the reader may read
    due,    \* lines that will be yielded
    yielded \* lines the reader has read since the channel was opened

vars == <<open, due, yielded>>

Init == open = FALSE /\ due = << >> /\ yielded = << >>

\* The channel opens; lines may have arrived before.
Open ==
    /\ ~open
    /\ open' = TRUE
    /\ due' \in Seq(Line)
    /\ UNCHANGED yielded

Arrive ==
    /\ open
    /\ due' \in Seq(Line)
    /\ IsPrefix(due, due')
    /\ UNCHANGED <<open, yielded>>

Yield ==
    /\ open
    /\ due # << >>
    /\ yielded' = Append(yielded, Head(due))
    /\ due' = Tail(due)
    /\ UNCHANGED open

Close ==
    /\ open
    /\ open' = FALSE
    /\ due' = << >>
    /\ yielded' = << >>

Next == Open \/ Arrive \/ Yield \/ Close

Spec == Init /\ [][Next]_vars
=============================================================================
