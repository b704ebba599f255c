-------------------------- MODULE DecisionExchange ---------------------------
(***************************************************************************)
(* What a battle session promises the server: it answers only the newest   *)
(* request announced to it, each at most once, and nothing once it has     *)
(* stopped.  Request ids are numbers that grow with every announcement.    *)
(***************************************************************************)
EXTENDS Naturals, Sequences

CONSTANT None

VARIABLES newest,   \* the id announced last, or None
          open,     \* the id that may still be answered, or None
          answered, \* the ids answered so far, in order
          stopped

vars == <<newest, open, answered, stopped>>

Init ==
    /\ newest = None
    /\ open = None
    /\ answered = << >>
    /\ stopped = FALSE

\* A step may end the exchange; then nothing stays open.
MayStop == stopped' \in BOOLEAN /\ (stopped' => open' = None)

\* A newer request replaces the open one; it stays open or is closed at once.
Announce ==
    /\ ~stopped
    /\ newest' \in Nat
    /\ newest = None \/ newest' > newest
    /\ open' \in {newest', None}
    /\ MayStop
    /\ UNCHANGED answered

Answer ==
    /\ ~stopped
    /\ open # None
    /\ answered' = Append(answered, open)
    /\ open' = None
    /\ MayStop
    /\ UNCHANGED newest

Withdraw ==
    /\ ~stopped
    /\ open' = None
    /\ MayStop
    /\ UNCHANGED <<newest, answered>>

Next == Announce \/ Answer \/ Withdraw

Spec == Init /\ [][Next]_vars
=============================================================================
