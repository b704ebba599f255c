--------------------------- MODULE RequestDecision ---------------------------
(***************************************************************************)
(* One request through the pure part of a decision: read_request, the      *)
(* heuristic policy and the encoder, for every payload of a bounded set.   *)
(* It checks that the three agree with each other and with the             *)
(* reconciler's rules, which the session takes for granted.                *)
(***************************************************************************)
EXTENDS RequestReconciler

CONSTANT Payloads \* the payloads the server may send
ASSUME RequestsAssumption == Payloads \subseteq Payload

VARIABLES payload, \* the payload received
          outcome, \* None, an error code, "wait" or "chosen"
          command  \* the command, once chosen

vars == <<payload, outcome, command>>

Init == payload \in Payloads /\ outcome = None /\ command = None

Readable == ReadError(payload) = None

Refuse ==
    /\ outcome = None
    /\ ~Readable
    /\ outcome' = ReadError(payload)
    /\ UNCHANGED <<payload, command>>

Wait ==
    /\ outcome = None
    /\ Readable
    /\ RequestKind(payload) = "wait"
    /\ outcome' = "wait"
    /\ UNCHANGED <<payload, command>>

Choose ==
    /\ outcome = None
    /\ Readable
    /\ RequestKind(payload) # "wait"
    /\ outcome' = "chosen"
    /\ command' = Command(payload, HeuristicChoice(payload))
    /\ UNCHANGED payload

Next == Refuse \/ Wait \/ Choose

Spec == Init /\ [][Next]_vars

(***************************************************************************)
(* Every request the reader accepts satisfies the reconciler's rules about *)
(* its submissions: the session never gives up a battle because its own    *)
(* reader offered a kind of action the reconciler does not allow, left out *)
(* the default, or offered an incomplete team order.                       *)
(***************************************************************************)
ReaderFitsReconciler == Readable => SafeSetFits(payload)

(***************************************************************************)
(* The command text tells the submissions of a request apart, although a   *)
(* revival is written like a switch: the server cannot execute another     *)
(* choice than the one that was authorized and recorded.                   *)
(***************************************************************************)
CommandTellsSubmissionsApart ==
    Readable =>
        \A s, t \in SafeSubmissions(payload) :
            s # t => Command(payload, s) # Command(payload, t)

(***************************************************************************)
(* What the session sends for a request the reader accepts is one of the   *)
(* choices that request offers, and no other choice reads the same to the  *)
(* server.                                                                 *)
(***************************************************************************)
ReaderAndEncoderAgree == ReaderFitsReconciler /\ CommandTellsSubmissionsApart
=============================================================================
