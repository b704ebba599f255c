---------------------------- MODULE RequestReader ----------------------------
(***************************************************************************)
(* read_request: from the JSON payload of a |request| line to the kind of  *)
(* decision and the set of submissions that are safe to send.              *)
(*                                                                         *)
(* A payload is a record                                                   *)
(*   rqid        a number, or None when missing or not a natural number    *)
(*   wait, teamPreview, forceSwitch   flags                                *)
(*   maxChosen   maxChosenTeamSize (the team's size when absent)           *)
(*   side, team  the side id and its pokemon: nick, active, fainted,       *)
(*               reviving                                                  *)
(*   moves       the active pokemon's moves: disabled, legalId; << >> when *)
(*               the payload has no usable "active" entry                  *)
(*   tera, trapped, unsure   canTerastallize is set; trapped or            *)
(*               maybeTrapped; maybeDisabled or maybeLocked                *)
(* The request digest is a hash of the payload, so equal digests are equal *)
(* payloads.                                                               *)
(***************************************************************************)
EXTENDS ObservedState, Sequences, FiniteSets

ActionKinds == {"move", "switch", "revive", "team", "default"}
Payload ==
    [rqid : Nat \cup {None}, wait : BOOLEAN, teamPreview : BOOLEAN, forceSwitch : BOOLEAN,
     maxChosen : Nat, side : Sides,
     team : Seq([nick : Nicknames, active : BOOLEAN, fainted : BOOLEAN, reviving : BOOLEAN]),
     moves : Seq([disabled : BOOLEAN, legalId : BOOLEAN]),
     tera : BOOLEAN, trapped : BOOLEAN, unsure : BOOLEAN]

Submissions == [kind : ActionKinds, args : Seq(Nat), tera : BOOLEAN]

\* BattleSubmission: args is the slot, or the team order, or empty.
Submission(kind, args, tera) == [kind |-> kind, args |-> args, tera |-> tera]
Default == Submission("default", << >>, FALSE)

\* Only a default submission carries the provenance SERVER_DEFAULT.
Provenance(sub) ==
    IF sub.kind = "default" THEN "server_default" ELSE "explicit_request"

Slots(p) == 1..Len(p.team)
ActiveSlots(p) == {i \in Slots(p) : p.team[i].active}
Fainted(p) == {i \in Slots(p) : ~p.team[i].active /\ p.team[i].fainted}
Healthy(p) == {i \in Slots(p) : ~p.team[i].active /\ ~p.team[i].fainted}

\* The detection order is binding: wait, team preview, revival, forced switch.
RequestKind(p) ==
    IF p.wait THEN "wait"
    ELSE IF p.teamPreview THEN "team_preview"
    ELSE IF \E i \in ActiveSlots(p) : p.team[i].reviving THEN "revival"
    ELSE IF p.forceSwitch THEN "forced_switch"
    ELSE "move"

\* The nickname of the active pokemon; wait and team preview carry none.
ActiveIdentity(p) ==
    IF RequestKind(p) \in {"wait", "team_preview"} \/ ActiveSlots(p) = {}
    THEN None
    ELSE p.team[CHOOSE i \in ActiveSlots(p) : TRUE].nick

TeamOrders(n) ==
    {order \in [1..n -> 1..n] : \A i, j \in 1..n : i # j => order[i] # order[j]}

ToSlots(kind, slots, tera) == {Submission(kind, <<i>>, tera) : i \in slots}

EnabledMoves(p) == {i \in 1..Len(p.moves) : ~p.moves[i].disabled}

MoveSubmissions(p) ==
    ToSlots("move", EnabledMoves(p), FALSE)
      \cup (IF p.tera THEN ToSlots("move", EnabledMoves(p), TRUE) ELSE {})

\* The SafeSubmissionSet of the request.
SafeSubmissions(p) ==
    CASE RequestKind(p) = "wait"          -> {}
      [] RequestKind(p) = "team_preview"  ->
            {Submission("team", o, FALSE) : o \in TeamOrders(Len(p.team))} \cup {Default}
      [] RequestKind(p) = "revival"       -> ToSlots("revive", Fainted(p), FALSE) \cup {Default}
      [] RequestKind(p) = "forced_switch" -> ToSlots("switch", Healthy(p), FALSE) \cup {Default}
      [] RequestKind(p) = "move" /\ p.unsure -> {Default}
      [] RequestKind(p) = "move" /\ ~p.unsure ->
            MoveSubmissions(p)
              \cup (IF p.trapped THEN {} ELSE ToSlots("switch", Healthy(p), FALSE))
              \cup {Default}

\* The first entry of a sequence of verdicts that is not ok, or ok.
FirstOther(verdicts, ok) ==
    LET others == {i \in DOMAIN verdicts : verdicts[i] # ok}
    IN  IF others = {} THEN ok
        ELSE verdicts[CHOOSE i \in others : \A j \in others : i <= j]

(***************************************************************************)
(* What read_request raises, or None.  "unclassified" is the ValueError of *)
(* BattleSubmission for an enabled move whose id is not a Showdown         *)
(* identifier: it carries no code.                                         *)
(***************************************************************************)
ReadError(p) ==
    LET Raise(code, cond) == IF cond THEN code ELSE None
        kind == RequestKind(p)
    IN  FirstOther(
          <<Raise("request_state_reconciliation_mismatch", p.rqid = None),
            Raise("malformed_protocol_message",
                  Len(p.team) \notin 1..6 \/ Cardinality(ActiveSlots(p)) > 1),
            Raise("malformed_protocol_message",
                  kind = "team_preview" /\ p.maxChosen < 1),
            Raise("request_state_reconciliation_mismatch",
                  kind = "team_preview" /\ p.maxChosen # Len(p.team)),
            Raise("malformed_protocol_message",
                  kind = "move" /\ Len(p.moves) \notin 1..4),
            Raise("unclassified",
                  /\ kind = "move" /\ ~p.unsure
                  /\ \E i \in EnabledMoves(p) : ~p.moves[i].legalId)>>,
          None)
=============================================================================
