----------------------------- MODULE OracleSession -----------------------------
(***************************************************************************)
(* A fixture and what a run of it in a simulator process becomes: the      *)
(* OracleResult of ShowdownOracleSession.run_fixture, and the reduced      *)
(* result of a comparison build.                                           *)
(*                                                                         *)
(* A fixture has an id, the ruleset it is for and tera, whether its first  *)
(* player terastallizes.  What the runner of the process hands back is a   *)
(* record with error ("none", "guard_missing" or a class), sideError,      *)
(* barriers (whether all barriers were met) and messages: a message has a  *)
(* kind, "update" (with the lines of it that matter), "request" (with its  *)
(* side and body), "side_error" or "end".                                  *)
(***************************************************************************)
EXTENDS Naturals, Sequences, CheckOrder

\* ShowdownOracleConfig: a session is for a candidate.
ConfigAccepted(manifest) ==
    /\ manifest.source = "pinned" /\ manifest.role = "candidate"
    /\ manifest.node = "node22" /\ manifest.npm = "npm10.9"

\* fixture_paths: exactly the two fixtures of the project.
FixturePaths(fixtures) == Len(fixtures) = 2

\* _parse_fixture and _parse_player
FixtureValid(document) == document.sides = {"p1", "p2"} /\ document.tera = (document.move = "terastallize")

\* _build_steps: what is written, and what has to come back before the next.
BuildSteps(fixture) ==
    <<[input |-> "start", barrier |-> {"p1", "p2"}], [input |-> "teams", barrier |-> {"p1", "p2"}],
      [input |-> fixture.move, barrier |-> {"p1", "p2"}], [input |-> "forcetie", barrier |-> {"end"}]>>

\* The messages of one kind, in their order.
OfKind(messages, kind) ==
    LET upTo[n \in 0..Len(messages)] ==
          IF n = 0 THEN <<>>
          ELSE IF messages[n].kind = kind THEN Append(upTo[n - 1], messages[n])
          ELSE upTo[n - 1]
    IN  upTo[Len(messages)]

\* _request_identities: the requests of a transcript, numbered from 0.
Identities(fixture, messages) ==
    LET requests == OfKind(messages, "request")
    IN  [i \in DOMAIN requests |->
            [fixture |-> fixture.id, sequence |-> i - 1, side |-> requests[i].side,
             request |-> requests[i].body]]

\* _transcript_document: what the evidence keeps of the messages.
TranscriptDocument(messages) ==
    [i \in DOMAIN messages |->
        IF messages[i].kind # "request" THEN messages[i]
        ELSE [kind |-> "side_request", side |-> messages[i].side, request |-> messages[i].body]]

Ended(run) == \E i \in DOMAIN run.messages : run.messages[i].kind = "end"
TeraSeen(run) ==
    \E i \in DOMAIN run.messages : run.messages[i].kind = "update" /\ "tera" \in run.messages[i].lines

\* The class of a run of the process: run_fixture ...
SessionFailure(fixture, run) ==
    FirstFailure(
      <<<<run.error # "guard_missing", "build_output_missing">>,
        <<run.error = "none", run.error>>,
        <<~run.sideError, "ruleset_rejected">>,
        <<run.barriers, "protocol_desynchronization">>,
        <<Ended(run), "protocol_desynchronization">>,
        <<fixture.tera => TeraSeen(run), "ruleset_rejected">>>>)

\* ... and _run_comparison_fixture, which a missing network guard leaves
\* unclassified.
ComparisonFailure(fixture, run) ==
    FirstFailure(
      <<<<run.error # "guard_missing", "raised">>,
        <<run.error = "none", run.error>>,
        <<~run.sideError /\ run.barriers /\ Ended(run), "protocol_desynchronization">>,
        <<fixture.tera => TeraSeen(run), "ruleset_rejected">>>>)

\* The OracleResult of a run: after an error of the process the transcript is
\* empty.  manifest stands for the digests of the source and of the build.
ResultOf(fixture, manifest, run) ==
    LET messages == IF run.error = "none" THEN run.messages ELSE <<>>
    IN  [fixture |-> fixture.id, failure |-> SessionFailure(fixture, run), manifest |-> manifest,
         input |-> BuildSteps(fixture), transcript |-> TranscriptDocument(messages),
         identities |-> Identities(fixture, messages)]

\* OracleResult.__post_init__: the requests of the transcript and the identities
\* correspond, one to one and in order.
ResultAccepted(result) ==
    LET requests == OfKind(result.transcript, "side_request")
    IN  /\ Len(result.identities) = Len(requests)
        /\ \A i \in DOMAIN requests :
              LET identity == result.identities[i]
              IN  /\ identity.sequence = i - 1 /\ identity.fixture = result.fixture
                  /\ identity.side = requests[i].side /\ identity.request = requests[i].request

\* The reduced evidence of a comparison build.
ComparisonOf(fixture, manifest, run) ==
    [fixture |-> fixture.id, failure |-> ComparisonFailure(fixture, run), manifest |-> manifest,
     input |-> BuildSteps(fixture), transcript |-> TranscriptDocument(run.messages)]
=============================================================================
