------------------------------- MODULE OracleLab -------------------------------
(***************************************************************************)
(* The tools of the lab that build the pinned Showdown and try it out,     *)
(* run one after the other on the same checkout and build manifest:        *)
(* tools/build_showdown_oracle.py and tools/smoke_lab_oracle.py.  A tool   *)
(* may crash at any step; between two runs an operator may remove the      *)
(* checkout or the manifest, and something else may change the checkout or *)
(* the host.  Nothing but the tools and the processes they start touches   *)
(* the checkout while a tool runs.                                         *)
(***************************************************************************)
EXTENDS LoopbackServer, OracleSession

CONSTANTS
    Partial,    \* what is on disk while a manifest is written
    Hosts,      \* pairs of a node (with its npm) and a platform
    FixtureSets,\* sequences of two fixtures
    ProcessRuns,\* what a run of the simulator process may come to
    MaxRuns,
    MaxMishaps  \* crashes, and changes from outside

ASSUME MishapsAssumption == MaxMishaps \in Nat
ASSUME RunsAssumption ==
    \A run \in ProcessRuns :
        LET said == {run.messages[i] : i \in DOMAIN run.messages}
        IN  /\ run.error \notin {"ok", "summary"}
            /\ run.messages \in Seq(said)
            /\ \A m \in said : m.kind \in {"update", "request", "side_error", "end"}

VARIABLES
    pc,       \* "idle"; build: "acquiring", "installing", "building", "writing";
              \* smoke: "server", "fixtures", "verified", "simulating"
    host,
    manifest, \* the build manifest on disk: None, Partial or a record
    job,      \* the arguments of the tool that runs
    results,  \* the results of the fixtures run so far
    launched, \* history: checkout and host at each start of the simulator
    outcome,  \* of the last tool: None, "pass", "summary", "raised" or a class
    runs, mishaps

labVars == <<pc, host, manifest, job, results, launched, outcome, runs, mishaps>>
vars == <<labVars, checkout, serverVars>>
counters == <<runs, mishaps>>

Init ==
    /\ ServerInit
    /\ checkout = Untouched
    /\ pc = "idle"
    /\ host \in Hosts
    /\ manifest = None
    /\ job = None
    /\ results = <<>> /\ launched = {}
    /\ outcome = None
    /\ runs = 0 /\ mishaps = 0

\* _load_manifests, as the smoke and --verify-only do it
Loaded == manifest \notin {None, Partial} /\ ManifestAccepted(manifest)

\* A tool starts; it ends by printing class.
Begin == pc = "idle" /\ ~Alive /\ runs < MaxRuns /\ runs' = runs + 1
Stop(class) == pc' = "idle" /\ outcome' = class /\ job' = None

-----------------------------------------------------------------------------
(***************************************************************************)
(* The build tool.                                                         *)
(***************************************************************************)
buildFrame == <<host, results, launched, mishaps, serverVars>>

\* --verify-only; a missing manifest is an unhandled OSError.
VerifyOnly ==
    /\ Begin
    /\ Stop(CASE manifest = None -> "raised"
              [] manifest # None /\ ~Loaded -> "build_failed"
              [] OTHER -> LET failure == VerifyBuild(checkout, host, manifest)
                          IN  IF failure = "ok" THEN "pass" ELSE failure)
    /\ results' = <<>> /\ launched' = {}
    /\ UNCHANGED <<host, mishaps, serverVars, checkout, manifest>>

\* _validate_cli_paths, then acquire_pinned_source up to the fetch.
BuildStarts ==
    /\ Begin
    /\ IF manifest # None THEN Stop("build_failed") /\ UNCHANGED checkout
       ELSE IF checkout # Untouched THEN Stop("source_dirty") /\ UNCHANGED checkout
       ELSE /\ pc' = "acquiring"
            /\ outcome' = None
            /\ \E role \in {"candidate", "comparison"} : job' = [role |-> role]
            /\ checkout' = [checkout EXCEPT !.git = "started"]
    /\ results' = <<>> /\ launched' = {}
    /\ UNCHANGED <<host, mishaps, serverVars, manifest>>

\* The fetch and the checkout, the checks of create_build_manifest up to npm ci,
\* and its first clear_verified_dist.
Acquire ==
    /\ pc = "acquiring"
    /\ \/ \E class \in CommandFailures("source_commit_mismatch") : Stop(class) /\ UNCHANGED checkout
       \/ \E git \in {"pinned", "rotten"} :
          LET fetched == [checkout EXCEPT !.git = git]
              failure == BuildPreconditions(fetched, host, job.role)
          IN  /\ checkout' = IF failure = "ok" THEN ClearDist(fetched) ELSE fetched
              /\ IF failure = "ok" THEN pc' = "installing" /\ UNCHANGED <<outcome, job>>
                 ELSE Stop(failure)
    /\ UNCHANGED <<buildFrame, manifest, runs>>

\* Mutant: dist is not cleared between npm ci and the build.
AfterCiUncleared(installed) == WithoutGeneratedConfig(installed)

\* What is left on disk once the result of npm ci is accepted.
AfterCi(installed) == ClearDist(WithoutGeneratedConfig(installed))

\* npm ci (external: its scripts may build and configure) and what follows it.
NpmCi ==
    /\ pc = "installing"
    /\ \/ \E class \in CommandFailures("build_failed") : Stop(class) /\ UNCHANGED checkout
       \/ \E modules \in {"lock", "other"}, config \in {"none", "example", "other"},
            dist \in {{}, {"ci"}}, stray \in BOOLEAN :
            LET installed == [checkout EXCEPT !.modules = modules, !.config = config, !.dist = dist,
                                              !.stray = stray]
                failure == AfterCiFailure(installed)
            IN  /\ checkout' = IF failure = "ok" THEN AfterCi(installed)
                               ELSE WithoutGeneratedConfig(installed)
                /\ IF failure = "ok" THEN pc' = "building" /\ UNCHANGED <<outcome, job>>
                   ELSE Stop(failure)
    /\ UNCHANGED <<buildFrame, manifest, runs>>

\* npm run build (external), the last checks, and the opening of the manifest.
NpmBuild ==
    /\ pc = "building"
    /\ \/ \E class \in CommandFailures("build_failed") : Stop(class) /\ UNCHANGED <<checkout, manifest>>
       \/ \E output \in {{}, {"build"}}, config \in {"example", "other"} :
            LET built == [checkout EXCEPT !.dist = @ \cup output, !.config = config]
                failure == SealFailure(built, host)
            IN  /\ checkout' = WithoutGeneratedConfig(built)
                /\ IF failure = "ok"
                   THEN /\ pc' = "writing" /\ manifest' = Partial
                        /\ job' = [role |-> job.role, document |-> ManifestOf(built, host, job.role)]
                        /\ UNCHANGED outcome
                   ELSE Stop(failure) /\ UNCHANGED manifest
    /\ UNCHANGED <<buildFrame, runs>>

\* _write_new_manifest
WriteManifest ==
    /\ pc = "writing"
    /\ manifest' = job.document
    /\ Stop("pass")
    /\ UNCHANGED <<buildFrame, checkout, runs>>

-----------------------------------------------------------------------------
(***************************************************************************)
(* The smoke tool.                                                         *)
(***************************************************************************)
smokeFrame == <<host, manifest, counters>>

\* _load_manifests, fixture_paths and the first verification of _run_smoke; a
\* fixture is parsed when its turn comes.
SmokeStarts ==
    /\ Begin
    /\ \E fixtures \in FixtureSets :
         LET failure == FirstFailure(<<<<Loaded, "tool_input_invalid">>,
                                       <<FixturePaths(fixtures), "tool_input_invalid">>,
                                       <<Loaded => VerifyBuild(checkout, host, manifest) = "ok",
                                         IF Loaded THEN VerifyBuild(checkout, host, manifest) ELSE "ok">>>>)
         IN  IF failure = "ok"
             THEN pc' = "server" /\ outcome' = None /\ job' = [fixtures |-> fixtures]
             ELSE Stop(failure)
    /\ results' = <<>> /\ launched' = {}
    /\ UNCHANGED <<host, manifest, mishaps, checkout, serverVars>>

\* A step of the server run, or of the server.
ServerStep == pc = "server" /\ Run /\ UNCHANGED labVars

\* The run of the server is over and forgotten; a server that it could not stop
\* goes on.
ForgetRun ==
    /\ phase' = "off"
    /\ server' = IF server = "running" THEN server ELSE "none"
    /\ watcher' = "none" /\ outDrain' = "none" /\ errDrain' = "none"
    /\ read' = {} /\ activity' = FALSE
    /\ pending' = None /\ leaving' = FALSE /\ result' = None
    /\ UNCHANGED kin

\* The second verification of _run_smoke follows a good run.
ServerReturns ==
    /\ pc = "server" /\ phase = "ended"
    /\ LET failure == IF result = "result" THEN VerifyBuild(checkout, host, manifest) ELSE result
       IN  IF failure = "ok" THEN pc' = "fixtures" /\ UNCHANGED <<outcome, job>>
           ELSE Stop(failure)
    /\ ForgetRun
    /\ UNCHANGED <<smokeFrame, results, launched, checkout>>

Candidate == manifest.role = "candidate"
RunsOf(fixtures) == IF Candidate THEN 2 * Len(fixtures) ELSE Len(fixtures)
Current == job.fixtures[IF Candidate THEN (Len(results) \div 2) + 1 ELSE Len(results) + 1]

\* Mutant: a session trusts the verification of the tool.
SessionVerificationTrusting == "ok"

\* verify_build_manifest in run_fixture; a comparison relies on the tool's.
SessionVerification == IF Candidate THEN VerifyBuild(checkout, host, manifest) ELSE "ok"

\* What is refused before the checkout is looked at: the configuration of the
\* session, a document that is no fixture, a fixture for another ruleset.
FixtureFailure ==
    FirstFailure(
      <<<<Candidate => ConfigAccepted(manifest), "tool_input_invalid">>,
        <<FixtureValid(Current), "tool_input_invalid">>,
        <<Current.ruleset = manifest.rulesetDigest,
          IF Candidate THEN "tool_input_invalid" ELSE "ruleset_rejected">>>>)

\* How _run_candidate_fixture_twice and _run_comparison_fixture judge the last
\* result: a candidate's only once there are two.
Judged(all) ==
    LET n == Len(all)
    IN  IF ~Candidate THEN all[n].failure
        ELSE IF n % 2 = 1 THEN "ok"
        ELSE FirstFailure(<<<<all[n - 1].failure = "ok", all[n - 1].failure>>,
                            <<all[n].failure = "ok", all[n].failure>>,
                            <<all[n - 1] = all[n], "protocol_desynchronization">>>>)

\* One more result: it ends the tool, or the next run or fixture follows.
AddResult(new) ==
    LET all == Append(results, new)
    IN  IF Judged(all) # "ok" THEN Stop(Judged(all)) /\ results' = <<>>
        ELSE /\ results' = all
             /\ IF Len(all) = RunsOf(job.fixtures) THEN Stop("summary")
                ELSE pc' = "fixtures" /\ UNCHANGED <<outcome, job>>

\* What the current fixture may come to, when the process is run or not.
ResultsOf(processRuns) ==
    {IF Candidate THEN ResultOf(Current, manifest, run) ELSE ComparisonOf(Current, manifest, run) :
        run \in processRuns}

\* What a session has to show for a process that it never started.
Unstarted(class) == [error |-> class, sideError |-> FALSE, barriers |-> FALSE, messages |-> <<>>]

\* run_fixture and _run_comparison_fixture up to the start of the simulator.  A
\* session whose verification fails returns a result like any other.
VerifySession ==
    /\ pc = "fixtures"
    /\ \E refused \in {FixtureFailure}, failure \in {SessionVerification} :
          IF refused # "ok" THEN Stop(refused) /\ UNCHANGED results
          ELSE IF failure = "ok" THEN pc' = "verified" /\ UNCHANGED <<results, outcome, job>>
          ELSE \E new \in ResultsOf({Unstarted(failure)}) : AddResult(new)
    /\ UNCHANGED <<smokeFrame, launched, checkout, serverVars>>

\* The simulator is started some time after the verification.
LaunchSimulator ==
    /\ pc = "verified" /\ pc' = "simulating"
    /\ launched' = launched \cup {[checkout |-> checkout, host |-> host]}
    /\ UNCHANGED <<smokeFrame, outcome, job, results, checkout, serverVars>>

\* The simulator may leave a file behind.
SimulatorReturns ==
    /\ pc = "simulating"
    /\ \E new \in ResultsOf(ProcessRuns) : AddResult(new)
    /\ \E stray \in {checkout.stray, TRUE} : checkout' = [checkout EXCEPT !.stray = stray]
    /\ UNCHANGED <<smokeFrame, launched, serverVars>>

-----------------------------------------------------------------------------
(***************************************************************************)
(* Crashes, the operator and the rest of the world.                        *)
(***************************************************************************)
Crash ==
    /\ pc # "idle" /\ mishaps < MaxMishaps
    /\ mishaps' = mishaps + 1
    /\ Stop(None)
    /\ results' = <<>> /\ launched' = {}
    /\ ForgetRun
    /\ UNCHANGED <<checkout, host, manifest, runs>>

\* The operator removes the checkout, with the processes that use it, or the manifest.
Clean ==
    /\ pc = "idle"
    /\ \/ /\ checkout' = Untouched
          /\ server' = "none" /\ kin' = FALSE
          /\ UNCHANGED <<phase, tasks, pending, leaving, result, manifest>>
       \/ manifest' = None /\ UNCHANGED <<checkout, serverVars>>
    /\ UNCHANGED <<pc, host, job, results, launched, outcome, counters>>

Altered(c) ==
    {[c EXCEPT !.git = "other"], [c EXCEPT !.git = "rotten"], [c EXCEPT !.modules = "altered"], [c EXCEPT !.dist = @ \cup {"edit"}],
     [c EXCEPT !.stray = TRUE]} \cup {[c EXCEPT !.tracked = t] : t \in {"dirty", "hidden", "staged"}}

\* A manifest with one field of it changed.
Edited(m) ==
    {[m EXCEPT !.role = IF @ = "candidate" THEN "comparison" ELSE "candidate"],
     [m EXCEPT !.node = "node18"], [m EXCEPT !.npm = "npm9"], [m EXCEPT !.platform = "windows"],
     [m EXCEPT !.platform = "unsupported"], [m EXCEPT !.source = "other"],
     [m EXCEPT !.modules = "altered"], [m EXCEPT !.dist = @ \cup {"edit"}],
     [m EXCEPT !.ruleset = {"other"}], [m EXCEPT !.rulesetDigest = {"other"}]}

Change ==
    /\ pc = "idle" /\ mishaps < MaxMishaps
    /\ mishaps' = mishaps + 1
    /\ \/ checkout' \in Altered(checkout) /\ checkout.git = "pinned" /\ UNCHANGED host
          /\ UNCHANGED manifest
       \/ host' \in Hosts \ {host} /\ UNCHANGED <<checkout, manifest>>
       \/ manifest \notin {None, Partial} /\ manifest' \in Edited(manifest) /\ UNCHANGED <<checkout, host>>
    /\ UNCHANGED <<pc, job, results, launched, outcome, runs, serverVars>>

-----------------------------------------------------------------------------
Build == BuildStarts \/ Acquire \/ NpmCi \/ NpmBuild \/ WriteManifest
Smoke == ServerReturns \/ VerifySession \/ LaunchSimulator \/ SimulatorReturns
World == Outside /\ UNCHANGED labVars
CancelSmoke == pc = "server" /\ Cancel /\ UNCHANGED labVars

Next ==
    \/ VerifyOnly \/ Build \/ SmokeStarts \/ Smoke \/ ServerStep
    \/ World \/ CancelSmoke
    \/ Crash \/ Clean \/ Change

(***************************************************************************)
(* Fairness: the tool goes on while it runs, every wait of the server run  *)
(* has a timeout, and the process runner ends.  Nothing is assumed of the  *)
(* server, the drains, npm and the operator.                               *)
(***************************************************************************)
Spec ==
    /\ Init /\ [][Next]_vars
    /\ WF_vars(Smoke)
    /\ WF_vars(ServerStep)
    /\ WF_vars(pc = "server" /\ ReadinessTimeout /\ UNCHANGED labVars)

-----------------------------------------------------------------------------
(***************************************************************************)
(* A manifest that is on disk and accepted describes one build: the output *)
(* of one run of the build on the dependencies of the lock file, by a node *)
(* and npm that are approved for its role, with nothing of what npm ci     *)
(* left, wherever the tool crashed before, whatever was on disk, and even  *)
(* if a field of it was changed since.                                     *)
(***************************************************************************)
ManifestDescribesTheBuild ==
    Loaded => /\ manifest.dist = {"build"} /\ manifest.ruleset = {"build"}
              /\ manifest.modules = "lock"
              /\ <<manifest.role, manifest.node, manifest.npm>> \in ApprovedVersions
              /\ manifest.platform # "unsupported"

(***************************************************************************)
(* A summary rests on runs of the very build that its manifest describes:  *)
(* each simulator was started on that build and node.  For a candidate,    *)
(* every simulator was started on a checkout without anything that an      *)
(* earlier server or simulator left, and both runs of a fixture gave the   *)
(* same evidence, in which every request of the transcript has its         *)
(* identity.                                                               *)
(***************************************************************************)
EvidenceIsSound ==
    outcome = "summary" =>
        LET m == results[1].manifest
        IN  /\ \A i \in DOMAIN results : results[i].manifest = m /\ results[i].failure = "ok"
            /\ \A l \in launched :
                  /\ l.checkout.git = "pinned" /\ l.checkout.tracked = "clean"
                  /\ l.checkout.dist = m.dist /\ l.checkout.modules = m.modules
                  /\ l.checkout.config = "none" /\ l.checkout.index = "none"
                  /\ l.host.node = m.node /\ l.host.npm = m.npm
            /\ m.role = "candidate" =>
                  /\ \A l \in launched : VerifyBuild(l.checkout, l.host, m) = "ok"
                  /\ results[1] = results[2] /\ results[3] = results[4]
                  /\ \A i \in DOMAIN results : ResultAccepted(results[i])

(***************************************************************************)
(* A smoke that has started ends: neither a server that stays silent, that *)
(* exits unnoticed or that does not stop, nor a descendant of it, keeps    *)
(* the tool waiting.                                                       *)
(***************************************************************************)
SmokeEnds == pc \in {"server", "fixtures", "verified", "simulating"} ~> pc = "idle"
=============================================================================
