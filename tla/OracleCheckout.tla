---------------------------- MODULE OracleCheckout ----------------------------
(***************************************************************************)
(* The checkout of the pinned Pokemon Showdown on disk, and the functions  *)
(* of installation.py that verify and change it.  A check stops at the     *)
(* first thing that differs, with that check's failure class; a function   *)
(* that removes files gives the checkout it leaves behind.                 *)
(*                                                                         *)
(* A checkout is a record:                                                 *)
(*   git      "none" (nothing there), "started" (no commit checked out     *)
(*            yet), "pinned", "rotten" (pinned, but some object of it is   *)
(*            not what its name says) or "other" (commit, tree or remote   *)
(*            differ)                                                      *)
(*   tracked  "clean", "dirty", "hidden" (index flags hide changes) or     *)
(*            "staged" (other files than the manifest's are tracked)       *)
(*   modules  node_modules: "none", "lock" (what the lock file says),      *)
(*            "altered" (the same packages with other bytes) or "other"    *)
(*   dist     who wrote the files below dist                               *)
(*   config   config/config.js: "none", "example" (the copy of the example *)
(*            that the build makes), "controlled" (the loopback server's)  *)
(*            or "other"                                                   *)
(*   index    the log index of a server: "none", "regular" or "odd"        *)
(*   stray    some other untracked or ignored file exists                  *)
(***************************************************************************)
EXTENDS Naturals, Sequences, FiniteSets, CheckOrder

Untouched ==
    [git |-> "none", tracked |-> "clean", modules |-> "none", dist |-> {}, config |-> "none",
     index |-> "none", stray |-> FALSE]

\* What git status reports besides tracked files.
GeneratedPaths(c) ==
    {p \in {"node_modules", "dist", "config", "index", "stray"} :
        CASE p = "node_modules" -> c.modules # "none"
          [] p = "dist"   -> c.dist # {}
          [] p = "config" -> c.config # "none"
          [] p = "index"  -> c.index # "none"
          [] p = "stray"  -> c.stray}

\* _GENERATED_PATH_ALLOWLIST
AllowedPaths(phase) == IF phase = "acquisition" THEN {} ELSE {"node_modules", "dist"}

\* _verify_index_flags
IndexFlags(c) == c.tracked # "hidden"

\* verify_historical_blob_records, which a build skips once npm has run: nothing
\* but the files of the commit counts, whatever the working tree holds.
HistoricalBlobs(c, phase) == phase \in {"post_npm", "post_build"} \/ c.git # "rotten"

\* verify_source_checkout: a git command that fails is a commit mismatch, except
\* for the refresh of the index.
VerifySource(c, phase) ==
    FirstFailure(
      <<<<c.git # "none", "source_missing">>,
        <<c.git \in {"pinned", "rotten"}, "source_commit_mismatch">>,
        <<c.tracked # "dirty", "source_dirty">>,
        <<IndexFlags(c), "source_dirty">>,
        <<c.tracked # "staged", "source_commit_mismatch">>,
        <<HistoricalBlobs(c, phase), "source_commit_mismatch">>,
        <<GeneratedPaths(c) \subseteq AllowedPaths(phase), "source_dirty">>>>)

\* _verify_installed_dependency_tree for the tree of the lock file
InstalledTree(c) == c.modules \in {"lock", "altered"}

\* The records of collect_dependency_file_records and collect_dist_records: the
\* contents, and nothing where the directory is missing or empty.
DependencyRecords(c) == c.modules
DistRecords(c) == c.dist

\* extract_ruleset_snapshot needs the built Dex; what it finds follows from dist.
Ruleset(c) == c.dist

\* _verify_and_remove_generated_config: only the exact copy of the example goes.
GeneratedConfigFailure(c) == IF c.config \in {"none", "example"} THEN "ok" ELSE "source_dirty"
WithoutGeneratedConfig(c) == [c EXCEPT !.config = IF @ = "example" THEN "none" ELSE @]

\* clear_verified_dist
ClearDist(c) == [c EXCEPT !.dist = {}]

-----------------------------------------------------------------------------
(***************************************************************************)
(* A host has the versions of node and npm, "unreadable" if one does not   *)
(* print a version, and a platform.  A manifest has the role of the build, *)
(* the versions and the platform it was made with, the source manifest it  *)
(* is for, and the records of what was built, each with its digest; the    *)
(* digest of records is the records.                                       *)
(***************************************************************************)
ApprovedVersions ==
    {<<"candidate", "node22", "npm10.9">>, <<"comparison", "node18", "npm10.8">>,
     <<"comparison", "node20", "npm10.8">>}
SupportedPlatforms == {"linux", "windows"}

\* _run_subprocess and _require_success: why a command that should have ended
\* with code 0, else class, did not help.
CommandFailures(class) == {class, "node_not_found", "build_failed"}

\* _version, of node and of npm, and what it is compared with.
VersionFailure(host, node, npm) ==
    FirstFailure(
      <<<<host.node # "unreadable" /\ host.node \in node, "node_version_not_approved">>,
        <<host.npm # "unreadable" /\ host.npm \in npm, "npm_version_mismatch">>>>)

\* _platform_identity
PlatformFailure(host, platforms) ==
    IF host.platform \in platforms \cap SupportedPlatforms THEN "ok" ELSE "build_failed"

\* What create_build_manifest checks before it runs npm.
BuildPreconditions(c, host, role) ==
    FirstFailure(
      <<<<VerifySource(c, "acquisition") = "ok", VerifySource(c, "acquisition")>>,
        <<VersionFailure(host, {host.node}, {host.npm}) = "ok",
          VersionFailure(host, {host.node}, {host.npm})>>,
        <<<<role, host.node, host.npm>> \in ApprovedVersions, "node_version_not_approved">>>>)

\* After npm ci: the generated config is removed, then this is checked.
AfterCiFailure(c) ==
    FirstFailure(
      <<<<GeneratedConfigFailure(c) = "ok", GeneratedConfigFailure(c)>>,
        <<VerifySource(WithoutGeneratedConfig(c), "post_npm") = "ok",
          VerifySource(WithoutGeneratedConfig(c), "post_npm")>>,
        <<InstalledTree(c), "lockfile_mismatch">>>>)

\* After npm run build: the same, then the records are collected.
SealFailure(c, host) ==
    FirstFailure(
      <<<<GeneratedConfigFailure(c) = "ok", GeneratedConfigFailure(c)>>,
        <<VerifySource(WithoutGeneratedConfig(c), "post_build") = "ok",
          VerifySource(WithoutGeneratedConfig(c), "post_build")>>,
        <<DependencyRecords(c) # "none" /\ DistRecords(c) # {}, "build_output_missing">>,
        <<PlatformFailure(host, SupportedPlatforms) = "ok", "build_failed">>>>)

ManifestOf(c, host, role) ==
    [role |-> role, node |-> host.node, npm |-> host.npm, platform |-> host.platform,
     source |-> "pinned",
     modules |-> DependencyRecords(c), modulesDigest |-> DependencyRecords(c),
     dist |-> DistRecords(c), distDigest |-> DistRecords(c),
     ruleset |-> Ruleset(c), rulesetDigest |-> Ruleset(c)]

\* _normalize_dependency_files and _normalize_records with their digests.
DependencyFilesAccepted(m) == m.modules # "none" /\ m.modulesDigest = m.modules
DistFilesAccepted(m) == m.dist # {} /\ m.distDigest = m.dist

\* ShowdownBuildManifest.from_dict and __post_init__
ManifestAccepted(m) ==
    /\ <<m.role, m.node, m.npm>> \in ApprovedVersions
    /\ m.platform \in SupportedPlatforms
    /\ DependencyFilesAccepted(m)
    /\ DistFilesAccepted(m)
    /\ m.rulesetDigest = m.ruleset

\* verify_build_manifest, which runs neither npm nor a build.
VerifyBuild(c, host, m) ==
    FirstFailure(
      <<<<m.source = "pinned", "source_commit_mismatch">>,
        <<VerifySource(c, "verify") = "ok", VerifySource(c, "verify")>>,
        <<VersionFailure(host, {m.node}, {m.npm}) = "ok", VersionFailure(host, {m.node}, {m.npm})>>,
        <<PlatformFailure(host, {m.platform}) = "ok", "build_failed">>,
        <<InstalledTree(c), "lockfile_mismatch">>,
        <<DependencyRecords(c) = m.modules, "build_output_missing">>,
        <<DistRecords(c) = m.dist /\ c.dist # {}, "build_output_missing">>,
        <<Ruleset(c) = m.ruleset, "build_output_missing">>>>)
=============================================================================
