---------------------------- MODULE EngineArtifact ----------------------------
(***************************************************************************)
(* The checks between an installed poke-engine wheel and its first use:    *)
(* verify_installed_artifact, the sentinel probe and the initialization of *)
(* the transition model.  Each is a chain of checks that stops at the      *)
(* first one that fails, with that check's failure class.                  *)
(*                                                                         *)
(* A content (a file's bytes, or the digest and size that stand for them)  *)
(* is a value; the RECORD file lists itself without one ("self").          *)
(*   index, source, build   the data files: "canonical", "altered" (other  *)
(*              bytes or other facts than the pinned ones) or "missing"    *)
(*   env        "cell" (one of the six) or "unsupported"                   *)
(*   status     availability_status of the cell                            *)
(*   staged     a wheel given for staging: "none", "exact", "altered",     *)
(*              "unreadable"                                               *)
(*   version    the installed distribution: "expected", "other", "none"    *)
(*   wheel, record, disk   path -> content: the wheel's entries in the     *)
(*              build manifest, the installed RECORD, the files on disk    *)
(*   url, hash  direct_url.json: where from, and the hash it declares      *)
(*   origin     whether "poke_engine" resolves into this installation      *)
(***************************************************************************)
EXTENDS Naturals, Sequences, FiniteSets, CheckOrder

Added == {"INSTALLER", "REQUESTED", "direct_url", "uv_cache"}

\* _load_canonical, and the comparison of the document with the pinned facts.
Loaded(document, rest) ==
    CASE document = "missing" -> "artifact_unavailable"
      [] document = "altered" -> "artifact_mismatch"
      [] document = "canonical" -> rest

\* current_environment and _cell
CellFailure(i) == IF i.env = "cell" THEN "ok" ELSE "unsupported_environment"

\* _verify_manifest_closure_v2: only a staging run may use a candidate.
ManifestClosure(i) ==
    Loaded(i.source,
           Loaded(i.build,
                  IF i.status = "available" \/ (i.staged # "none" /\ i.status = "candidate")
                  THEN "ok" ELSE "artifact_mismatch"))

\* The wheel a staging run was given must be the wheel of the cell.
StagedWheel(i) ==
    CASE i.staged \in {"none", "exact"} -> "ok"
      [] i.staged = "altered"    -> "artifact_mismatch"
      [] i.staged = "unreadable" -> "artifact_unavailable"

\* Every installed file has the content RECORD gives it, and the wheel's.
FilesAgree(i) ==
    \A p \in DOMAIN i.record :
        /\ p \in DOMAIN i.disk
        /\ p # "RECORD" =>
              /\ i.record[p] = i.disk[p]
              /\ p \in DOMAIN i.wheel => i.wheel[p] = i.record[p]

\* _verify_direct_url
DirectUrl(i) ==
    /\ "direct_url" \in DOMAIN i.disk
    /\ i.hash # "other"
    /\ i.staged = "none" => i.hash = "match"
    /\ i.url = (IF i.staged = "none" THEN "release" ELSE "staged")

\* Mutant: the directories are not compared with RECORD.
InstallationUnlisted(i) ==
    /\ i.version = "expected"
    /\ "RECORD" \in DOMAIN i.disk
    /\ DOMAIN i.wheel \subseteq DOMAIN i.record
    /\ DOMAIN i.record \subseteq DOMAIN i.wheel \cup Added
    /\ FilesAgree(i)
    /\ DirectUrl(i)
    /\ i.origin = "package"

\* _verify_installation
Installation(i) ==
    /\ i.version = "expected"
    /\ "RECORD" \in DOMAIN i.disk
    /\ DOMAIN i.wheel \subseteq DOMAIN i.record
    /\ DOMAIN i.record \subseteq DOMAIN i.wheel \cup Added
    /\ FilesAgree(i)
    /\ DOMAIN i.disk = DOMAIN i.record
    /\ DirectUrl(i)
    /\ i.origin = "package"

VerifyInstalledArtifact(i) ==
    Loaded(i.index,
           FirstFailure(
             <<<<CellFailure(i) = "ok", CellFailure(i)>>,
               <<ManifestClosure(i) = "ok", ManifestClosure(i)>>,
               <<StagedWheel(i) = "ok", StagedWheel(i)>>,
               <<i.version # "none", "extra_unavailable">>,
               <<Installation(i), "artifact_mismatch">>>>))

-----------------------------------------------------------------------------
(***************************************************************************)
(* run_native_probe.  "import" is how the verified package imports; native *)
(* is how the extension behaves: "sound"; "wrong" (other legal choices     *)
(* than the sentinel's), "raises", "no_choices" (no legal_choices at all)  *)
(* or "unserializable" (to_string raises).  The fixtures are pinned by the *)
(* digests of the verified identity.                                       *)
(***************************************************************************)
\* _import_verified_native: the package and the extension of this installation.
ImportFailure(import) == IF import = "package" THEN "ok" ELSE "import_failed"

\* run_legal_choice_probe catches what the choices raise, not what to_string does.
LegalChoiceProbe(native) ==
    CASE native \in {"wrong", "raises", "no_choices"} -> "sentinel_failed"
      [] native = "unserializable" -> "native_unhealthy"
      [] native = "sound" -> "ok"

ProbeFailure(fixtures, import, native) ==
    FirstFailure(
      <<<<fixtures, "sentinel_failed">>,
        <<ImportFailure(import) = "ok", ImportFailure(import)>>,
        <<LegalChoiceProbe(native) = "ok", LegalChoiceProbe(native)>>>>)

\* run_gen9_sentinel: the availability it reports.
Sentinel(i, fixtures, import, native) ==
    IF VerifyInstalledArtifact(i) # "ok" THEN VerifyInstalledArtifact(i)
    ELSE IF ProbeFailure(fixtures, import, native) # "ok"
         THEN ProbeFailure(fixtures, import, native)
         ELSE "available"

\* PokeEngineTransitionModel._initialize: the mapping failure, or "ok".
Initialization(i, catalog, adapter, import, native) ==
    LET artifact == VerifyInstalledArtifact(i)
    IN  FirstFailure(
          <<<<catalog, "capability_ambiguity">>,
            <<adapter, "adapter_identity_mismatch">>,
            <<artifact # "artifact_mismatch", "artifact_identity_mismatch">>,
            <<artifact = "ok", "backend_unavailable">>,
            <<ImportFailure(import) = "ok" /\ native # "no_choices", "adapter_identity_mismatch">>>>)

-----------------------------------------------------------------------------
(***************************************************************************)
(* What verification is for, in terms of the files alone: the installed    *)
(* package is the released (or staged) wheel, with nothing added but what  *)
(* an installer writes.                                                    *)
(***************************************************************************)
IsReleased(i) ==
    /\ {i.index, i.source, i.build} = {"canonical"}
    /\ \A p \in DOMAIN i.wheel \ {"RECORD"} : p \in DOMAIN i.disk /\ i.disk[p] = i.wheel[p]
    /\ DOMAIN i.disk \subseteq DOMAIN i.wheel \cup Added
    /\ i.url = (IF i.staged = "none" THEN "release" ELSE "staged")
=============================================================================
