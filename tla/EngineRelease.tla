---------------------------- MODULE EngineRelease ----------------------------
(***************************************************************************)
(* How a poke-engine wheel comes to be released: the subcommands of        *)
(* tools/build_poke_engine_wheel.py on one checkout, the staging of the    *)
(* cells (a python on a platform each), the legal-choice sentinel, the     *)
(* artifact index and the verification of the published release.           *)
(*                                                                         *)
(* A digest is what it is a digest of.  The text of the source tree is     *)
(* "lf" (the committed bytes), "crlf" (the same with other line ends),     *)
(* "edited", or "hidden" (edited where git does not look); the status is   *)
(* "dirty" if files are untracked or staged; patch is the downstream patch *)
(* applied, "none" at first.  A wheel carries the tree it was compiled     *)
(* from, its cell, and the number of its build: two builds of one tree     *)
(* need not give the same bytes.                                           *)
(***************************************************************************)
EXTENDS Naturals, FiniteSets

CONSTANTS
    Nothing,    \* no file
    Partial,    \* a file whose writer was stopped
    Cells,      \* six in the code
    Patches,    \* patch files; "unfit" does not apply to the pinned tree
    MaxRuns,    \* bound: commands of the build tool on a checkout
    MaxMishaps  \* bound: crashes, and changes from outside

VARIABLES
    repo,       \* the committed base manifest, source manifest, patch and fixtures
    workdir,    \* the checkout
    wheelhouse, \* Nothing, or the wheels in it
    built,      \* the build manifest of each cell on the build machine
    step,       \* "idle", "normalizing", "patching", "compiling", "binding"
    order,      \* the subcommand that runs: [command, cell]
    staged,     \* the uploaded manifest and wheel of each cell
    evidence,   \* the uploaded sentinel evidence of each cell
    index,      \* the artifact index
    committed,  \* the manifests committed for the release, Nothing before
    release,    \* the published assets
    verdict,    \* of verify_published_release_v2
    tried,      \* history: the wheels a sentinel found healthy
    runs, slips

bench == <<workdir, wheelhouse, built, step, order>>
shelf == <<staged, evidence, index>>
published == <<committed, release, verdict>>
releaseVars == <<repo, bench, shelf, published, tried, runs, slips>>

PinnedTree == [text |-> "lf", patch |-> "none"]
NoCheckout == [head |-> "none", autocrlf |-> FALSE, tree |-> PinnedTree, status |-> "clean"]

\* What may be committed at first: an earlier run may have made the source
\* manifest of a patch that applies.
Repositories ==
    [base : {"none", "pinned", "edited", "foreign"}, source : {Nothing}, patch : Patches, fixtures : {1}]
      \cup {[base |-> "pinned", patch |-> p, fixtures |-> 1,
             source |-> [base |-> "pinned", patch |-> p, tree |-> [PinnedTree EXCEPT !.patch = p]]] :
               p \in Patches \ {"unfit"}}

ReleaseInit ==
    /\ repo \in Repositories
    /\ workdir = NoCheckout
    /\ wheelhouse = Nothing
    /\ built = [c \in Cells |-> Nothing]
    /\ step = "idle" /\ order = Nothing
    /\ staged = [c \in Cells |-> Nothing]
    /\ evidence = [c \in Cells |-> Nothing]
    /\ index = Nothing /\ committed = Nothing /\ release = Nothing
    /\ verdict = "none"
    /\ tried = {}
    /\ runs = 0 /\ slips = 0

-----------------------------------------------------------------------------
(***************************************************************************)
(* The checks of the build tool.                                           *)
(***************************************************************************)
\* git status --porcelain --untracked-files=all prints nothing.
GitClean(w) ==
    /\ w.status = "clean" /\ w.tree.patch = "none"
    /\ w.tree.text \in {"lf", "hidden"} \cup (IF w.autocrlf THEN {"crlf"} ELSE {})

\* validate_pinned_source_manifest looks at the identity only.
PinnedBase(base) == base \in {"pinned", "edited"}

\* verify_source_checkout: the closure is compared with the committed blobs.
SourceCheckout(w, base) == w.head = "pinned" /\ GitClean(w) /\ base = "pinned"

\* _normalize_materialized_base: every file has the committed bytes up to line
\* ends, and nothing is untracked or staged.
Normalizable(w) == w.tree.text \in {"lf", "crlf"} /\ w.tree.patch = "none" /\ w.status = "clean"
Normalized(w) == [w EXCEPT !.autocrlf = FALSE, !.tree = PinnedTree]

\* apply_downstream_patch, up to the comparison with an expected closure
Patchable(w, patch) == w.head = "pinned" /\ ~w.autocrlf /\ GitClean(w) /\ patch # "unfit"

\* validate_downstream_source_manifest
DownstreamSource(source, base, patch) ==
    /\ source \notin {Nothing, Partial}
    /\ PinnedBase(base)
    /\ source.base = base /\ source.patch = patch

\* inspect_wheel: name, tags and RECORD are those of a wheel of the cell.
WheelFits(wheel, cell) == wheel.cell = cell /\ wheel.sound

-----------------------------------------------------------------------------
(***************************************************************************)
(* The subcommands.  A refused one changes nothing; one that fails later   *)
(* leaves what it has done so far.  verify-source only reads.              *)
(***************************************************************************)
AtRest == step = "idle"
Begin == AtRest /\ runs < MaxRuns /\ runs' = runs + 1
Done == step' = "idle" /\ order' = Nothing
benchFrame == <<shelf, published, tried, slips>>

\* One of the mishaps of the run: a crash, a failure of git or maturin, a change
\* from outside.
Slip == slips < MaxMishaps /\ slips' = slips + 1

\* acquire_pinned_source: git may be configured for other line ends.
Acquire ==
    /\ AtRest /\ workdir = NoCheckout
    /\ \E autocrlf \in BOOLEAN :
         workdir' = [head |-> "pinned", autocrlf |-> autocrlf, status |-> "clean",
                     tree |-> [PinnedTree EXCEPT !.text = IF autocrlf THEN "crlf" ELSE "lf"]]
    /\ UNCHANGED <<benchFrame, repo, wheelhouse, built, step, order, runs>>

\* It fails after the directory is made.
AcquireFails ==
    /\ AtRest /\ workdir = NoCheckout /\ Slip
    /\ workdir' = [NoCheckout EXCEPT !.head = "started"]
    /\ UNCHANGED <<shelf, published, tried, repo, wheelhouse, built, step, order, runs>>

\* source: create_source_manifest of a clean checkout of the pinned commit.
Source ==
    /\ Begin /\ repo.base = "none"
    /\ workdir.head = "pinned" /\ GitClean(workdir)
    /\ repo' = [repo EXCEPT !.base = "pinned"]
    /\ UNCHANGED <<benchFrame, bench>>

\* source-v2 and build verify the checkout as it is, the others normalize it first.
BeginCommand ==
    /\ Begin
    /\ \E command \in {"source-v2", "verify-source-v2", "build", "build-v2"}, cell \in Cells :
         /\ order' = [command |-> command, cell |-> cell]
         /\ IF command \in {"source-v2", "build"}
            THEN PinnedBase(repo.base) /\ SourceCheckout(workdir, repo.base)
            ELSE DownstreamSource(repo.source, repo.base, repo.patch) /\ workdir.head = "pinned"
         /\ step' = IF command = "build" THEN "compiling" ELSE "normalizing"
    /\ UNCHANGED <<benchFrame, repo, workdir, wheelhouse, built>>

\* The line-end policy is set first, the files are written last.
Normalize ==
    /\ step = "normalizing"
    /\ IF Normalizable(workdir)
       THEN workdir' = Normalized(workdir) /\ step' = "patching" /\ UNCHANGED order
       ELSE workdir' = [workdir EXCEPT !.autocrlf = FALSE] /\ Done
    /\ UNCHANGED <<benchFrame, repo, wheelhouse, built, runs>>

Patched(w) == [w EXCEPT !.tree.patch = repo.patch]

\* source-v2: the manifest of the patched tree, unless there is a file already.
WriteSource ==
    /\ step = "patching" /\ order.command = "source-v2"
    /\ Patchable(workdir, repo.patch)
    /\ workdir' = Patched(workdir)
    /\ repo' = [repo EXCEPT !.source =
                  IF @ # Nothing THEN @
                  ELSE [base |-> repo.base, patch |-> repo.patch, tree |-> Patched(workdir).tree]]
    /\ Done
    /\ UNCHANGED <<benchFrame, wheelhouse, built, runs>>

\* Mutant: the patched tree is not compared with the source manifest.
PatchedAsListedAlways(w) == TRUE

\* The tree after the patch is the one the source manifest lists.
PatchedAsListed(w) == w.tree = repo.source.tree

\* The other commands compare the patched tree with the manifest; build-v2 goes on.
ApplyPatch ==
    /\ step = "patching" /\ order.command # "source-v2"
    /\ SourceCheckout(workdir, repo.base) /\ Patchable(workdir, repo.patch)
    /\ workdir' = Patched(workdir)
    /\ IF PatchedAsListed(workdir') /\ order.command = "build-v2"
       THEN step' = "compiling" /\ UNCHANGED order
       ELSE Done
    /\ UNCHANGED <<benchFrame, repo, wheelhouse, built, runs>>

PatchRefused ==
    /\ step = "patching"
    /\ \/ ~Patchable(workdir, repo.patch)
       \/ order.command # "source-v2" /\ ~SourceCheckout(workdir, repo.base)
    /\ Done
    /\ UNCHANGED <<benchFrame, repo, workdir, wheelhouse, built, runs>>

\* The toolchain is another one, or there is a wheelhouse.
CompileRefused ==
    /\ step = "compiling"
    /\ Done
    /\ UNCHANGED <<benchFrame, repo, workdir, wheelhouse, built, runs>>

\* maturin (external) compiles the tree into a new wheelhouse.
Compile ==
    /\ step = "compiling" /\ wheelhouse = Nothing
    /\ wheelhouse' = {[tree |-> workdir.tree, cell |-> order.cell, sound |-> TRUE, serial |-> runs]}
    /\ step' = "binding"
    /\ UNCHANGED <<benchFrame, repo, workdir, built, order, runs>>

\* Or it fails, leaves no wheel, an unsound one or two, or writes to the checkout
\* before or after it compiles, though not to a file of the patch.
CompileBadly ==
    /\ step = "compiling" /\ wheelhouse = Nothing /\ Slip
    /\ workdir' \in {workdir, [workdir EXCEPT !.status = "dirty"],
                     [workdir EXCEPT !.tree.text = "edited"]}
    /\ \E compiled \in {workdir.tree, workdir'.tree} :
         \E output \in SUBSET {[tree |-> compiled, cell |-> order.cell, sound |-> sound, serial |-> runs] :
                                sound \in BOOLEAN} : wheelhouse' = output
    /\ \/ Done
       \/ step' = "binding" /\ UNCHANGED order
    /\ UNCHANGED <<shelf, published, tried, repo, built, runs>>

\* After maturin: build wants a clean tree, build-v2 that the changed files are
\* those of the patch.
TreeUnchanged ==
    IF order.command = "build" THEN GitClean(workdir) ELSE workdir.tree.text = "lf"

\* The wheel is inspected and the build manifest written, unless there is a file.
Bind ==
    /\ step = "binding"
    /\ \E fits \in BOOLEAN :  \* the operating system given is that of the target
       LET wheel == CHOOSE w \in wheelhouse : TRUE
           version == IF order.command = "build" THEN 1 ELSE 2
       IN  IF /\ TreeUnchanged
              /\ Cardinality(wheelhouse) = 1 /\ WheelFits(wheel, order.cell)
              /\ fits
              /\ built[order.cell] = Nothing
           THEN built' = [built EXCEPT ![order.cell] =
                   [version |-> version, cell |-> order.cell, wheel |-> wheel,
                    source |-> IF version = 2 THEN repo.source
                               ELSE [base |-> repo.base, patch |-> "none", tree |-> PinnedTree]]]
           ELSE UNCHANGED built
    /\ Done
    /\ UNCHANGED <<benchFrame, repo, workdir, wheelhouse, runs>>

-----------------------------------------------------------------------------
(***************************************************************************)
(* From the cells to the release.  The machine of a build job is gone once *)
(* its cell is uploaded.  The later jobs run on machines of their own and  *)
(* share only the repository and the uploads with it, so they are taken    *)
(* while there is no build machine.                                        *)
(***************************************************************************)
releaseFrame == <<repo, bench, runs, slips>>

NoMachine == workdir = NoCheckout /\ wheelhouse = Nothing /\ \A c \in Cells : built[c] = Nothing

\* verify_manifest_wheel_binding_v2
Bound(source, build, wheel) ==
    /\ build.version = 2 /\ build.source = source
    /\ WheelFits(wheel, build.cell) /\ wheel = build.wheel

\* verify_published_wheel_manifest_v2 and the upload of manifest and wheel
Stage(c) ==
    /\ AtRest /\ built[c] \notin {Nothing, Partial} /\ wheelhouse # Nothing
    /\ \E wheel \in wheelhouse :
         /\ wheelhouse = {wheel} /\ Bound(repo.source, built[c], wheel)
         /\ staged' = [staged EXCEPT ![c] = [build |-> built[c], wheel |-> wheel]]
    /\ workdir' = NoCheckout /\ wheelhouse' = Nothing /\ built' = [d \in Cells |-> Nothing]
    /\ UNCHANGED <<repo, step, order, evidence, index, published, tried, runs, slips>>

\* smoke_poke_engine_legal_choices: the evidence names the wheel of the manifest,
\* what was imported is the wheel that was installed.
SmokeLegalChoices(c) ==
    /\ NoMachine /\ staged[c] # Nothing /\ repo.source \notin {Nothing, Partial}
    /\ evidence' = [evidence EXCEPT ![c] =
          [source |-> repo.source, build |-> staged[c].build, wheel |-> staged[c].build.wheel,
           fixtures |-> repo.fixtures]]
    /\ tried' = tried \cup {staged[c].wheel}
    /\ UNCHANGED <<releaseFrame, staged, index, published>>

\* Mutant: evidence is matched by cell and source alone.
EvidenceFitsCell(c) == evidence[c] # Nothing /\ evidence[c].source = repo.source

\* _evidence_for_cell
EvidenceFits(c) ==
    /\ evidence[c] # Nothing
    /\ evidence[c] = [source |-> repo.source, build |-> staged[c].build,
                      wheel |-> staged[c].build.wheel, fixtures |-> repo.fixtures]

\* create_artifact_index_v2; the file must not exist.
CreateIndex(status) ==
    /\ NoMachine /\ index = Nothing /\ repo.source \notin {Nothing, Partial}
    /\ \A c \in Cells :
          /\ staged[c] # Nothing
          /\ Bound(repo.source, staged[c].build, staged[c].wheel)
          /\ status = "available" => EvidenceFits(c)
    /\ Cardinality({staged[c].wheel : c \in Cells}) = Cardinality(Cells)
    /\ index' = [status |-> status, source |-> repo.source,
                 builds |-> [c \in Cells |-> staged[c].build]]
    /\ UNCHANGED <<releaseFrame, staged, evidence, published, tried>>

\* The manifests are committed, and the release is published with the wheels, each
\* from what is there at the time.
Manifests ==
    [index |-> index, source |-> repo.source, builds |-> [c \in Cells |-> staged[c].build]]

CommitManifests ==
    /\ NoMachine /\ index # Nothing /\ committed = Nothing /\ \A c \in Cells : staged[c] # Nothing
    /\ committed' = Manifests
    /\ UNCHANGED <<releaseFrame, shelf, release, verdict, tried>>

Publish ==
    /\ NoMachine /\ index # Nothing /\ release = Nothing /\ \A c \in Cells : staged[c] # Nothing
    /\ release' = [manifests |-> Manifests, wheels |-> [c \in Cells |-> staged[c].wheel]]
    /\ UNCHANGED <<releaseFrame, shelf, committed, verdict, tried>>

\* verify_published_release_v2
ReleaseCloses ==
    LET m == release.manifests
    IN  /\ m.index.source = m.source
        /\ m = committed
        /\ \A c \in Cells :
              /\ Bound(m.source, m.builds[c], release.wheels[c])
              /\ m.builds[c].cell = c
              /\ m.index.status = "available" /\ m.index.builds[c] = m.builds[c]
        /\ Cardinality({release.wheels[c] : c \in Cells}) = Cardinality(Cells)

VerifyRelease ==
    /\ NoMachine /\ release # Nothing /\ committed # Nothing
    /\ verdict' = IF ReleaseCloses THEN "verified" ELSE "refused"
    /\ UNCHANGED <<releaseFrame, shelf, committed, release, tried>>

-----------------------------------------------------------------------------
(***************************************************************************)
(* Crashes, the operator, and changes of the repository and the checkout   *)
(* between two commands.                                                   *)
(***************************************************************************)
\* A command is stopped: half a patch, a patch, or half a manifest may be left.
Crash ==
    /\ ~AtRest /\ Slip /\ Done
    /\ workdir' \in IF step = "patching"
                    THEN {workdir, Patched(workdir), [workdir EXCEPT !.tree.text = "edited"]}
                    ELSE {workdir}
    /\ built' \in {built, IF step = "binding" /\ built[order.cell] = Nothing
                          THEN [built EXCEPT ![order.cell] = Partial] ELSE built}
    /\ repo' \in {repo, IF order.command = "source-v2" /\ repo.source = Nothing /\ workdir' = Patched(workdir)
                        THEN [repo EXCEPT !.source = Partial] ELSE repo}
    /\ UNCHANGED <<shelf, published, tried, wheelhouse, runs>>

\* The operator removes what a command would not overwrite.
Remove ==
    /\ AtRest
    /\ \/ workdir' = NoCheckout /\ UNCHANGED <<repo, wheelhouse, built, index, release, verdict>>
       \/ wheelhouse' = Nothing /\ UNCHANGED <<repo, workdir, built, index, release, verdict>>
       \/ built' = [c \in Cells |-> Nothing] /\ UNCHANGED <<repo, workdir, wheelhouse, index, release, verdict>>
       \/ index' = Nothing /\ UNCHANGED <<repo, workdir, wheelhouse, built, release, verdict>>
       \/ repo' = [repo EXCEPT !.source = Nothing] /\ UNCHANGED <<workdir, wheelhouse, built, index, release, verdict>>
    /\ UNCHANGED <<step, order, staged, evidence, committed, tried, runs, slips>>

Change ==
    /\ AtRest /\ Slip
    /\ \/ /\ workdir.head = "pinned"
          /\ workdir' \in {[workdir EXCEPT !.tree.text = t] : t \in {"edited", "hidden"}}
                            \cup {[workdir EXCEPT !.status = "dirty"], [workdir EXCEPT !.head = "other"]}
          /\ UNCHANGED <<repo, release, verdict>>
       \/ /\ repo' \in {[repo EXCEPT !.patch = p] : p \in Patches \ {repo.patch}}
                         \cup {[repo EXCEPT !.fixtures = 3 - @]}
                         \cup {[repo EXCEPT !.source.tree.patch = p] : p \in
                                 IF repo.source \in {Nothing, Partial} THEN {}
                                 ELSE Patches \ {repo.source.patch}}
          /\ UNCHANGED <<workdir, release, verdict>>
       \/ /\ release # Nothing /\ verdict' = "none"
          /\ \E c, d \in Cells : c # d /\ release' = [release EXCEPT !.wheels[c] = release.wheels[d]]
          /\ UNCHANGED <<repo, workdir>>
    /\ UNCHANGED <<wheelhouse, built, step, order, shelf, committed, tried, runs>>

-----------------------------------------------------------------------------
ReleaseNext ==
    \/ Acquire \/ AcquireFails \/ Source \/ BeginCommand \/ Normalize \/ WriteSource \/ ApplyPatch \/ PatchRefused
    \/ CompileRefused \/ Compile \/ CompileBadly \/ Bind
    \/ \E c \in Cells : Stage(c) \/ SmokeLegalChoices(c)
    \/ \E status \in {"candidate", "available"} : CreateIndex(status)
    \/ CommitManifests \/ Publish \/ VerifyRelease
    \/ Crash \/ Remove \/ Change

ReleaseSpec == ReleaseInit /\ [][ReleaseNext]_releaseVars

(***************************************************************************)
(* A build manifest tells what its wheel was compiled from, whatever was   *)
(* done to the checkout before and wherever an earlier command stopped:    *)
(* for build-v2 the very bytes its source manifest lists, the pinned tree  *)
(* with the one patch it names; for build the pinned tree as far as git    *)
(* can tell.                                                               *)
(***************************************************************************)
ManifestNamesItsSource ==
    \A c \in Cells : built[c] \notin {Nothing, Partial} =>
        LET wheel == built[c].wheel
            source == built[c].source
        IN  /\ wheel.cell = c /\ source.base = "pinned"
            /\ built[c].version = 1 => wheel.tree.patch = "none" /\ wheel.tree.text # "edited"
            /\ built[c].version = 2 =>
                  wheel.tree = source.tree /\ wheel.tree = [text |-> "lf", patch |-> source.patch]

(***************************************************************************)
(* A release that verifies is one build of one source: every wheel of it   *)
(* was compiled from the pinned tree with the patch of the committed       *)
(* source manifest, for its own cell, and a sentinel has found that very   *)
(* wheel healthy, however often cells were built again, patch or fixtures  *)
(* replaced, or an index made from what was staged at another time.        *)
(***************************************************************************)
ReleaseIsOneBuild ==
    verdict = "verified" =>
        \A c \in Cells :
            LET wheel == release.wheels[c]
            IN  /\ wheel.cell = c /\ wheel \in tried
                /\ wheel.tree = [text |-> "lf", patch |-> committed.source.patch]
=============================================================================
