----------------------------- MODULE EngineProofs -----------------------------
(***************************************************************************)
(* Proofs about the poke-engine, for every cell, patch, installation,      *)
(* request, world and answer of the engine: a manifest names the source of *)
(* its wheel, a release is one build, only a released wheel is used, and a *)
(* search keeps actions, work and hidden information straight.             *)
(***************************************************************************)
EXTENDS EngineSupply, FiniteSetTheorems, WellFoundedInduction, TLAPS

\* A behaviour of the composition is a release and a search.
LEMMA SupplyPlays == SupplySpec => ReleaseSpec /\ SearchSpec
<1>1. SupplyInit => ReleaseInit /\ SearchInit
  BY DEF SupplyInit
<1>2. [SupplyNext]_supplyVars => [ReleaseNext]_releaseVars
  BY DEF SupplyNext, supplyVars
<1>3. [SupplyNext]_supplyVars => [SearchNext]_<<vars, searchVars>>
  BY DEF SupplyNext, supplyVars
<1> QED
  BY <1>1, <1>2, <1>3, PTL DEF SupplySpec, ReleaseSpec, SearchSpec

-----------------------------------------------------------------------------
(***************************************************************************)
(* The release.  What a command found at its beginning still holds while   *)
(* it runs, for nothing else changes the checkout or the repository; so a  *)
(* wheel that is bound was compiled from the tree that its manifest names. *)
(***************************************************************************)
Trees == [text : {"lf", "crlf", "edited", "hidden"}, patch : Patches \cup {"none"}]
Workdirs ==
    [head : {"none", "started", "pinned", "other"}, autocrlf : BOOLEAN, tree : Trees,
     status : {"clean", "dirty"}]
Bases == {"none", "pinned", "edited", "foreign"}
Sources == {Nothing, Partial} \cup [base : Bases, patch : Patches, tree : Trees]
Repos == [base : Bases, source : Sources, patch : Patches, fixtures : {1, 2}]

BenchTypes ==
    /\ workdir \in Workdirs /\ repo \in Repos
    /\ built = [c \in Cells |-> built[c]]
    /\ step \in {"idle", "normalizing", "patching", "compiling", "binding"}
    /\ step # "idle" => order.cell \in Cells

\* What the command that runs may compile.
Compiles(tree) ==
    IF order.command = "build" THEN tree.patch = "none"
    ELSE tree = repo.source.tree /\ tree.patch = repo.source.patch

CommandInv ==
    /\ step \in {"normalizing", "patching"} /\ order.command = "build-v2" =>
          DownstreamSource(repo.source, repo.base, repo.patch)
    /\ step \in {"compiling", "binding"} =>
          /\ repo.base = "pinned"
          /\ order.command # "build" => repo.source.base = "pinned"
    /\ step = "compiling" => Compiles(workdir.tree)
    /\ step = "binding" /\ TreeUnchanged =>
          \A w \in wheelhouse : w.tree = workdir.tree /\ Compiles(w.tree)

\* What ManifestNamesItsSource says of one manifest.
NamesItsSource(c, build) ==
    LET wheel == build.wheel
        source == build.source
    IN  /\ wheel.cell = c /\ source.base = "pinned"
        /\ build.version = 1 => wheel.tree.patch = "none" /\ wheel.tree.text # "edited"
        /\ build.version = 2 =>
              wheel.tree = source.tree /\ wheel.tree = [text |-> "lf", patch |-> source.patch]

BenchInv == BenchTypes /\ CommandInv /\ ManifestNamesItsSource

\* An index that says "available" lists wheels that a sentinel found healthy.
Tested(anIndex) ==
    anIndex.status = "available" => \A c \in Cells : anIndex.builds[c].wheel \in tried

ShelfInv ==
    /\ staged = [c \in Cells |-> staged[c]] /\ evidence = [c \in Cells |-> evidence[c]]
    /\ \A c \in Cells : staged[c] # Nothing =>
          NamesItsSource(c, staged[c].build) /\ staged[c].wheel = staged[c].build.wheel
    /\ \A c \in Cells : evidence[c] # Nothing => evidence[c].wheel \in tried
    /\ index # Nothing => Tested(index)

PublishedInv ==
    /\ committed # Nothing =>
          Tested(committed.index) /\ \A c \in Cells : NamesItsSource(c, committed.builds[c])
    /\ verdict = "verified" => release # Nothing /\ committed # Nothing
    /\ ReleaseIsOneBuild

ReleaseInv == BenchInv /\ ShelfInv /\ PublishedInv

LEMMA NamesItsSourceDef ==
    ManifestNamesItsSource <=>
        \A c \in Cells : built[c] \notin {Nothing, Partial} => NamesItsSource(c, built[c])
BY DEF ManifestNamesItsSource, NamesItsSource

LEMMA NamesItsSourceDefPrime ==
    ManifestNamesItsSource' <=>
        \A c \in Cells : built'[c] \notin {Nothing, Partial} => NamesItsSource(c, built'[c])
BY DEF ManifestNamesItsSource, NamesItsSource

LEMMA PinnedTreeType == PinnedTree \in Trees /\ NoCheckout \in Workdirs
BY DEF PinnedTree, NoCheckout, Trees, Workdirs

LEMMA ReleaseBegins == ReleaseInit => ReleaseInv
<1> SUFFICES ASSUME ReleaseInit PROVE ReleaseInv
  OBVIOUS
<1>1. repo \in Repos
  <2>1. CASE repo \in [base : {"none", "pinned", "edited", "foreign"}, source : {Nothing},
                       patch : Patches, fixtures : {1}]
    BY <2>1 DEF Repos, Bases, Sources
  <2>2. ASSUME NEW p \in Patches \ {"unfit"},
               repo = [base |-> "pinned", patch |-> p, fixtures |-> 1,
                       source |-> [base |-> "pinned", patch |-> p,
                                   tree |-> [PinnedTree EXCEPT !.patch = p]]]
        PROVE  repo \in Repos
    <3>1. [PinnedTree EXCEPT !.patch = p] \in Trees
      BY DEF PinnedTree, Trees
    <3>2. [base |-> "pinned", patch |-> p, tree |-> [PinnedTree EXCEPT !.patch = p]] \in Sources
      BY <3>1 DEF Sources, Bases
    <3> QED
      BY <2>2, <3>2 DEF Repos, Bases
  <2> QED
    BY <2>1, <2>2 DEF ReleaseInit, Repositories
<1>2. BenchTypes /\ CommandInv
  BY <1>1, PinnedTreeType DEF ReleaseInit, BenchTypes, CommandInv
<1>3. ManifestNamesItsSource
  BY DEF ReleaseInit, ManifestNamesItsSource
<1>4. ShelfInv /\ PublishedInv
  BY DEF ReleaseInit, ShelfInv, PublishedInv, ReleaseIsOneBuild
<1> QED
  BY <1>2, <1>3, <1>4 DEF ReleaseInv, BenchInv

\* A command that ends or does not run has nothing to compile.
LEMMA AtRestAgain ==
    ASSUME BenchInv, step' = "idle", built' = built, workdir' \in Workdirs, repo' \in Repos
    PROVE  BenchInv'
BY NamesItsSourceDef, NamesItsSourceDefPrime DEF BenchInv, BenchTypes, CommandInv

LEMMA AcquireBench ==
    ASSUME BenchInv, Acquire \/ AcquireFails
    PROVE  BenchInv'
<1>1. step = "idle" /\ step' = step /\ built' = built /\ repo' = repo
  BY DEF Acquire, AcquireFails, AtRest
<1>2. workdir' \in Workdirs
  <2>1. PICK text \in {"lf", "crlf"}, autocrlf \in BOOLEAN, head \in {"started", "pinned"} :
          workdir' = [head |-> head, autocrlf |-> autocrlf, status |-> "clean",
                      tree |-> [text |-> text, patch |-> "none"]]
    <3>1. CASE Acquire
      BY <3>1 DEF Acquire, PinnedTree
    <3>2. CASE AcquireFails
      BY <3>2 DEF AcquireFails, PinnedTree, NoCheckout
    <3> QED
      BY <3>1, <3>2
  <2> QED
    BY <2>1 DEF Workdirs, Trees
<1> QED
  BY <1>1, <1>2, AtRestAgain DEF BenchInv, BenchTypes

LEMMA SourceBench ==
    ASSUME BenchInv, Source
    PROVE  BenchInv'
<1>1. step' = "idle" /\ built' = built /\ workdir' = workdir
  BY DEF Source, Begin, AtRest, bench
<1>2. repo' \in Repos
  BY DEF Source, BenchInv, BenchTypes, Repos, Bases
<1> QED
  BY <1>1, <1>2, AtRestAgain DEF BenchInv, BenchTypes

LEMMA BeginCommandBench ==
    ASSUME BenchInv, BeginCommand
    PROVE  BenchInv'
<1>1. PICK what \in {"source-v2", "verify-source-v2", "build", "build-v2"}, cell \in Cells :
         /\ order' = [command |-> what, cell |-> cell]
         /\ IF what \in {"source-v2", "build"}
            THEN PinnedBase(repo.base) /\ SourceCheckout(workdir, repo.base)
            ELSE DownstreamSource(repo.source, repo.base, repo.patch) /\ workdir.head = "pinned"
         /\ step' = IF what = "build" THEN "compiling" ELSE "normalizing"
  BY DEF BeginCommand
<1>2. UNCHANGED <<repo, workdir, built>>
  BY DEF BeginCommand
<1>3. BenchTypes'
  BY <1>1, <1>2 DEF BenchInv, BenchTypes
<1>4. CommandInv'
  BY <1>1, <1>2 DEF CommandInv, Compiles, SourceCheckout, GitClean, DownstreamSource, PinnedBase
<1>5. ManifestNamesItsSource'
  BY <1>2, NamesItsSourceDef, NamesItsSourceDefPrime DEF BenchInv
<1> QED
  BY <1>3, <1>4, <1>5 DEF BenchInv

\* While a command runs the repository stays, and what it has built.
LEMMA CommandGoesOn ==
    ASSUME BenchInv, workdir' \in Workdirs, UNCHANGED <<repo, built, order>>,
           step' \in {"normalizing", "patching", "compiling", "binding"}, step # "idle", CommandInv'
    PROVE  BenchInv'
BY NamesItsSourceDef, NamesItsSourceDefPrime DEF BenchInv, BenchTypes

LEMMA NormalizeBench ==
    ASSUME BenchInv, Normalize
    PROVE  BenchInv'
<1>1. UNCHANGED <<repo, built>> /\ step = "normalizing"
  BY DEF Normalize
<1>2. CASE Normalizable(workdir)
  <2>1. workdir' = Normalized(workdir) /\ step' = "patching" /\ order' = order
    BY <1>2 DEF Normalize
  <2>2. workdir' \in Workdirs
    BY <2>1 DEF BenchInv, BenchTypes, Normalized, Workdirs, Trees, PinnedTree
  <2>3. CommandInv'
    BY <1>1, <2>1 DEF BenchInv, CommandInv
  <2> QED
    BY <1>1, <2>1, <2>2, <2>3, CommandGoesOn
<1>3. CASE ~Normalizable(workdir)
  <2>1. workdir' = [workdir EXCEPT !.autocrlf = FALSE] /\ step' = "idle"
    BY <1>3 DEF Normalize, Done
  <2>2. workdir' \in Workdirs
    BY <2>1 DEF BenchInv, BenchTypes, Workdirs
  <2> QED
    BY <1>1, <2>1, <2>2, AtRestAgain DEF BenchInv, BenchTypes
<1> QED
  BY <1>2, <1>3

LEMMA PatchedTree ==
    ASSUME workdir \in Workdirs, repo \in Repos
    PROVE  /\ Patched(workdir) \in Workdirs
           /\ Patched(workdir).tree \in Trees /\ Patched(workdir).tree.patch = repo.patch
<1>1. [workdir.tree EXCEPT !.patch = repo.patch] \in Trees
  BY DEF Workdirs, Trees, Repos
<1>2. Patched(workdir).tree = [workdir.tree EXCEPT !.patch = repo.patch]
  BY DEF Patched, Workdirs
<1>3. Patched(workdir) \in Workdirs
  BY <1>1 DEF Patched, Workdirs
<1> QED
  BY <1>1, <1>2, <1>3 DEF Workdirs, Trees

LEMMA WriteSourceBench ==
    ASSUME BenchInv, WriteSource
    PROVE  BenchInv'
<1>1. workdir' = Patched(workdir) /\ built' = built /\ step' = "idle"
  BY DEF WriteSource, Done
<1>2. workdir' \in Workdirs /\ Patched(workdir).tree \in Trees
  BY <1>1, PatchedTree DEF BenchInv, BenchTypes
<1>3. repo' \in {repo, [repo EXCEPT !.source =
                          [base |-> repo.base, patch |-> repo.patch,
                           tree |-> Patched(workdir).tree]]}
  BY DEF WriteSource, BenchInv, BenchTypes, Repos
<1>4. [base |-> repo.base, patch |-> repo.patch, tree |-> Patched(workdir).tree] \in Sources
  BY <1>2 DEF BenchInv, BenchTypes, Repos, Sources
<1>5. repo' \in Repos
  BY <1>3, <1>4 DEF BenchInv, BenchTypes, Repos
<1> QED
  BY <1>1, <1>2, <1>5, AtRestAgain

LEMMA ApplyPatchBench ==
    ASSUME BenchInv, ApplyPatch
    PROVE  BenchInv'
<1>1. /\ workdir' = Patched(workdir) /\ UNCHANGED <<repo, built>>
      /\ step = "patching" /\ repo.base = "pinned"
  BY DEF ApplyPatch, SourceCheckout
<1>2. workdir' \in Workdirs /\ workdir'.tree.patch = repo.patch
  BY <1>1, PatchedTree DEF BenchInv, BenchTypes
<1>3. CASE PatchedAsListed(workdir') /\ order.command = "build-v2"
  <2>1. step' = "compiling" /\ order' = order
    BY <1>3 DEF ApplyPatch
  <2>2. DownstreamSource(repo.source, repo.base, repo.patch)
    BY <1>1, <1>3 DEF BenchInv, CommandInv
  <2>3. CommandInv'
    BY <1>1, <1>2, <1>3, <2>1, <2>2
       DEF CommandInv, Compiles, DownstreamSource, PatchedAsListed
  <2> QED
    BY <1>1, <1>2, <2>1, <2>3, CommandGoesOn
<1>4. CASE ~(PatchedAsListed(workdir') /\ order.command = "build-v2")
  <2>1. step' = "idle"
    BY <1>4 DEF ApplyPatch, Done
  <2> QED
    BY <1>1, <1>2, <2>1, AtRestAgain DEF BenchInv, BenchTypes
<1> QED
  BY <1>3, <1>4

LEMMA RefusedBench ==
    ASSUME BenchInv, PatchRefused \/ CompileRefused
    PROVE  BenchInv'
<1>1. step' = "idle" /\ UNCHANGED <<built, repo, workdir>>
  BY DEF PatchRefused, CompileRefused, Done
<1> QED
  BY <1>1, AtRestAgain DEF BenchInv, BenchTypes

LEMMA CompileBench ==
    ASSUME BenchInv, Compile
    PROVE  BenchInv'
<1>1. /\ UNCHANGED <<repo, workdir, built, order>> /\ step = "compiling" /\ step' = "binding"
      /\ \A w \in wheelhouse' : w.tree = workdir.tree
  BY DEF Compile
<1>2. CommandInv'
  BY <1>1 DEF BenchInv, CommandInv, Compiles
<1> QED
  BY <1>1, <1>2, CommandGoesOn DEF BenchInv, BenchTypes

LEMMA CompileBadlyBench ==
    ASSUME BenchInv, CompileBadly
    PROVE  BenchInv'
<1>1. /\ UNCHANGED <<repo, built>> /\ step = "compiling" /\ workdir \in Workdirs
      /\ workdir' \in {workdir, [workdir EXCEPT !.status = "dirty"],
                       [workdir EXCEPT !.tree.text = "edited"]}
  BY DEF CompileBadly, BenchInv, BenchTypes
<1>2. workdir' \in Workdirs
  BY <1>1 DEF Workdirs, Trees
<1>3. workdir'.tree.text = "edited" \/ workdir'.tree = workdir.tree
  BY <1>1 DEF Workdirs, Trees
<1>4. \A w \in wheelhouse' : w.tree \in {workdir.tree, workdir'.tree}
  <2>1. PICK compiled \in {workdir.tree, workdir'.tree} :
          \E output \in SUBSET {[tree |-> compiled, cell |-> order.cell, sound |-> sound,
                                 serial |-> runs] : sound \in BOOLEAN} : wheelhouse' = output
    BY DEF CompileBadly
  <2> QED
    BY <2>1
<1>5. CASE step' = "idle"
  BY <1>1, <1>2, <1>5, AtRestAgain DEF BenchInv, BenchTypes
<1>6. CASE step' = "binding" /\ order' = order
  <2>1. TreeUnchanged' => workdir'.tree.text # "edited"
    BY DEF TreeUnchanged, GitClean
  <2>2. CommandInv'
    BY <1>1, <1>3, <1>4, <1>6, <2>1 DEF BenchInv, CommandInv, Compiles
  <2> QED
    BY <1>1, <1>2, <1>6, <2>2, CommandGoesOn
<1> QED
  BY <1>5, <1>6 DEF CompileBadly, Done

LEMMA PatchedNames ==
    ASSUME NEW c, NEW build, build.version = 2, build.wheel.cell = c, build.source.base = "pinned",
           build.wheel.tree = build.source.tree,
           build.wheel.tree = [text |-> "lf", patch |-> build.source.patch]
    PROVE  NamesItsSource(c, build)
BY DEF NamesItsSource

LEMMA BindBench ==
    ASSUME BenchInv, Bind
    PROVE  BenchInv'
<1>1. step = "binding" /\ step' = "idle" /\ UNCHANGED <<repo, workdir, wheelhouse>>
  BY DEF Bind, Done
<1>2. CASE built' = built
  BY <1>1, <1>2, AtRestAgain DEF BenchInv, BenchTypes
<1>3. CASE built' # built
  <2> DEFINE wheel == CHOOSE w \in wheelhouse : TRUE
             version == IF order.command = "build" THEN 1 ELSE 2
             manifest == [version |-> version, cell |-> order.cell, wheel |-> wheel,
                          source |-> IF version = 2 THEN repo.source
                                     ELSE [base |-> repo.base, patch |-> "none", tree |-> PinnedTree]]
  <2>1. /\ TreeUnchanged /\ Cardinality(wheelhouse) = 1 /\ WheelFits(wheel, order.cell)
        /\ built' = [built EXCEPT ![order.cell] = manifest]
    BY <1>3 DEF Bind
  <2>2. wheel \in wheelhouse
    <3>1. wheelhouse # {}
      BY <2>1, FS_EmptySet
    <3> QED
      BY <3>1
  <2>3. manifest.wheel = wheel /\ manifest.version = version
    OBVIOUS
  <2>4. /\ manifest.source.base = "pinned"
        /\ version = 2 => manifest.source = repo.source
    BY <1>1 DEF BenchInv, CommandInv
  <2> HIDE DEF wheel, manifest
  <2>5. wheel.tree = workdir.tree /\ Compiles(wheel.tree) /\ wheel.cell = order.cell
    BY <1>1, <2>1, <2>2 DEF BenchInv, CommandInv, WheelFits
  <2>6. wheel.tree = [text |-> wheel.tree.text, patch |-> wheel.tree.patch]
    BY <2>5 DEF BenchInv, BenchTypes, Workdirs, Trees
  <2>7. ASSUME order.command = "build" PROVE NamesItsSource(order.cell, manifest)
    <3>1. wheel.tree.patch = "none" /\ wheel.tree.text # "edited"
      BY <2>1, <2>5, <2>7 DEF TreeUnchanged, GitClean
    <3> QED
      BY <2>3, <2>4, <2>5, <2>7, <3>1 DEF NamesItsSource
  <2>8. ASSUME order.command # "build" PROVE NamesItsSource(order.cell, manifest)
    <3>1. wheel.tree.text = "lf"
      BY <2>1, <2>5, <2>8 DEF TreeUnchanged
    <3>2. wheel.tree = repo.source.tree /\ wheel.tree = [text |-> "lf", patch |-> repo.source.patch]
      BY <2>5, <2>6, <2>8, <3>1 DEF Compiles
    <3>3. manifest.version = 2 /\ manifest.wheel = wheel
      BY <2>3, <2>8
    <3>4. manifest.source = repo.source /\ manifest.source.base = "pinned"
      BY <2>4, <2>8
    <3>5. /\ manifest.wheel.cell = order.cell /\ manifest.wheel.tree = manifest.source.tree
          /\ manifest.wheel.tree = [text |-> "lf", patch |-> manifest.source.patch]
      BY <2>5, <3>2, <3>3, <3>4
    <3> QED
      BY <3>3, <3>4, <3>5, PatchedNames
  <2>9. NamesItsSource(order.cell, manifest)
    BY <2>7, <2>8
  <2>10. ManifestNamesItsSource'
    BY <1>1, <2>1, <2>9, NamesItsSourceDef, NamesItsSourceDefPrime DEF BenchInv, BenchTypes
  <2> QED
    BY <1>1, <2>1, <2>10 DEF BenchInv, BenchTypes, CommandInv
<1> QED
  BY <1>2, <1>3

LEMMA CrashBench ==
    ASSUME BenchInv, Crash
    PROVE  BenchInv'
<1>1. step # "idle" /\ step' = "idle"
  BY DEF Crash, AtRest, Done
<1>2. workdir' \in Workdirs
  <2>1. workdir' \in {workdir, Patched(workdir), [workdir EXCEPT !.tree.text = "edited"]}
    BY DEF Crash
  <2>2. [workdir EXCEPT !.tree.text = "edited"] \in Workdirs
    BY DEF BenchInv, BenchTypes, Workdirs, Trees
  <2> QED
    BY <2>1, <2>2, PatchedTree DEF BenchInv, BenchTypes
<1>3. repo' \in Repos
  <2>1. repo' \in {repo, [repo EXCEPT !.source = Partial]}
    BY DEF Crash
  <2> QED
    BY <2>1 DEF BenchInv, BenchTypes, Repos, Sources
<1>4. built' \in {built, [built EXCEPT ![order.cell] = Partial]}
  BY DEF Crash
<1>5. built' = [c \in Cells |-> built'[c]] /\ ManifestNamesItsSource'
  BY <1>4, NamesItsSourceDef, NamesItsSourceDefPrime DEF BenchInv, BenchTypes
<1> QED
  BY <1>1, <1>2, <1>3, <1>5 DEF BenchInv, BenchTypes, CommandInv

LEMMA RemoveBench ==
    ASSUME BenchInv, Remove
    PROVE  BenchInv'
<1>1. /\ step' = "idle" /\ workdir' \in {workdir, NoCheckout}
      /\ repo' \in {repo, [repo EXCEPT !.source = Nothing]}
      /\ built' \in {built, [c \in Cells |-> Nothing]}
  BY DEF Remove, AtRest
<1>2. workdir' \in Workdirs /\ repo' \in Repos
  BY <1>1, PinnedTreeType DEF BenchInv, BenchTypes, Repos, Sources
<1>3. built' = [c \in Cells |-> built'[c]] /\ ManifestNamesItsSource'
  BY <1>1, NamesItsSourceDef, NamesItsSourceDefPrime DEF BenchInv, BenchTypes
<1> QED
  BY <1>1, <1>2, <1>3 DEF BenchInv, BenchTypes, CommandInv

LEMMA ChangedSource ==
    ASSUME repo \in Repos, repo.source \notin {Nothing, Partial}, NEW p \in Patches
    PROVE  [repo EXCEPT !.source.tree.patch = p] \in Repos
<1>1. repo.source \in [base : Bases, patch : Patches, tree : Trees]
  BY DEF Repos, Sources
<1>2. [repo.source.tree EXCEPT !.patch = p] \in Trees
  BY <1>1 DEF Trees
<1>3. [repo.source EXCEPT !.tree = [repo.source.tree EXCEPT !.patch = p]] \in Sources
  BY <1>1, <1>2 DEF Sources
<1>4. [repo EXCEPT !.source.tree.patch = p]
        = [repo EXCEPT !.source =
             [repo.source EXCEPT !.tree = [repo.source.tree EXCEPT !.patch = p]]]
  OBVIOUS
<1> QED
  BY <1>3, <1>4 DEF Repos

LEMMA ChangeBench ==
    ASSUME BenchInv, Change
    PROVE  BenchInv'
<1>1. step' = "idle" /\ built' = built /\ workdir \in Workdirs /\ repo \in Repos
  BY DEF Change, AtRest, BenchInv, BenchTypes
<1>2. workdir' \in Workdirs
  <2>1. \/ workdir' = workdir
        \/ \E t \in {"edited", "hidden"} : workdir' = [workdir EXCEPT !.tree.text = t]
        \/ workdir' \in {[workdir EXCEPT !.status = "dirty"], [workdir EXCEPT !.head = "other"]}
    BY DEF Change
  <2>2. \A t \in {"edited", "hidden"} : [workdir EXCEPT !.tree.text = t] \in Workdirs
    BY <1>1 DEF Workdirs, Trees
  <2>3. /\ [workdir EXCEPT !.status = "dirty"] \in Workdirs
        /\ [workdir EXCEPT !.head = "other"] \in Workdirs
    BY <1>1 DEF Workdirs
  <2> QED
    BY <1>1, <2>1, <2>2, <2>3
<1>3. repo' \in Repos
  <2>1. CASE repo' = repo
    BY <1>1, <2>1
  <2>2. CASE \E p \in Patches : repo' = [repo EXCEPT !.patch = p]
    BY <1>1, <2>2 DEF Repos
  <2>3. CASE repo' = [repo EXCEPT !.fixtures = 3 - @]
    <3>1. repo.fixtures \in {1, 2} /\ 3 - repo.fixtures \in {1, 2}
      BY <1>1 DEF Repos
    <3> QED
      BY <1>1, <2>3, <3>1 DEF Repos
  <2>4. CASE repo.source \notin {Nothing, Partial}
             /\ \E p \in Patches : repo' = [repo EXCEPT !.source.tree.patch = p]
    BY <1>1, <2>4, ChangedSource
  <2>5. \/ repo' = repo
        \/ \E p \in Patches : repo' = [repo EXCEPT !.patch = p]
        \/ repo' = [repo EXCEPT !.fixtures = 3 - @]
        \/ /\ repo.source \notin {Nothing, Partial}
           /\ \E p \in Patches : repo' = [repo EXCEPT !.source.tree.patch = p]
    BY DEF Change
  <2> QED
    BY <2>1, <2>2, <2>3, <2>4, <2>5
<1> QED
  BY <1>1, <1>2, <1>3, AtRestAgain

\* The machine of a cell is gone once the cell is staged.
LEMMA StageBench ==
    ASSUME BenchInv, NEW c \in Cells, Stage(c)
    PROVE  BenchInv'
<1>1. step' = "idle" /\ repo' = repo /\ workdir' = NoCheckout /\ built' = [d \in Cells |-> Nothing]
  BY DEF Stage, AtRest
<1> QED
  BY <1>1, PinnedTreeType, NamesItsSourceDefPrime DEF BenchInv, BenchTypes, CommandInv

LEMMA KeptBench ==
    ASSUME BenchInv, UNCHANGED <<repo, bench>>
    PROVE  BenchInv'
<1>1. UNCHANGED <<repo, workdir, wheelhouse, built, step, order>>
  BY DEF bench
<1> QED
  BY <1>1, NamesItsSourceDef, NamesItsSourceDefPrime
     DEF BenchInv, BenchTypes, CommandInv, Compiles, TreeUnchanged, GitClean

-----------------------------------------------------------------------------
(***************************************************************************)
(* The shelf: what is staged, tested, indexed, committed and published.    *)
(***************************************************************************)
\* Steps on the build machine leave the shelf and what is published alone.
LEMMA KeptShelf ==
    ASSUME ShelfInv, PublishedInv, UNCHANGED <<shelf, published, tried>>
    PROVE  ShelfInv' /\ PublishedInv'
<1>1. UNCHANGED <<staged, evidence, index, committed, release, verdict, tried>>
  BY DEF shelf, published
<1> QED
  BY <1>1 DEF ShelfInv, PublishedInv, NamesItsSource, Tested, ReleaseIsOneBuild

LEMMA StageShelf ==
    ASSUME BenchInv, ShelfInv, PublishedInv, NEW c \in Cells, Stage(c)
    PROVE  ShelfInv' /\ PublishedInv'
<1>1. PICK wheel :
        /\ wheel = built[c].wheel
        /\ staged' = [staged EXCEPT ![c] = [build |-> built[c], wheel |-> wheel]]
  BY DEF Stage, Bound
<1>2. /\ built[c] \notin {Nothing, Partial}
      /\ UNCHANGED <<evidence, index, committed, release, verdict, tried>>
  BY DEF Stage, published
<1>3. NamesItsSource(c, built[c])
  BY <1>2, NamesItsSourceDef DEF BenchInv
<1>4. \A d \in Cells : staged'[d] # Nothing =>
          NamesItsSource(d, staged'[d].build) /\ staged'[d].wheel = staged'[d].build.wheel
  <2> SUFFICES ASSUME NEW d \in Cells, staged'[d] # Nothing
               PROVE  NamesItsSource(d, staged'[d].build) /\ staged'[d].wheel = staged'[d].build.wheel
    OBVIOUS
  <2>1. CASE d = c
    <3>1. staged'[c] = [build |-> built[c], wheel |-> wheel]
      BY <1>1 DEF ShelfInv
    <3> QED
      BY <1>1, <1>3, <2>1, <3>1
  <2>2. CASE d # c
    <3>1. staged'[d] = staged[d]
      BY <1>1, <2>2 DEF ShelfInv
    <3> QED
      BY <3>1 DEF ShelfInv
  <2> QED
    BY <2>1, <2>2
<1>5. staged' = [d \in Cells |-> staged'[d]]
  BY <1>1 DEF ShelfInv
<1>6. ShelfInv'
  BY <1>2, <1>4, <1>5 DEF ShelfInv, NamesItsSource, Tested
<1> QED
  BY <1>2, <1>6 DEF PublishedInv, NamesItsSource, Tested, ReleaseIsOneBuild

LEMMA SmokeShelf ==
    ASSUME ShelfInv, PublishedInv, NEW c \in Cells, SmokeLegalChoices(c)
    PROVE  ShelfInv' /\ PublishedInv'
<1> DEFINE found == [source |-> repo.source, build |-> staged[c].build,
                     wheel |-> staged[c].build.wheel, fixtures |-> repo.fixtures]
<1>1. /\ staged[c] # Nothing
      /\ evidence' = [evidence EXCEPT ![c] = found]
      /\ tried' = tried \cup {staged[c].wheel}
      /\ UNCHANGED <<staged, index, committed, release, verdict>>
  BY DEF SmokeLegalChoices, published
<1>2. found.wheel \in tried'
  BY <1>1 DEF ShelfInv
<1> HIDE DEF found
<1>3. \A d \in Cells : evidence'[d] # Nothing => evidence'[d].wheel \in tried'
  BY <1>1, <1>2 DEF ShelfInv
<1>4. evidence' = [d \in Cells |-> evidence'[d]]
  BY <1>1 DEF ShelfInv
<1>5. \A i : Tested(i) => Tested(i)'
  BY <1>1 DEF Tested
<1>6. ShelfInv'
  BY <1>1, <1>3, <1>4 DEF ShelfInv, NamesItsSource, Tested
<1> QED
  BY <1>1, <1>6 DEF PublishedInv, NamesItsSource, Tested, ReleaseIsOneBuild

LEMMA IndexShelf ==
    ASSUME ShelfInv, PublishedInv, NEW status \in {"candidate", "available"}, CreateIndex(status)
    PROVE  ShelfInv' /\ PublishedInv'
<1>1. /\ index' = [status |-> status, source |-> repo.source,
                   builds |-> [c \in Cells |-> staged[c].build]]
      /\ UNCHANGED <<staged, evidence, committed, release, verdict, tried>>
      /\ \A c \in Cells : status = "available" => EvidenceFits(c)
  BY DEF CreateIndex, published
<1>2. index'.status = "available" => \A c \in Cells : index'.builds[c].wheel \in tried
  <2> SUFFICES ASSUME index'.status = "available", NEW c \in Cells
               PROVE  index'.builds[c].wheel \in tried
    OBVIOUS
  <2>1. status = "available" /\ index'.builds[c] = staged[c].build
    BY <1>1
  <2>2. EvidenceFits(c)
    BY <1>1, <2>1
  <2>3. evidence[c] # Nothing /\ evidence[c].wheel = staged[c].build.wheel
    BY <2>2 DEF EvidenceFits
  <2> QED
    BY <2>1, <2>3 DEF ShelfInv
<1>3. ShelfInv'
  BY <1>1, <1>2 DEF ShelfInv, NamesItsSource, Tested
<1> QED
  BY <1>1, <1>3 DEF PublishedInv, NamesItsSource, Tested, ReleaseIsOneBuild

LEMMA CommitShelf ==
    ASSUME ShelfInv, PublishedInv, CommitManifests
    PROVE  ShelfInv' /\ PublishedInv'
<1>1. /\ index # Nothing /\ committed = Nothing /\ \A c \in Cells : staged[c] # Nothing
      /\ committed' = Manifests /\ UNCHANGED <<staged, evidence, index, release, verdict, tried>>
  BY DEF CommitManifests, shelf
<1>2. /\ committed'.index = index
      /\ \A c \in Cells : committed'.builds[c] = staged[c].build
  BY <1>1 DEF Manifests
<1>3. verdict' # "verified"
  BY <1>1 DEF PublishedInv
<1>4. ShelfInv'
  BY <1>1 DEF ShelfInv, NamesItsSource, Tested
<1>5. Tested(index)
  BY <1>1 DEF ShelfInv
<1>6. Tested(committed.index)'
  BY <1>1, <1>2, <1>5 DEF Tested
<1>7. \A c \in Cells : NamesItsSource(c, committed'.builds[c])
  BY <1>1, <1>2 DEF ShelfInv
<1> QED
  BY <1>3, <1>4, <1>6, <1>7 DEF PublishedInv, ReleaseIsOneBuild

LEMMA PublishShelf ==
    ASSUME ShelfInv, PublishedInv, Publish
    PROVE  ShelfInv' /\ PublishedInv'
<1>1. release = Nothing /\ UNCHANGED <<staged, evidence, index, committed, verdict, tried>>
  BY DEF Publish, shelf
<1>2. ShelfInv'
  BY <1>1 DEF ShelfInv, NamesItsSource, Tested
<1> QED
  BY <1>1, <1>2 DEF PublishedInv, NamesItsSource, Tested, ReleaseIsOneBuild

LEMMA VerifyShelf ==
    ASSUME ShelfInv, PublishedInv, VerifyRelease
    PROVE  ShelfInv' /\ PublishedInv'
<1>1. /\ release # Nothing /\ committed # Nothing
      /\ verdict' = IF ReleaseCloses THEN "verified" ELSE "refused"
      /\ UNCHANGED <<staged, evidence, index, committed, release, tried>>
  BY DEF VerifyRelease, shelf
<1>2. ShelfInv'
  BY <1>1 DEF ShelfInv, NamesItsSource, Tested
<1>3. ASSUME ReleaseCloses, NEW c \in Cells
      PROVE  /\ release.wheels[c].cell = c /\ release.wheels[c] \in tried
             /\ release.wheels[c].tree = [text |-> "lf", patch |-> committed.source.patch]
  <2> DEFINE m == release.manifests
             wheel == release.wheels[c]
             build == m.builds[c]
  <2>1. /\ m = committed /\ build.version = 2 /\ build.source = m.source
        /\ wheel.cell = build.cell /\ wheel = build.wheel /\ build.cell = c
        /\ m.index.status = "available" /\ m.index.builds[c] = build
    BY <1>3 DEF ReleaseCloses, Bound, WheelFits
  <2>2. Tested(committed.index) /\ NamesItsSource(c, committed.builds[c])
    BY <1>1 DEF PublishedInv
  <2> HIDE DEF m, wheel
  <2>3. wheel \in tried
    BY <2>1, <2>2 DEF Tested
  <2>4. wheel.tree = [text |-> "lf", patch |-> committed.source.patch]
    BY <2>1, <2>2 DEF NamesItsSource
  <2> QED
    BY <2>1, <2>3, <2>4 DEF wheel
<1>4. ReleaseIsOneBuild'
  BY <1>1, <1>3 DEF ReleaseIsOneBuild
<1> QED
  BY <1>1, <1>2, <1>4 DEF PublishedInv, NamesItsSource, Tested

LEMMA WorldShelf ==
    ASSUME ShelfInv, PublishedInv, Remove \/ Change
    PROVE  ShelfInv' /\ PublishedInv'
<1>1. /\ UNCHANGED <<staged, evidence, committed, tried>> /\ index' \in {index, Nothing}
      /\ UNCHANGED <<release, verdict>> \/ verdict' = "none"
  BY DEF Remove, Change, shelf
<1>2. ShelfInv'
  BY <1>1 DEF ShelfInv, NamesItsSource, Tested
<1> QED
  BY <1>1, <1>2 DEF PublishedInv, NamesItsSource, Tested, ReleaseIsOneBuild

LEMMA ReleaseGoesOn == ReleaseInv /\ [ReleaseNext]_releaseVars => ReleaseInv'
<1> SUFFICES ASSUME ReleaseInv, [ReleaseNext]_releaseVars PROVE ReleaseInv'
  OBVIOUS
<1> USE DEF ReleaseInv
<1>1. CASE \/ Acquire \/ AcquireFails \/ Source \/ BeginCommand \/ Normalize \/ WriteSource
           \/ ApplyPatch \/ PatchRefused \/ CompileRefused \/ Compile \/ CompileBadly
           \/ Bind \/ Crash
  <2>1. BenchInv'
    BY <1>1, AcquireBench, SourceBench, BeginCommandBench, NormalizeBench, WriteSourceBench,
       ApplyPatchBench, RefusedBench, CompileBench, CompileBadlyBench, BindBench, CrashBench
  <2>2. UNCHANGED <<shelf, published, tried>>
    BY <1>1 DEF Acquire, AcquireFails, Source, BeginCommand, Normalize, WriteSource, ApplyPatch,
                PatchRefused, CompileRefused, Compile, CompileBadly, Bind, Crash, benchFrame
  <2> QED
    BY <2>1, <2>2, KeptShelf
<1>2. CASE \E c \in Cells : Stage(c)
  BY <1>2, StageBench, StageShelf
<1>3. CASE \/ \E c \in Cells : SmokeLegalChoices(c)
           \/ \E status \in {"candidate", "available"} : CreateIndex(status)
           \/ CommitManifests \/ Publish \/ VerifyRelease
  <2>1. UNCHANGED <<repo, bench>>
    BY <1>3 DEF SmokeLegalChoices, CreateIndex, CommitManifests, Publish, VerifyRelease, releaseFrame
  <2> QED
    BY <1>3, <2>1, KeptBench, SmokeShelf, IndexShelf, CommitShelf, PublishShelf, VerifyShelf
<1>4. CASE Remove \/ Change
  BY <1>4, RemoveBench, ChangeBench, WorldShelf
<1>5. CASE UNCHANGED releaseVars
  BY <1>5, KeptBench, KeptShelf DEF releaseVars
<1> QED
  BY <1>1, <1>2, <1>3, <1>4, <1>5 DEF ReleaseNext

(***************************************************************************)
(* A build manifest that the build tool has written names the cell and the *)
(* tree its wheel was compiled from, whatever was done to the checkout,    *)
(* the patch and the source manifest before, and wherever an earlier       *)
(* command was stopped.                                                    *)
(***************************************************************************)
THEOREM ManifestsNameTheirSource == ReleaseSpec => []ManifestNamesItsSource
<1>1. ReleaseInv => ManifestNamesItsSource
  BY DEF ReleaseInv, BenchInv
<1> QED
  BY <1>1, ReleaseBegins, ReleaseGoesOn, PTL DEF ReleaseSpec

(***************************************************************************)
(* A published release that verify_published_release_v2 accepts consists   *)
(* of wheels of its committed source, each for its cell and each found     *)
(* healthy by a sentinel.                                                  *)
(***************************************************************************)
THEOREM ReleasesAreOneBuild == ReleaseSpec => []ReleaseIsOneBuild
<1>1. ReleaseInv => ReleaseIsOneBuild
  BY DEF ReleaseInv, PublishedInv
<1> QED
  BY <1>1, ReleaseBegins, ReleaseGoesOn, PTL DEF ReleaseSpec

-----------------------------------------------------------------------------
(***************************************************************************)
(* A chain of checks is passed if every check holds, and gives the class   *)
(* of a check that does not hold otherwise.                                *)
(***************************************************************************)
LEMMA Least ==
    ASSUME NEW T, T \subseteq Nat, T # {}
    PROVE  \E n \in T : \A m \in T : n <= m
<1> DEFINE R == {ss \in Nat \X Nat : ss[1] < ss[2]}
<1>1. IsWellFoundedOn(R, Nat)
  BY NatLessThanWellFounded DEF OpToRel
<1>2. PICK n \in T : \A m \in T : ~ (<<m, n>> \in R)
  BY <1>1, WFMin
<1>3. ASSUME NEW m \in T PROVE n <= m
  <2>1. ~(<<m, n>> \in R)
    BY <1>2
  <2>2. m \in Nat /\ n \in Nat
    OBVIOUS
  <2>3. <<m, n>> \in Nat \X Nat /\ <<m, n>>[1] = m /\ <<m, n>>[2] = n
    BY <2>2
  <2>4. ~(m < n)
    BY <2>1, <2>3
  <2> QED
    BY <2>2, <2>4
<1> QED
  BY <1>3

LEMMA FirstOfTheChecks ==
    ASSUME NEW N \in Nat, NEW checks, DOMAIN checks = 1..N
    PROVE  /\ (\A i \in 1..N : checks[i][1]) => FirstFailure(checks) = "ok"
           /\ \A n \in 1..N : ~checks[n][1] /\ (\A i \in 1..N : i < n => checks[i][1]) =>
                 FirstFailure(checks) = checks[n][2]
<1> DEFINE failing == {i \in DOMAIN checks : ~checks[i][1]}
           first == CHOOSE i \in failing : \A j \in failing : i <= j
<1>1. FirstFailure(checks) = IF failing = {} THEN "ok" ELSE checks[first][2]
  BY DEF FirstFailure, FirstReport
<1>2. ASSUME NEW n \in 1..N, ~checks[n][1], \A i \in 1..N : i < n => checks[i][1]
      PROVE  FirstFailure(checks) = checks[n][2]
  <2>1. n \in failing /\ \A j \in failing : n <= j
    BY <1>2
  <2>2. first \in failing /\ \A j \in failing : first <= j
    BY <2>1
  <2>3. first = n
    BY <2>1, <2>2, failing \subseteq Nat
  <2> QED
    BY <1>1, <2>1, <2>3
<1>3. (\A i \in 1..N : checks[i][1]) => FirstFailure(checks) = "ok"
  BY <1>1
<1> QED
  BY <1>2, <1>3

\* Checks that report more than a class: either all hold, or one reports.
LEMMA SomeCheckReports ==
    ASSUME NEW N \in Nat, NEW checks, DOMAIN checks = 1..N, NEW passed
    PROVE  \/ FirstReport(checks, passed) = passed /\ \A i \in 1..N : checks[i][1]
           \/ \E i \in 1..N : ~checks[i][1] /\ FirstReport(checks, passed) = checks[i][2]
<1> DEFINE failing == {i \in DOMAIN checks : ~checks[i][1]}
           first == CHOOSE i \in failing : \A j \in failing : i <= j
<1>1. FirstReport(checks, passed) = IF failing = {} THEN passed ELSE checks[first][2]
  BY DEF FirstReport
<1>2. CASE failing = {}
  BY <1>1, <1>2
<1>3. CASE failing # {}
  <2>1. PICK n \in failing : \A j \in failing : n <= j
    BY <1>3, Least, failing \subseteq Nat
  <2>2. first \in failing
    BY <2>1
  <2> QED
    BY <1>1, <1>3, <2>2
<1> QED
  BY <1>2, <1>3

LEMMA TwoChecks ==
    ASSUME NEW a, NEW x, NEW b, NEW y
    PROVE  FirstFailure(<<<<a, x>>, <<b, y>>>>) =
               IF ~a THEN x ELSE IF ~b THEN y ELSE "ok"
<1> DEFINE checks == <<<<a, x>>, <<b, y>>>>
<1>1. /\ DOMAIN checks = 1..2
      /\ checks[1][2] = x /\ checks[2][2] = y
  OBVIOUS
<1>2. checks[1][1] = a /\ checks[2][1] = b
  OBVIOUS
<1> HIDE DEF checks
<1>3. /\ (\A i \in 1..2 : checks[i][1]) => FirstFailure(checks) = "ok"
      /\ \A n \in 1..2 : ~checks[n][1] /\ (\A i \in 1..2 : i < n => checks[i][1]) =>
            FirstFailure(checks) = checks[n][2]
  BY <1>1, FirstOfTheChecks
<1>4. FirstFailure(checks) =
         IF ~a THEN x ELSE IF ~b THEN y ELSE "ok"
  BY <1>1, <1>2, <1>3
<1> QED
  BY <1>4 DEF checks

LEMMA ThreeChecks ==
    ASSUME NEW a, NEW x, NEW b, NEW y, NEW c, NEW z
    PROVE  FirstFailure(<<<<a, x>>, <<b, y>>, <<c, z>>>>) =
               IF ~a THEN x ELSE IF ~b THEN y ELSE IF ~c THEN z ELSE "ok"
<1> DEFINE checks == <<<<a, x>>, <<b, y>>, <<c, z>>>>
<1>1. /\ DOMAIN checks = 1..3
      /\ checks[1][2] = x /\ checks[2][2] = y /\ checks[3][2] = z
  OBVIOUS
<1>2. checks[1][1] = a /\ checks[2][1] = b /\ checks[3][1] = c
  OBVIOUS
<1> HIDE DEF checks
<1>3. /\ (\A i \in 1..3 : checks[i][1]) => FirstFailure(checks) = "ok"
      /\ \A n \in 1..3 : ~checks[n][1] /\ (\A i \in 1..3 : i < n => checks[i][1]) =>
            FirstFailure(checks) = checks[n][2]
  BY <1>1, FirstOfTheChecks
<1>4. FirstFailure(checks) =
         IF ~a THEN x ELSE IF ~b THEN y ELSE IF ~c THEN z ELSE "ok"
  BY <1>1, <1>2, <1>3
<1> QED
  BY <1>4 DEF checks

LEMMA FourChecks ==
    ASSUME NEW a, NEW x, NEW b, NEW y, NEW c, NEW z, NEW d, NEW w
    PROVE  FirstFailure(<<<<a, x>>, <<b, y>>, <<c, z>>, <<d, w>>>>) =
               IF ~a THEN x ELSE IF ~b THEN y ELSE IF ~c THEN z ELSE IF ~d THEN w ELSE "ok"
<1> DEFINE checks == <<<<a, x>>, <<b, y>>, <<c, z>>, <<d, w>>>>
<1>1. /\ DOMAIN checks = 1..4
      /\ checks[1][2] = x /\ checks[2][2] = y /\ checks[3][2] = z /\ checks[4][2] = w
  OBVIOUS
<1>2. checks[1][1] = a /\ checks[2][1] = b /\ checks[3][1] = c /\ checks[4][1] = d
  OBVIOUS
<1> HIDE DEF checks
<1>3. /\ (\A i \in 1..4 : checks[i][1]) => FirstFailure(checks) = "ok"
      /\ \A n \in 1..4 : ~checks[n][1] /\ (\A i \in 1..4 : i < n => checks[i][1]) =>
            FirstFailure(checks) = checks[n][2]
  BY <1>1, FirstOfTheChecks
<1>4. FirstFailure(checks) =
         IF ~a THEN x ELSE IF ~b THEN y ELSE IF ~c THEN z ELSE IF ~d THEN w ELSE "ok"
  BY <1>1, <1>2, <1>3
<1> QED
  BY <1>4 DEF checks

LEMMA FiveChecks ==
    ASSUME NEW a, NEW x, NEW b, NEW y, NEW c, NEW z, NEW d, NEW w, NEW e, NEW v
    PROVE  FirstFailure(<<<<a, x>>, <<b, y>>, <<c, z>>, <<d, w>>, <<e, v>>>>) =
               IF ~a THEN x ELSE IF ~b THEN y ELSE IF ~c THEN z ELSE IF ~d THEN w ELSE IF ~e THEN v ELSE "ok"
<1> DEFINE checks == <<<<a, x>>, <<b, y>>, <<c, z>>, <<d, w>>, <<e, v>>>>
<1>1. /\ DOMAIN checks = 1..5
      /\ checks[1][2] = x /\ checks[2][2] = y /\ checks[3][2] = z /\ checks[4][2] = w /\ checks[5][2] = v
  OBVIOUS
<1>2. checks[1][1] = a /\ checks[2][1] = b /\ checks[3][1] = c /\ checks[4][1] = d /\ checks[5][1] = e
  OBVIOUS
<1> HIDE DEF checks
<1>3. /\ (\A i \in 1..5 : checks[i][1]) => FirstFailure(checks) = "ok"
      /\ \A n \in 1..5 : ~checks[n][1] /\ (\A i \in 1..5 : i < n => checks[i][1]) =>
            FirstFailure(checks) = checks[n][2]
  BY <1>1, FirstOfTheChecks
<1>4. FirstFailure(checks) =
         IF ~a THEN x ELSE IF ~b THEN y ELSE IF ~c THEN z ELSE IF ~d THEN w ELSE IF ~e THEN v ELSE "ok"
  BY <1>1, <1>2, <1>3
<1> QED
  BY <1>4 DEF checks

-----------------------------------------------------------------------------
(***************************************************************************)
(* What verification accepts is the released wheel.                        *)
(***************************************************************************)
LEMMA LoadedChecks ==
    ASSUME NEW document \in {"canonical", "altered", "missing"}, NEW rest
    PROVE  Loaded(document, rest) = "ok" => document = "canonical" /\ rest = "ok"
BY DEF Loaded

LEMMA InstallationReleased ==
    ASSUME NEW i, Installation(i), {i.index, i.source, i.build} = {"canonical"}
    PROVE  IsReleased(i)
<1>1. /\ DOMAIN i.wheel \subseteq DOMAIN i.record
      /\ DOMAIN i.record \subseteq DOMAIN i.wheel \cup Added
      /\ FilesAgree(i) /\ DOMAIN i.disk = DOMAIN i.record /\ DirectUrl(i)
  BY DEF Installation
<1>2. ASSUME NEW p \in DOMAIN i.wheel \ {"RECORD"}
      PROVE  p \in DOMAIN i.disk /\ i.disk[p] = i.wheel[p]
  BY <1>1, <1>2 DEF FilesAgree
<1>3. i.url = IF i.staged = "none" THEN "release" ELSE "staged"
  BY <1>1 DEF DirectUrl
<1> QED
  BY <1>1, <1>2, <1>3 DEF IsReleased

LEMMA VerifiedReleased ==
    ASSUME NEW i \in Installations, VerifyInstalledArtifact(i) = "ok"
    PROVE  IsReleased(i)
<1> DEFINE cell == CellFailure(i)
           closure == ManifestClosure(i)
           wheel == StagedWheel(i)
           celled == cell = "ok"
           closed == closure = "ok"
           wheeled == wheel = "ok"
           versioned == i.version # "none"
           installed == Installation(i)
           class == FirstFailure(
             <<<<celled, cell>>, <<closed, closure>>, <<wheeled, wheel>>,
               <<versioned, "extra_unavailable">>, <<installed, "artifact_mismatch">>>>)
<1>1. /\ i.index \in {"canonical", "altered", "missing"}
      /\ i.source \in {"canonical", "altered", "missing"}
      /\ i.build \in {"canonical", "altered", "missing"}
  BY InstallationsAssumption
<1>2. i.index = "canonical" /\ class = "ok"
  <2>1. Loaded(i.index, class) = "ok"
    BY DEF VerifyInstalledArtifact
  <2> HIDE DEF class
  <2> QED
    BY <1>1, <2>1, LoadedChecks
<1>3. closure = "ok" /\ Installation(i)
  <2> HIDE DEF closure, cell, wheel, celled, closed, wheeled, versioned, installed
  <2>1. class = IF ~celled THEN cell ELSE IF ~closed THEN closure ELSE IF ~wheeled THEN wheel
                ELSE IF ~versioned THEN "extra_unavailable"
                ELSE IF ~installed THEN "artifact_mismatch" ELSE "ok"
    BY FiveChecks
  <2> HIDE DEF class
  <2> QED
    BY <1>2, <2>1 DEF celled, closed, wheeled, installed
<1>4. i.source = "canonical" /\ i.build = "canonical"
  <2> DEFINE status == IF i.status = "available" \/ (i.staged # "none" /\ i.status = "candidate")
                       THEN "ok" ELSE "artifact_mismatch"
             inner == Loaded(i.build, status)
  <2>1. Loaded(i.source, inner) = "ok"
    BY <1>3 DEF ManifestClosure
  <2>2. i.source = "canonical" /\ inner = "ok"
    <3> HIDE DEF inner
    <3> QED
      BY <1>1, <2>1, LoadedChecks
  <2>3. i.build = "canonical"
    <3> HIDE DEF status
    <3> QED
      BY <1>1, <2>2, LoadedChecks
  <2> QED
    BY <2>2, <2>3
<1> QED
  BY <1>2, <1>3, <1>4, InstallationReleased

\* Neither verification nor the probe fails with the word for success.
LEMMA VerificationSpeaks ==
    ASSUME NEW i \in Installations
    PROVE  VerifyInstalledArtifact(i) # "available"
<1> DEFINE cell == CellFailure(i)
           closure == ManifestClosure(i)
           wheel == StagedWheel(i)
           celled == cell = "ok"
           closed == closure = "ok"
           wheeled == wheel = "ok"
           versioned == i.version # "none"
           installed == Installation(i)
           class == FirstFailure(
             <<<<celled, cell>>, <<closed, closure>>, <<wheeled, wheel>>,
               <<versioned, "extra_unavailable">>, <<installed, "artifact_mismatch">>>>)
<1>1. /\ i.index \in {"canonical", "altered", "missing"}
      /\ i.source \in {"canonical", "altered", "missing"}
      /\ i.build \in {"canonical", "altered", "missing"}
      /\ i.staged \in {"none", "exact", "altered", "unreadable"}
  BY InstallationsAssumption
<1>2. cell # "available"
  BY DEF CellFailure
<1>3. closure # "available"
  <2> DEFINE status == IF i.status = "available" \/ (i.staged # "none" /\ i.status = "candidate")
                       THEN "ok" ELSE "artifact_mismatch"
             inner == Loaded(i.build, status)
  <2>1. inner # "available"
    BY <1>1 DEF Loaded
  <2>2. closure = Loaded(i.source, inner)
    BY DEF ManifestClosure
  <2> HIDE DEF inner, closure
  <2> QED
    BY <1>1, <2>1, <2>2 DEF Loaded
<1>4. wheel # "available"
  BY <1>1 DEF StagedWheel
<1>5. VerifyInstalledArtifact(i) = Loaded(i.index, class)
  BY DEF VerifyInstalledArtifact
<1>6. class # "available"
  <2> HIDE DEF cell, closure, wheel, celled, closed, wheeled, versioned, installed
  <2>1. class = IF ~celled THEN cell ELSE IF ~closed THEN closure ELSE IF ~wheeled THEN wheel
                ELSE IF ~versioned THEN "extra_unavailable"
                ELSE IF ~installed THEN "artifact_mismatch" ELSE "ok"
    BY FiveChecks
  <2> HIDE DEF class
  <2> QED
    BY <1>2, <1>3, <1>4, <2>1
<1> HIDE DEF class
<1> QED
  BY <1>1, <1>5, <1>6 DEF Loaded

LEMMA ProbeSpeaks ==
    ASSUME NEW fixtures, NEW import,
           NEW native \in {"sound", "wrong", "raises", "no_choices", "unserializable"}
    PROVE  /\ ProbeFailure(fixtures, import, native) # "available"
           /\ ProbeFailure(fixtures, import, native) = "ok" =>
                 ImportFailure(import) = "ok" /\ native = "sound"
<1> DEFINE imported == ImportFailure(import)
           probed == LegalChoiceProbe(native)
           importing == imported = "ok"
           probing == probed = "ok"
           class == ProbeFailure(fixtures, import, native)
<1>1. imported # "available"
  BY DEF ImportFailure
<1>2. probed # "available" /\ (probed = "ok" => native = "sound")
  BY DEF LegalChoiceProbe
<1>3. class = FirstFailure(<<<<fixtures, "sentinel_failed">>, <<importing, imported>>,
                             <<probing, probed>>>>)
  BY DEF ProbeFailure
<1> HIDE DEF imported, probed, importing, probing, class
<1>4. class = IF ~fixtures THEN "sentinel_failed" ELSE IF ~importing THEN imported
              ELSE IF ~probing THEN probed ELSE "ok"
  BY <1>3, ThreeChecks
<1>5. /\ class # "available"
      /\ class = "ok" => imported = "ok" /\ probed = "ok"
  BY <1>1, <1>2, <1>4 DEF importing, probing
<1> QED
  BY <1>2, <1>5 DEF class, imported

\* What initialization and the sentinel say of one installation.
LEMMA InitializationReleased ==
    ASSUME NEW i \in Installations, NEW s \in Setups,
           NEW class, class = Initialization(i, s.catalog, s.adapter, s.import, s.native),
           NEW found, found = Sentinel(i, s.fixtures, s.import, s.native)
    PROVE  /\ class = "ok" \/ found = "available" => IsReleased(i)
           /\ found = "available" =>
                 class \in {"ok", "capability_ambiguity", "adapter_identity_mismatch"}
<1> DEFINE artifact == VerifyInstalledArtifact(i)
           imported == ImportFailure(s.import) = "ok" /\ s.native # "no_choices"
           probe == ProbeFailure(s.fixtures, s.import, s.native)
           matching == artifact # "artifact_mismatch"
           verified == artifact = "ok"
<1>1. class = FirstFailure(
          <<<<s.catalog, "capability_ambiguity">>, <<s.adapter, "adapter_identity_mismatch">>,
            <<matching, "artifact_identity_mismatch">>, <<verified, "backend_unavailable">>,
            <<imported, "adapter_identity_mismatch">>>>)
  BY DEF Initialization
<1>2. found = IF artifact # "ok" THEN artifact ELSE IF probe # "ok" THEN probe ELSE "available"
  BY DEF Sentinel
<1>3. s.native \in {"sound", "wrong", "raises", "no_choices", "unserializable"}
  BY InstallationsAssumption
<1>4. artifact # "available" /\ (artifact = "ok" => IsReleased(i))
  BY VerificationSpeaks, VerifiedReleased
<1>5. probe # "available" /\ (probe = "ok" => ImportFailure(s.import) = "ok" /\ s.native = "sound")
  BY <1>3, ProbeSpeaks
<1>6. probe = "ok" => imported
  BY <1>5
<1> HIDE DEF artifact, imported, probe, matching, verified
<1>7. class = IF ~s.catalog THEN "capability_ambiguity"
              ELSE IF ~s.adapter THEN "adapter_identity_mismatch"
              ELSE IF ~matching THEN "artifact_identity_mismatch"
              ELSE IF ~verified THEN "backend_unavailable"
              ELSE IF ~imported THEN "adapter_identity_mismatch" ELSE "ok"
  BY <1>1, FiveChecks
<1> QED
  BY <1>2, <1>4, <1>5, <1>6, <1>7 DEF matching, verified

-----------------------------------------------------------------------------
(***************************************************************************)
(* The search.  A prepared world keeps the bindings of its root, and its   *)
(* views are what its path adds to them, one transition at a time.         *)
(***************************************************************************)
Rooted(world) ==
    /\ world.root.safe # {}
    /\ \E side : world.bindings = RootBindings(world.root, side)

\* The views of p along the path, the last of them the world's own.
Views(world, p, h) ==
    /\ h[1] = RootView(world.path[1], world.root.observed, p)
    /\ \A k \in 1..world.ply :
          h[k + 1] = NextView(h[k], world.path[k], world.path[k + 1], p,
                              PublicHp(world.root.observed))
    /\ world.views[p] = h[world.ply + 1]

Walked(world) ==
    /\ world = [root |-> world.root, state |-> world.state, path |-> world.path,
                bindings |-> world.bindings, views |-> world.views, ply |-> world.ply]
    /\ world.ply \in Nat
    /\ world.path = [k \in 1..(world.ply + 1) |-> world.path[k]]
    /\ world.path[world.ply + 1] = world.state
    /\ \A p \in Players : \E h : Views(world, p, h)

WorldsInv ==
    /\ worlds = [w \in WorldIds |-> worlds[w]]
    /\ \A w \in WorldIds : worlds[w] # None => Rooted(worlds[w]) /\ Walked(worlds[w])

\* The first part of ActionsStayWithTheirRoot.
PlayedAtHome ==
    last.call \in {"transition", "prepare_root"} /\ last.class = "ok" =>
        \A v \in last.value : v.played = v.owner

Accounts == asked \in Nat /\ WorkIsWhatTheEngineDid

SearchInv == WorldsInv /\ PlayedAtHome /\ Accounts /\ VerifiedMeansReleased

\* The fields of a call.
LEMMA CalledFields ==
    ASSUME NEW call, NEW class, NEW value, last' = Called(call, class, value)
    PROVE  last'.call = call /\ last'.class = class /\ last'.value = value
BY DEF Called

LEMMA IdleFields == Idle.call = "none" /\ Idle.class = "ok"
BY DEF Idle, Called

LEMMA ReportFields ==
    ASSUME NEW class, NEW work, NEW marks
    PROVE  /\ Report(class, work, marks).class = class /\ Report(class, work, marks).work = work
           /\ Report(class, work, marks).marks = marks
BY DEF Report

\* What the calls that ask for choices report costs nothing; it marks an exception.
LEMMA BindingReports ==
    ASSUME NEW fault, NEW mapping, NEW report, report = BindingReport(fault, mapping)
    PROVE  /\ report.work = 0
           /\ report.class = "ok" => mapping = "ok"
           /\ report.class = "native_exception" => report.marks \/ mapping = "native_exception"
<1> DEFINE malformed == Report("malformed_native_result", 0, TRUE)
           raising == Report("native_exception", 0, TRUE)
           strange == Report("malformed_native_result", 0, FALSE)
           unmapped == Report(mapping, 0, FALSE)
           passed == Report("ok", 0, FALSE)
           mapped == mapping = "ok"
           checks == <<<<fault # "from_string", malformed>>, <<fault # "choices_raise", raising>>,
                       <<fault # "choices_malformed", strange>>, <<mapped, unmapped>>>>
<1>1. report = FirstReport(checks, passed)
  BY DEF BindingReport
<1>2. \A r \in {malformed, raising, strange, unmapped, passed} :
         /\ r.work = 0
         /\ r.class = "native_exception" => r.marks \/ mapping = "native_exception"
  BY DEF Report
<1>3. /\ malformed.class # "ok" /\ raising.class # "ok" /\ strange.class # "ok"
      /\ unmapped.class = mapping
  BY DEF Report
<1> HIDE DEF malformed, raising, strange, unmapped, passed, mapped
<1>4. /\ DOMAIN checks = 1..4
      /\ checks[1][2] = malformed /\ checks[2][2] = raising
      /\ checks[3][2] = strange /\ checks[4][2] = unmapped
  OBVIOUS
<1>5. checks[4][1] = mapped
  OBVIOUS
<1> HIDE DEF checks
<1>6. \/ FirstReport(checks, passed) = passed /\ \A i \in 1..4 : checks[i][1]
      \/ \E i \in 1..4 : ~checks[i][1] /\ FirstReport(checks, passed) = checks[i][2]
  BY <1>4, SomeCheckReports
<1>7. report \in {malformed, raising, strange, unmapped} \/ (report = passed /\ checks[4][1])
  BY <1>1, <1>4, <1>6
<1>8. report = passed => mapping = "ok" \/ report \in {malformed, raising, strange, unmapped}
  BY <1>5, <1>7 DEF mapped
<1>9. CASE report \in {malformed, raising, strange, unmapped}
  BY <1>2, <1>3, <1>9
<1>10. CASE report = passed /\ mapping = "ok"
  BY <1>2, <1>10
<1> QED
  BY <1>7, <1>8, <1>9, <1>10

\* What the call that prepares a root reports.
LEMMA PrepareReports ==
    ASSUME NEW fault, NEW mapping, NEW report,
           \/ report = BindingReport(fault, mapping)
           \/ \E early : early # "ok" /\ report = Report(early, 0, FALSE)
    PROVE  report.work = 0 /\ (report.class = "ok" => mapping = "ok")
<1>1. CASE report = BindingReport(fault, mapping)
  BY <1>1, BindingReports
<1>2. CASE \E early : early # "ok" /\ report = Report(early, 0, FALSE)
  BY <1>2 DEF Report
<1> QED
  BY <1>1, <1>2

\* Once the engine was asked the one unit is reported; a list that is mapped
\* passed the checks, and an exception is marked.
LEMMA AnswerReports ==
    ASSUME NEW list, NEW fault, NEW report, report = AnswerReport(list, fault)
    PROVE  /\ report.work = 1
           /\ report.class = "ok" => list # << >> /\ \A i \in DOMAIN list : list[i].weight > 0
           /\ report.class = "native_exception" => report.marks
<1> DEFINE raising == Report("native_exception", 1, TRUE)
           malformed == Report("malformed_native_result", 1, FALSE)
           unfit == Report("chance_normalization_failure", 1, FALSE)
           passed == Report("ok", 1, FALSE)
           nonempty == list # << >>
           positive == \A i \in DOMAIN list : list[i].weight > 0
           whole == Distance(Sum([i \in DOMAIN list |-> list[i].weight]), FullMass) <= Tolerance
           checks == <<<<fault # "generate_raise", raising>>, <<nonempty, malformed>>,
                       <<positive, unfit>>, <<whole, unfit>>,
                       <<fault # "apply_raise", raising>>, <<fault # "serialize", malformed>>>>
<1>1. report = FirstReport(checks, passed)
  BY DEF AnswerReport, AnswerChecks
<1>2. /\ \A r \in {raising, malformed, unfit, passed} :
            r.work = 1 /\ (r.class = "native_exception" => r.marks)
      /\ raising.class # "ok" /\ malformed.class # "ok" /\ unfit.class # "ok"
  BY DEF Report
<1> HIDE DEF raising, malformed, unfit, passed, nonempty, positive, whole
<1>3. /\ DOMAIN checks = 1..6
      /\ checks[1][2] = raising /\ checks[2][2] = malformed /\ checks[3][2] = unfit
      /\ checks[4][2] = unfit /\ checks[5][2] = raising /\ checks[6][2] = malformed
  OBVIOUS
<1>4. checks[2][1] = nonempty /\ checks[3][1] = positive
  OBVIOUS
<1> HIDE DEF checks
<1>5. \/ FirstReport(checks, passed) = passed /\ \A i \in 1..6 : checks[i][1]
      \/ \E i \in 1..6 : ~checks[i][1] /\ FirstReport(checks, passed) = checks[i][2]
  BY <1>3, SomeCheckReports
<1>6. \/ report \in {raising, malformed, unfit}
      \/ report = passed /\ checks[2][1] /\ checks[3][1]
  BY <1>1, <1>3, <1>5
<1>7. CASE report \in {raising, malformed, unfit}
  BY <1>2, <1>7
<1>8. CASE report = passed /\ checks[2][1] /\ checks[3][1]
  <2>1. nonempty /\ positive
    BY <1>4, <1>8
  <2> QED
    BY <1>2, <1>8, <2>1 DEF nonempty, positive
<1> QED
  BY <1>6, <1>7, <1>8

\* What the mapper of actions may say of a pair.
LEMMA JointFailures ==
    ASSUME NEW world, NEW a1, NEW a2
    PROVE  JointBinding(world, a1, a2).failure # "native_exception"
<1>1. ASSUME NEW player, NEW action
      PROVE  BindingFailure(world, player, action)
               \in {"ok", "malformed_native_result", "invalid_joint_action"}
  <2> DEFINE first == AtRoot(world, player) \/ DeepFailure(LegalChoices(world.state, player)) = "ok"
             second == BindingFor(Bindings(world, player), action) # None
             class == BindingFailure(world, player, action)
  <2>1. class = FirstFailure(<<<<first, "malformed_native_result">>,
                               <<second, "invalid_joint_action">>>>)
    BY DEF BindingFailure
  <2> HIDE DEF first, second, class
  <2>2. class = IF ~first THEN "malformed_native_result"
                ELSE IF ~second THEN "invalid_joint_action" ELSE "ok"
    BY <2>1, TwoChecks
  <2> QED
    BY <2>2 DEF class
<1> DEFINE f1 == BindingFailure(world, "p1", a1)
           f2 == BindingFailure(world, "p2", a2)
<1>2. JointBinding(world, a1, a2).failure = IF f1 # "ok" THEN f1 ELSE f2
  BY DEF JointBinding
<1>3. f1 # "native_exception" /\ f2 # "native_exception"
  BY <1>1
<1> HIDE DEF f1, f2
<1> QED
  BY <1>2, <1>3

\* A step that leaves every world where it is keeps the account when it
\* reports no work and asks for nothing.
LEMMA FreeOfCharge ==
    ASSUME Accounts, spent' = spent, asked' = asked, worlds' = worlds \/ Plies' = Plies,
           last'.call = "transition" /\ last'.class = "native_exception" => health' = "unhealthy"
    PROVE  Accounts'
<1>1. Plies' = Plies
  BY DEF Plies, PlyOf, Prepared
<1> QED
  BY <1>1 DEF Accounts, WorkIsWhatTheEngineDid

LEMMA SearchBegins == SearchInit => SearchInv
<1> SUFFICES ASSUME SearchInit PROVE SearchInv
  OBVIOUS
<1>1. WorldsInv
  BY DEF SearchInit, WorldsInv
<1> QED
  BY <1>1, IdleFields DEF SearchInit, SearchInv, PlayedAtHome, Accounts, WorkIsWhatTheEngineDid,
                          VerifiedMeansReleased, Plies, PlyOf, Prepared, WorldIds

\* A step that prepares and plays nothing, and calls nothing or returns.
LEMMA QuietSearch ==
    ASSUME SearchInv, UNCHANGED <<worlds, health, spent, asked, engine>>,
           UNCHANGED last \/ last' = Idle
    PROVE  SearchInv'
<1>1. WorldsInv'
  BY DEF SearchInv, WorldsInv, Rooted, Walked, Views
<1>2. PlayedAtHome' /\ VerifiedMeansReleased'
  BY IdleFields DEF SearchInv, PlayedAtHome, VerifiedMeansReleased
<1>3. Accounts'
  BY IdleFields, FreeOfCharge DEF SearchInv, Accounts, WorkIsWhatTheEngineDid
<1> QED
  BY <1>1, <1>2, <1>3 DEF SearchInv

LEMMA InitializeSearch ==
    ASSUME SearchInv, NEW i \in Installations, NEW s \in Setups, Initialize(i, s)
    PROVE  SearchInv'
<1> DEFINE found == Sentinel(i, s.fixtures, s.import, s.native)
<1>1. /\ engine' = Initialization(i, s.catalog, s.adapter, s.import, s.native)
      /\ last' = Called("initialize", engine', {<<i, found>>})
      /\ UNCHANGED <<health, worlds, spent, asked>>
  BY DEF Initialize
<1>2. last'.call = "initialize" /\ last'.value = {<<i, found>>}
  BY <1>1, CalledFields
<1>3. /\ engine' = "ok" \/ found = "available" => IsReleased(i)
      /\ found = "available" =>
            engine' \in {"ok", "capability_ambiguity", "adapter_identity_mismatch"}
  BY <1>1, InitializationReleased
<1> HIDE DEF found
<1>4. VerifiedMeansReleased'
  <2> SUFFICES ASSUME NEW v \in last'.value
               PROVE  /\ engine' = "ok" \/ v[2] = "available" => IsReleased(v[1])
                      /\ v[2] = "available" => engine' \in {"ok", "capability_ambiguity",
                                                            "adapter_identity_mismatch"}
    BY DEF VerifiedMeansReleased
  <2>1. v[1] = i /\ v[2] = found
    BY <1>2
  <2> QED
    BY <1>3, <2>1
<1>5. WorldsInv'
  BY <1>1 DEF SearchInv, WorldsInv, Rooted, Walked, Views
<1>6. PlayedAtHome' /\ Accounts'
  BY <1>1, <1>2, FreeOfCharge DEF SearchInv, PlayedAtHome
<1> QED
  BY <1>4, <1>5, <1>6 DEF SearchInv

\* The world that preparation makes.
LEMMA PreparedWorld ==
    ASSUME NEW root, root.safe # {}, NEW state, NEW side, NEW world,
           world = [root |-> root, state |-> state, path |-> <<state>>,
                    bindings |-> RootBindings(root, side),
                    views |-> [p \in Players |-> RootView(state, root.observed, p)], ply |-> 0]
    PROVE  Rooted(world) /\ Walked(world)
<1>1. /\ world.root = root /\ world.state = state /\ world.path = <<state>> /\ world.ply = 0
      /\ world.bindings = RootBindings(root, side)
      /\ world.views = [p \in Players |-> RootView(state, root.observed, p)]
  OBVIOUS
<1>2. world.path = [k \in 1..(0 + 1) |-> world.path[k]] /\ world.path[1] = state
  BY <1>1
<1>3. ASSUME NEW p \in Players PROVE \E h : Views(world, p, h)
  <2> DEFINE h == <<RootView(state, root.observed, p)>>
  <2>1. h[1] = RootView(state, root.observed, p)
    OBVIOUS
  <2> HIDE DEF h
  <2>2. Views(world, p, h)
    BY <1>1, <1>2, <2>1 DEF Views
  <2> QED
    BY <2>2
<1>4. Rooted(world)
  BY <1>1 DEF Rooted
<1>5. world = [root |-> world.root, state |-> world.state, path |-> world.path,
               bindings |-> world.bindings, views |-> world.views, ply |-> world.ply]
  BY <1>1
<1> QED
  BY <1>1, <1>2, <1>3, <1>4, <1>5 DEF Walked

LEMMA RootActionsOffered ==
    ASSUME NEW safe, NEW side, NEW choices, RootActionsFailure(safe, side, choices) = "ok"
    PROVE  /\ safe # {}
           /\ \A s \in safe : s.kind \in {"move", "switch"} /\ SubmissionChoice(s, side) # None
           /\ {SubmissionChoice(s, side) : s \in safe} = Listed(choices)
           /\ OneToOne(safe, side)
<1> DEFINE explicit == {s \in safe : s.kind \in {"move", "switch"}}
           bound == {SubmissionChoice(s, side) : s \in explicit}
           first == safe # {} /\ None \notin bound /\ bound \subseteq Listed(choices)
           second == explicit = safe
           third == OneToOne(safe, side)
           fourth == bound = Listed(choices)
           class == RootActionsFailure(safe, side, choices)
<1>1. class = FirstFailure(
          <<<<first, "safe_submission_mismatch">>, <<second, "unsupported_mapping">>,
            <<third, "safe_submission_mismatch">>, <<fourth, "safe_submission_mismatch">>>>)
  BY DEF RootActionsFailure
<1>2. class = "ok"
  OBVIOUS
<1>3. first /\ second /\ third /\ fourth =>
         /\ safe # {}
         /\ \A s \in safe : s.kind \in {"move", "switch"} /\ SubmissionChoice(s, side) # None
         /\ {SubmissionChoice(s, side) : s \in safe} = Listed(choices)
         /\ OneToOne(safe, side)
  OBVIOUS
<1> HIDE DEF first, second, third, fourth, class
<1>4. class = IF ~first THEN "safe_submission_mismatch" ELSE IF ~second THEN "unsupported_mapping"
              ELSE IF ~third THEN "safe_submission_mismatch"
              ELSE IF ~fourth THEN "safe_submission_mismatch" ELSE "ok"
  BY <1>1, FourChecks
<1> QED
  BY <1>2, <1>3, <1>4

LEMMA PrepareBattleRootSearch ==
    ASSUME SearchInv, NEW w \in WorldIds \ Prepared, NEW request, NEW safe, NEW observed, NEW doc,
           NEW given, NEW fault, PrepareBattleRoot(w, request, safe, observed, doc, given, fault)
    PROVE  SearchInv'
<1> DEFINE root == Derived(request, safe, observed)
           player == observed.our_side
           mapping == RootActionsFailure(safe, doc.state[player], LegalChoices(doc.state, player))
           world == [root |-> root, state |-> doc.state, path |-> <<doc.state>>,
                     bindings |-> RootBindings(root, doc.state[player]),
                     views |-> [p \in Players |-> RootView(doc.state, observed, p)],
                     ply |-> 0]
<1>1. PICK report :
         /\ report = BindingReport(fault, mapping)
              \/ \E early : early # "ok" /\ report = Report(early, 0, FALSE)
         /\ Account(report) /\ asked' = asked
         /\ last' = Called("prepare", report.class, {})
         /\ worlds' = IF report.class # "ok" THEN worlds ELSE [worlds EXCEPT ![w] = world]
  BY DEF PrepareBattleRoot
<1> DEFINE class == report.class
<1>2. last'.call = "prepare"
  BY <1>1, CalledFields
<1>7. report.work = 0 /\ (class = "ok" => mapping = "ok")
  <2>1. CASE report = BindingReport(fault, mapping)
    BY <2>1, BindingReports
  <2>2. CASE \E early : early # "ok" /\ report = Report(early, 0, FALSE)
    BY <2>2, PrepareReports
  <2> QED
    BY <1>1, <2>1, <2>2
<1>3. Accounts'
  <2>1. spent' = spent
    BY <1>1, <1>7 DEF Account, SearchInv, Accounts, WorkIsWhatTheEngineDid
  <2>2. worlds' = worlds \/ Plies' = Plies
    <3>1. CASE class = "ok"
      <4>1. worlds' = [worlds EXCEPT ![w] = world]
        BY <1>1, <3>1
      <4>2. world.ply = 0
        OBVIOUS
      <4> HIDE DEF world
      <4>3. \A v \in WorldIds : worlds'[v] = IF v = w THEN world ELSE worlds[v]
        BY <4>1 DEF SearchInv, WorldsInv
      <4>4. PlyOf(w) = 0 /\ PlyOf(w)' = 0
        BY <4>2, <4>3 DEF PlyOf, Prepared
      <4>5. \A v \in WorldIds : PlyOf(v)' = PlyOf(v)
        BY <4>3, <4>4 DEF PlyOf, Prepared
      <4> QED
        BY <4>5 DEF Plies, WorldIds
    <3>2. CASE class # "ok"
      BY <1>1, <3>2
    <3> QED
      BY <3>1, <3>2
  <2> QED
    BY <1>1, <1>2, <2>1, <2>2, FreeOfCharge DEF SearchInv
<1>4. PlayedAtHome' /\ VerifiedMeansReleased'
  BY <1>2 DEF PlayedAtHome, VerifiedMeansReleased
<1>5. CASE class # "ok"
  <2>1. worlds' = worlds
    BY <1>1, <1>5
  <2> QED
    BY <1>3, <1>4, <2>1 DEF SearchInv, WorldsInv, Rooted, Walked, Views
<1>6. CASE class = "ok"
  <2>1. safe # {}
    BY <1>6, <1>7, RootActionsOffered
  <2>2. root.safe = safe /\ root.observed = observed
    BY DEF Derived
  <2>3. Rooted(world) /\ Walked(world)
    <3> DEFINE made == world
    <3>1. made = [root |-> root, state |-> doc.state, path |-> <<doc.state>>,
                  bindings |-> RootBindings(root, doc.state[player]),
                  views |-> [p \in Players |-> RootView(doc.state, root.observed, p)], ply |-> 0]
      BY <2>2
    <3> HIDE DEF root, made
    <3>2. Rooted(made) /\ Walked(made)
      BY <2>1, <2>2, <3>1, PreparedWorld
    <3> QED
      BY <3>2 DEF made
  <2> HIDE DEF world
  <2>4. worlds' = [worlds EXCEPT ![w] = world]
    BY <1>1, <1>6
  <2>5. WorldsInv'
    <3>1. /\ worlds' = [v \in WorldIds |-> worlds'[v]]
          /\ \A v \in WorldIds : worlds'[v] = IF v = w THEN world ELSE worlds[v]
      BY <2>4 DEF SearchInv, WorldsInv
    <3> QED
      BY <2>3, <3>1 DEF SearchInv, WorldsInv
  <2> QED
    BY <1>3, <1>4, <2>5 DEF SearchInv
<1> QED
  BY <1>5, <1>6

\* A binding that was found is one of the bindings, for that action.
LEMMA FoundBinding ==
    ASSUME NEW bindings, NEW action, BindingFor(bindings, action) # None
    PROVE  \E b \in bindings : b.action = action
<1> DEFINE matches == {b \in bindings : b.action = action}
<1>1. Cardinality(matches) = 1
  BY DEF BindingFor
<1>2. matches # {}
  BY <1>1, FS_EmptySet
<1> QED
  BY <1>2

LEMMA BoundAction ==
    ASSUME NEW world, Rooted(world), NEW player, NEW action,
           BindingFailure(world, player, action) = "ok"
    PROVE  action.root = IF AtRoot(world, player) THEN world.root ELSE None
<1> DEFINE first == AtRoot(world, player) \/ DeepFailure(LegalChoices(world.state, player)) = "ok"
           second == BindingFor(Bindings(world, player), action) # None
           class == BindingFailure(world, player, action)
<1>1. class = FirstFailure(<<<<first, "malformed_native_result">>, <<second, "invalid_joint_action">>>>)
  BY DEF BindingFailure
<1>2. class = "ok"
  OBVIOUS
<1>3. second
  <2> HIDE DEF first, second, class
  <2>1. class = IF ~first THEN "malformed_native_result"
                ELSE IF ~second THEN "invalid_joint_action" ELSE "ok"
    BY <1>1, TwoChecks
  <2> QED
    BY <1>2, <2>1
<1>4. PICK b \in Bindings(world, player) : b.action = action
  BY <1>3, FoundBinding
<1>5. CASE AtRoot(world, player)
  <2>1. PICK side : world.bindings = RootBindings(world.root, side)
    BY DEF Rooted
  <2>2. b \in RootBindings(world.root, side)
    BY <1>4, <1>5, <2>1 DEF Bindings
  <2> QED
    BY <1>4, <1>5, <2>2 DEF RootBindings, RootAction
<1>6. CASE ~AtRoot(world, player)
  BY <1>4, <1>6 DEF Bindings, DeepBindings, DeepAction
<1> QED
  BY <1>5, <1>6

LEMMA PrepareRootSearch ==
    ASSUME SearchInv, NEW w \in Prepared, NEW identity, NEW actions,
           PrepareRoot(w, identity, actions)
    PROVE  SearchInv'
<1> DEFINE first == identity.backend = "verified" /\ identity.catalog = "pinned"
           second == actions = {b.action : b \in worlds[w].bindings}
           third == \A a \in actions : a.root = identity
           class == FirstFailure(<<<<first, "adapter_identity_mismatch">>,
                                   <<second, "safe_submission_mismatch">>,
                                   <<third, "unsupported_mapping">>>>)
           played == {identity} \cup {a.root : a \in actions}
           value == {[played |-> played, owner |-> {worlds[w].root}]}
<1>1. /\ last' = Called("prepare_root", class, value)
      /\ UNCHANGED <<engine, health, worlds, spent, asked>>
  BY DEF PrepareRoot
<1>2. second /\ third => played = {worlds[w].root}
  <2> SUFFICES ASSUME second, third PROVE played = {worlds[w].root}
    OBVIOUS
  <2>1. Rooted(worlds[w])
    BY DEF SearchInv, WorldsInv, Prepared
  <2>2. PICK side : worlds[w].bindings = RootBindings(worlds[w].root, side)
    BY <2>1 DEF Rooted
  <2>3. \A a \in actions : a.root = worlds[w].root
    BY <2>2 DEF RootBindings, RootAction
  <2>4. actions # {}
    <3>1. PICK t : t \in worlds[w].root.safe
      BY <2>1 DEF Rooted
    <3>2. [action |-> RootAction(worlds[w].root, t), choice |-> SubmissionChoice(t, side)]
            \in worlds[w].bindings
      BY <2>2, <3>1 DEF RootBindings
    <3> QED
      BY <3>2
  <2> QED
    BY <2>3, <2>4
<1>3. class = "ok" => second /\ third
  <2> HIDE DEF first, second, third
  <2>1. class = IF ~first THEN "adapter_identity_mismatch"
                ELSE IF ~second THEN "safe_submission_mismatch"
                ELSE IF ~third THEN "unsupported_mapping" ELSE "ok"
    BY ThreeChecks
  <2> HIDE DEF class
  <2> QED
    BY <2>1
<1>4. class = "ok" => \A v \in value : v.played = v.owner
  <2> SUFFICES ASSUME class = "ok", NEW v \in value PROVE v.played = v.owner
    OBVIOUS
  <2>1. v.played = played /\ v.owner = {worlds[w].root}
    OBVIOUS
  <2> QED
    BY <1>2, <1>3, <2>1
<1> HIDE DEF class, value
<1>5. last'.call = "prepare_root" /\ last'.class = class /\ last'.value = value
  BY <1>1, CalledFields
<1>6. PlayedAtHome' /\ VerifiedMeansReleased' /\ Accounts'
  BY <1>1, <1>4, <1>5, FreeOfCharge DEF SearchInv, PlayedAtHome, VerifiedMeansReleased
<1>7. WorldsInv'
  BY <1>1 DEF SearchInv, WorldsInv, Rooted, Walked, Views
<1> QED
  BY <1>6, <1>7 DEF SearchInv

\* One more state on the path, one more view for each player.
LEMMA Appended ==
    ASSUME NEW n \in Nat, NEW path, path = [k \in 1..n |-> path[k]], NEW state,
           NEW longer, longer = Append(path, state)
    PROVE  /\ longer = [k \in 1..(n + 1) |-> longer[k]]
           /\ \A k \in 1..n : longer[k] = path[k]
           /\ longer[n + 1] = state
<1> DEFINE S == {path[k] : k \in 1..n} \cup {state}
<1>1. path \in Seq(S) /\ Len(path) = n /\ state \in S
  OBVIOUS
<1> HIDE DEF S
<1> QED
  BY <1>1

LEMMA SuccessorWorld ==
    ASSUME NEW world, Rooted(world), Walked(world), NEW state,
           NEW after, after = Successor(world, state)
    PROVE  Rooted(after) /\ Walked(after)
<1> DEFINE n == world.ply
           precision == PublicHp(world.root.observed)
           views == [p \in Players |-> NextView(world.views[p], world.state, state, p, precision)]
           longer == Append(world.path, state)
<1>1. /\ after.root = world.root /\ after.bindings = world.bindings
      /\ after.state = state /\ after.path = longer /\ after.ply = n + 1 /\ after.views = views
      /\ after = [root |-> after.root, state |-> after.state, path |-> after.path,
                  bindings |-> after.bindings, views |-> after.views, ply |-> after.ply]
  BY DEF Walked, Successor
<1>2. /\ n \in Nat /\ longer = [k \in 1..(n + 1 + 1) |-> longer[k]]
      /\ \A k \in 1..(n + 1) : longer[k] = world.path[k]
      /\ longer[n + 1 + 1] = state
  <2>1. n \in Nat /\ n + 1 \in Nat /\ world.path = [k \in 1..(n + 1) |-> world.path[k]]
    BY DEF Walked
  <2> HIDE DEF n
  <2> QED
    BY <2>1, Appended
<1> HIDE DEF longer, n, views
<1>3. ASSUME NEW p \in Players PROVE \E h : Views(after, p, h)
  <2>1. PICK h : Views(world, p, h)
    BY DEF Walked
  <2> DEFINE g == [k \in 1..(n + 1 + 1) |-> IF k = n + 1 + 1 THEN views[p] ELSE h[k]]
  <2>2. /\ g[n + 1 + 1] = views[p]
        /\ \A k \in 1..(n + 1) : g[k] = h[k]
    BY <1>2
  <2> HIDE DEF g
  <2>3. g[1] = RootView(after.path[1], after.root.observed, p)
    <3>1. 1 \in 1..(n + 1)
      BY <1>2
    <3>2. g[1] = h[1] /\ after.path[1] = world.path[1] /\ after.root = world.root
      BY <1>1, <1>2, <2>2, <3>1
    <3> QED
      BY <2>1, <3>2 DEF Views
  <2>4. ASSUME NEW k \in 1..(n + 1)
        PROVE  g[k + 1] = NextView(g[k], after.path[k], after.path[k + 1], p, precision)
    <3>1. CASE k \in 1..n
      <4>1. k \in 1..(n + 1) /\ k + 1 \in 1..(n + 1)
        BY <1>2, <3>1
      <4>2. /\ g[k] = h[k] /\ g[k + 1] = h[k + 1]
            /\ after.path[k] = world.path[k] /\ after.path[k + 1] = world.path[k + 1]
        BY <1>1, <1>2, <2>2, <4>1
      <4>3. h[k + 1] = NextView(h[k], world.path[k], world.path[k + 1], p, precision)
        BY <2>1, <3>1 DEF Views, n
      <4> QED
        BY <4>2, <4>3
    <3>2. CASE k = n + 1
      <4>1. g[k] = world.views[p] /\ after.path[k] = world.state /\ after.path[k + 1] = state
        BY <1>1, <1>2, <2>1, <2>2, <3>2 DEF Views, Walked, n
      <4>2. g[k + 1] = NextView(world.views[p], world.state, state, p, precision)
        BY <2>2, <3>2 DEF views
      <4> QED
        BY <4>1, <4>2
    <3> QED
      BY <1>2, <3>1, <3>2
  <2>5. Views(after, p, g)
    BY <1>1, <2>2, <2>3, <2>4 DEF Views
  <2> QED
    BY <2>5
<1>4. Rooted(after)
  BY <1>1 DEF Rooted
<1>5. Walked(after)
  BY <1>1, <1>2, <1>3 DEF Walked
<1> QED
  BY <1>4, <1>5

LEMMA TransitionSearch ==
    ASSUME SearchInv, NEW w \in Prepared, NEW a1, NEW a2, NEW joint,
           joint = JointBinding(worlds[w], a1, a2), NEW weights, NEW damage, NEW fault,
           Transition(w, a1, a2, joint, weights, damage, fault)
    PROVE  SearchInv'
<1> DEFINE world == worlds[w]
           played == [p1 |-> a1.root, p2 |-> a2.root]
           owner == [p \in Players |-> IF AtRoot(world, p) THEN world.root ELSE None]
           early == BindingReport(fault, joint.failure)
           list == Instructions(world.state, joint.b1.choice, joint.b2.choice, weights, damage)
           report == IF early.class # "ok" THEN early ELSE AnswerReport(list, fault)
           class == report.class
           successors == Successors(list)
<1>1. /\ asked' = asked + (IF early.class = "ok" THEN 1 ELSE 0)
      /\ Account(report)
      /\ last' = Called("transition", class,
                        IF class = "ok"
                        THEN {[list |-> list, successors |-> successors,
                               played |-> played, owner |-> owner]}
                        ELSE {})
      /\ IF class = "ok"
         THEN \E i \in DOMAIN list :
                 worlds' = [worlds EXCEPT ![w] = Successor(world, list[i].state)]
         ELSE worlds' = worlds
  BY DEF Transition
<1>2. /\ early.work = 0
      /\ early.class = "ok" => joint.failure = "ok"
      /\ early.class = "native_exception" => early.marks
  BY BindingReports, JointFailures
<1>3. /\ class = "ok" => early.class = "ok"
      /\ report.work = IF early.class = "ok" THEN 1 ELSE 0
      /\ class = "native_exception" => report.marks
  <2> HIDE DEF early, list
  <2> QED
    BY <1>2, AnswerReports
<1> HIDE DEF early, list, report, successors
<1>4. w \in WorldIds /\ Rooted(world) /\ Walked(world)
  BY DEF SearchInv, WorldsInv, Prepared
<1>12. \A v \in WorldIds : PlyOf(v) \in Nat
  BY DEF PlyOf, SearchInv, WorldsInv, Walked, Prepared
<1>5. ASSUME class = "ok" PROVE played = owner
  <2>1. joint.failure = "ok"
    BY <1>2, <1>3, <1>5
  <2>2. BindingFailure(world, "p1", a1) = "ok" /\ BindingFailure(world, "p2", a2) = "ok"
    BY <2>1 DEF JointBinding
  <2>3. /\ a1.root = IF AtRoot(world, "p1") THEN world.root ELSE None
        /\ a2.root = IF AtRoot(world, "p2") THEN world.root ELSE None
    BY <1>4, <2>2, BoundAction
  <2> HIDE DEF world
  <2> QED
    BY <2>3 DEF Players
<1> HIDE DEF played, owner
<1>6. /\ last'.call = "transition" /\ last'.class = class
      /\ last'.value = IF class = "ok" THEN {[list |-> list, successors |-> successors,
                                              played |-> played, owner |-> owner]}
                       ELSE {}
  BY <1>1, CalledFields
<1>7. PlayedAtHome'
  BY <1>5, <1>6 DEF PlayedAtHome
<1>8. VerifiedMeansReleased'
  BY <1>6 DEF VerifiedMeansReleased
<1>9. Accounts'
  <2>1. asked \in Nat /\ spent = asked /\ Plies <= spent
    BY DEF SearchInv, Accounts, WorkIsWhatTheEngineDid
  <2>2. /\ asked' \in Nat /\ spent' = asked'
        /\ class = "ok" => spent' = spent + 1
        /\ class # "ok" => spent' >= spent
    BY <1>1, <1>3, <2>1 DEF Account
  <2>3. class = "native_exception" => health' = "unhealthy"
    BY <1>1, <1>3 DEF Account
  <2>4. Plies' <= spent'
    <3>1. CASE class # "ok"
      <4>1. worlds' = worlds
        BY <1>1, <3>1
      <4>2. Plies' = Plies /\ Plies \in Nat
        BY <1>12, <4>1 DEF Plies, PlyOf, Prepared
      <4> QED
        BY <2>1, <2>2, <4>2
    <3>2. CASE class = "ok"
      <4>1. PICK state : worlds' = [worlds EXCEPT ![w] = Successor(world, state)]
        BY <1>1, <3>2
      <4>2. Successor(world, state).ply = world.ply + 1
        BY <1>4 DEF Walked, Successor
      <4>3. \A v \in WorldIds : worlds'[v] = IF v = w THEN Successor(world, state) ELSE worlds[v]
        BY <1>4, <4>1 DEF SearchInv, WorldsInv
      <4>4. /\ PlyOf(w)' \in {0, PlyOf(w) + 1}
            /\ \A v \in WorldIds \ {w} : PlyOf(v)' = PlyOf(v)
        BY <1>4, <4>2, <4>3 DEF PlyOf, Prepared
      <4>5. /\ PlyOf(1)' + PlyOf(2)' <= PlyOf(1) + PlyOf(2) + 1
            /\ PlyOf(1)' \in Nat /\ PlyOf(2)' \in Nat
        BY <1>4, <1>12, <4>4 DEF WorldIds
      <4>6. Plies' <= Plies + 1 /\ Plies \in Nat /\ Plies' \in Nat
        BY <1>12, <4>5 DEF Plies, WorldIds
      <4>7. spent \in Nat /\ spent' = spent + 1
        BY <2>1, <2>2, <3>2
      <4> QED
        BY <2>1, <4>6, <4>7
    <3> QED
      BY <3>1, <3>2
  <2> QED
    BY <1>6, <2>2, <2>3, <2>4 DEF Accounts, WorkIsWhatTheEngineDid
<1>10. WorldsInv'
  <2>1. CASE class # "ok"
    <3>1. worlds' = worlds
      BY <1>1, <2>1
    <3> QED
      BY <3>1 DEF SearchInv, WorldsInv, Rooted, Walked, Views
  <2>2. CASE class = "ok"
    <3>1. PICK state, after : after = Successor(world, state) /\ worlds' = [worlds EXCEPT ![w] = after]
      BY <1>1, <2>2
    <3>2. Rooted(after) /\ Walked(after)
      BY <1>4, <3>1, SuccessorWorld
    <3>3. /\ worlds' = [v \in WorldIds |-> worlds'[v]]
          /\ \A v \in WorldIds : worlds'[v] = IF v = w THEN after ELSE worlds[v]
      BY <1>4, <3>1 DEF SearchInv, WorldsInv
    <3> QED
      BY <3>2, <3>3 DEF SearchInv, WorldsInv
  <2> QED
    BY <2>1, <2>2
<1> QED
  BY <1>7, <1>8, <1>9, <1>10 DEF SearchInv

LEMMA AskLegalActionsSearch ==
    ASSUME SearchInv, NEW w, NEW player, NEW fault, AskLegalActions(w, player, fault)
    PROVE  SearchInv'
<1> DEFINE mapping == DeepFailure(LegalChoices(worlds[w].state, player))
<1>1. PICK report :
         /\ report \in {Report("ok", 0, FALSE), BindingReport(fault, mapping)}
         /\ Account(report) /\ last' = Called("legal_actions", report.class, {})
         /\ UNCHANGED <<engine, worlds, asked>>
  BY DEF AskLegalActions
<1>2. report.work = 0
  <2>1. CASE report = Report("ok", 0, FALSE)
    BY <2>1 DEF Report
  <2>2. CASE report = BindingReport(fault, mapping)
    BY <2>2, BindingReports
  <2> QED
    BY <1>1, <2>1, <2>2
<1>3. last'.call = "legal_actions"
  BY <1>1, CalledFields
<1>4. spent' = spent
  BY <1>1, <1>2 DEF Account, SearchInv, Accounts, WorkIsWhatTheEngineDid
<1>5. Accounts' /\ PlayedAtHome' /\ VerifiedMeansReleased'
  BY <1>1, <1>3, <1>4, FreeOfCharge DEF SearchInv, PlayedAtHome, VerifiedMeansReleased
<1>6. WorldsInv'
  BY <1>1 DEF SearchInv, WorldsInv, Rooted, Walked, Views
<1> QED
  BY <1>5, <1>6 DEF SearchInv

LEMMA SearchGoesOn == SearchInv /\ [SearchNext]_<<vars, searchVars>> => SearchInv'
<1> SUFFICES ASSUME SearchInv, [SearchNext]_<<vars, searchVars>> PROVE SearchInv'
  OBVIOUS
<1>1. CASE \/ UNCHANGED searchVars \/ Return
  BY <1>1, QuietSearch DEF searchVars, Return
<1>2. CASE \E i \in Installations, s \in Setups : Initialize(i, s)
  BY <1>2, InitializeSearch
<1>3. CASE \E w \in WorldIds \ Prepared, request \in SearchRequests[payload],
              observed \in Observations, doc \in Documents[payload], fault \in PrepareFaults :
             \E safe \in {SafeSubmissions(request), SafeSubmissions(request) \ {Default}} :
               \E given \in {Derived(r, safe, observed) : r \in SearchRequests[payload]} :
                  PrepareBattleRoot(w, request, safe, observed, doc, given, fault)
  <2>1. PICK w, request, safe, observed, doc, given, fault :
            /\ w \in WorldIds \ Prepared
            /\ PrepareBattleRoot(w, request, safe, observed, doc, given, fault)
    BY <1>3
  <2> QED
    BY <2>1, PrepareBattleRootSearch
<1>4. CASE \E w, v \in Prepared : \E identity \in {worlds[w].root, worlds[v].root} :
             PrepareRoot(w, identity, {b.action : b \in worlds[v].bindings})
  <2>1. PICK w, identity, actions : w \in Prepared /\ PrepareRoot(w, identity, actions)
    BY <1>4
  <2> QED
    BY <2>1, PrepareRootSearch
<1>5. CASE \E w \in Prepared : Play(w)
  <2>1. PICK w \in Prepared : Play(w)
    BY <1>5
  <2>2. PICK a1, a2, joint, weights, damage, fault :
            /\ joint = JointBinding(worlds[w], a1, a2)
            /\ Transition(w, a1, a2, joint, weights, damage, fault)
    BY <2>1 DEF Play
  <2> QED
    BY <2>1, <2>2, TransitionSearch
<1>6. CASE \E w \in Prepared, player \in Players, fault \in ChoiceFaults :
              AskLegalActions(w, player, fault)
  BY <1>6, AskLegalActionsSearch
<1> QED
  BY <1>1, <1>2, <1>3, <1>4, <1>5, <1>6 DEF SearchNext

\* What is sent for an action of one root in a world of another, or the same.
LEMMA RootSubmissions ==
    ASSUME \A a, c : None # [action |-> a, choice |-> c],
           NEW world, Rooted(world), NEW from, Rooted(from), NEW b \in from.bindings
    PROVE  RootSubmission(world, b.action) = IF from.root = world.root THEN b.action.id ELSE None
<1>1. PICK side : world.bindings = RootBindings(world.root, side)
  BY DEF Rooted
<1>2. PICK s \in from.root.safe : b.action = RootAction(from.root, s)
  BY DEF Rooted, RootBindings
<1> DEFINE matches == {o \in world.bindings : o.action = b.action}
<1>3. BindingFor(world.bindings, b.action) =
         IF Cardinality(matches) = 1 THEN CHOOSE o \in matches : TRUE ELSE None
  BY DEF BindingFor
<1>4. RootSubmission(world, b.action) =
         IF BindingFor(world.bindings, b.action) = None THEN None
         ELSE BindingFor(world.bindings, b.action).action.id
  BY DEF RootSubmission
<1>5. CASE from.root = world.root
  <2> DEFINE own == [action |-> RootAction(world.root, s), choice |-> SubmissionChoice(s, side)]
  <2>1. own \in world.bindings
    BY <1>1, <1>2, <1>5 DEF RootBindings
  <2>2. \A o \in world.bindings : o.action = b.action => o = own
    <3> SUFFICES ASSUME NEW o \in world.bindings, o.action = b.action PROVE o = own
      OBVIOUS
    <3>1. PICK t : o = [action |-> RootAction(world.root, t), choice |-> SubmissionChoice(t, side)]
      BY <1>1 DEF RootBindings
    <3>2. RootAction(world.root, t) = RootAction(world.root, s)
      BY <1>2, <1>5, <3>1
    <3>3. t = s
      <4>1. RootAction(world.root, t).id = t /\ RootAction(world.root, s).id = s
        BY DEF RootAction
      <4> QED
        BY <3>2, <4>1
    <3> QED
      BY <3>1, <3>3
  <2>3. own.action = b.action /\ own # None
    BY <1>2, <1>5
  <2> HIDE DEF own
  <2>4. matches = {own}
    BY <2>1, <2>2, <2>3
  <2>5. Cardinality(matches) = 1 /\ (CHOOSE o \in matches : TRUE) = own
    BY <2>4, FS_Singleton
  <2> HIDE DEF matches
  <2>6. BindingFor(world.bindings, b.action) = own
    BY <1>3, <2>5
  <2> QED
    BY <1>4, <1>5, <2>3, <2>6
<1>6. CASE from.root # world.root
  <2>1. \A o \in world.bindings : o.action # b.action
    BY <1>1, <1>2, <1>6 DEF RootBindings, RootAction
  <2>2. matches = {}
    BY <2>1
  <2>3. Cardinality(matches) # 1
    BY <2>2, FS_EmptySet
  <2> QED
    BY <1>3, <1>4, <1>6, <2>3
<1> QED
  BY <1>5, <1>6

(***************************************************************************)
(* An initialized adapter, and a sentinel that reports the engine, stand   *)
(* on an installation that is the released or the staged wheel, whatever   *)
(* is installed, and a reported engine is one initialization accepts.      *)
(***************************************************************************)
THEOREM VerifiedEnginesAreReleased == SearchSpec => []VerifiedMeansReleased
<1>1. SearchInv => VerifiedMeansReleased
  BY DEF SearchInv
<1> QED
  BY <1>1, SearchBegins, SearchGoesOn, PTL DEF SearchSpec

(***************************************************************************)
(* For every request, world, pair and answer of the engine: the work a     *)
(* searcher was told of is the work the engine did, no ply was for free,   *)
(* and an exception that ended a transition shows in the backend's health. *)
(***************************************************************************)
THEOREM WorkIsCharged == SearchSpec => []WorkIsWhatTheEngineDid
<1>1. SearchInv => WorkIsWhatTheEngineDid
  BY DEF SearchInv, Accounts
<1> QED
  BY <1>1, SearchBegins, SearchGoesOn, PTL DEF SearchSpec

(***************************************************************************)
(* No action is played away from its root, no world is prepared again for  *)
(* another root, and what is sent for an action is the submission it       *)
(* stands for or nothing: for every request, world and answer of the       *)
(* engine.  None, the answer of a search for a binding, is not a binding.  *)
(***************************************************************************)
THEOREM ActionsAreAtHome ==
    ASSUME \A a, c : None # [action |-> a, choice |-> c]
    PROVE  SearchSpec => []ActionsStayWithTheirRoot
<1>1. SearchInv => ActionsStayWithTheirRoot
  <2> SUFFICES ASSUME SearchInv PROVE ActionsStayWithTheirRoot
    OBVIOUS
  <2>1. ASSUME NEW w \in Prepared, NEW v \in Prepared, NEW b \in worlds[v].bindings
        PROVE  RootSubmission(worlds[w], b.action)
                 = IF worlds[v].root = worlds[w].root THEN b.action.id ELSE None
    <3>1. Rooted(worlds[w]) /\ Rooted(worlds[v])
      BY DEF SearchInv, WorldsInv, Prepared
    <3> QED
      BY <3>1, RootSubmissions
  <2> QED
    BY <2>1 DEF SearchInv, PlayedAtHome, ActionsStayWithTheirRoot
<1> QED
  BY <1>1, SearchBegins, SearchGoesOn, PTL DEF SearchSpec

-----------------------------------------------------------------------------
(***************************************************************************)
(* What the root offers.  It is decided when the world is prepared, and a  *)
(* transition changes neither the bindings nor the state the path began    *)
(* with.                                                                   *)
(***************************************************************************)
OffersTheSafeSet(world) ==
    LET player == world.root.observed.our_side
        team == world.path[1][player].team
    IN  /\ {b.action.id : b \in world.bindings} = world.root.safe
        /\ {b.choice : b \in world.bindings} = Listed(LegalChoices(world.path[1], player))
        /\ \A b, c \in world.bindings : b.choice = c.choice => b = c
        /\ \A b \in world.bindings :
              b.choice = [kind |-> b.action.id.kind,
                          id |-> IF b.action.id.kind = "move"
                                 THEN RequestMoves[b.action.id.args[1]]
                                 ELSE team[b.action.id.args[1]].id,
                          tera |-> b.action.id.tera]

RootsInv == \A w \in WorldIds : worlds[w] # None => OffersTheSafeSet(worlds[w])

\* Nobody terastallizes in a switch.
LEMMA PlainSwitches ==
    ASSUME NEW p, NEW s \in SafeSubmissions(p), s.kind = "switch"
    PROVE  s.tera = FALSE
<1>1. ASSUME NEW kind, NEW slots, NEW tera, NEW t \in ToSlots(kind, slots, tera)
      PROVE  t.kind = kind
  BY <1>1 DEF ToSlots, Submission
<1>9. \A t \in ToSlots("switch", Healthy(p), FALSE) : t.tera = FALSE
  BY DEF ToSlots, Submission
<1>2. \A t \in MoveSubmissions(p) : t.kind = "move"
  BY <1>1 DEF MoveSubmissions
<1>3. Default.kind = "default"
  BY DEF Default, Submission
<1>4. CASE RequestKind(p) = "wait"
  BY <1>4 DEF SafeSubmissions
<1>5. CASE RequestKind(p) = "team_preview"
  <2>1. \A o : Submission("team", o, FALSE).kind = "team"
    BY DEF Submission
  <2>2. SafeSubmissions(p) =
          {Submission("team", o, FALSE) : o \in TeamOrders(Len(p.team))} \cup {Default}
    BY <1>5 DEF SafeSubmissions
  <2> QED
    BY <1>3, <2>1, <2>2
<1>6. CASE RequestKind(p) = "revival"
  <2>1. SafeSubmissions(p) = ToSlots("revive", Fainted(p), FALSE) \cup {Default}
    BY <1>6 DEF SafeSubmissions
  <2> QED
    BY <1>1, <1>3, <2>1
<1>7. CASE RequestKind(p) = "forced_switch"
  <2>1. SafeSubmissions(p) = ToSlots("switch", Healthy(p), FALSE) \cup {Default}
    BY <1>7 DEF SafeSubmissions
  <2> QED
    BY <1>3, <1>9, <2>1
<1>8. CASE RequestKind(p) = "move"
  <2>1. SafeSubmissions(p) \subseteq
          MoveSubmissions(p) \cup ToSlots("switch", Healthy(p), FALSE) \cup {Default}
    BY <1>8 DEF SafeSubmissions
  <2> QED
    BY <1>2, <1>3, <1>9, <2>1
<1> QED
  BY <1>4, <1>5, <1>6, <1>7, <1>8 DEF RequestKind

LEMMA RootActionId ==
    ASSUME NEW root, NEW s
    PROVE  RootAction(root, s).id = s
BY DEF RootAction

LEMMA ChosenAsRequested ==
    ASSUME NEW p, NEW s \in SafeSubmissions(p), NEW side,
           s.kind \in {"move", "switch"}, SubmissionChoice(s, side) # None
    PROVE  SubmissionChoice(s, side) =
               [kind |-> s.kind,
                id |-> IF s.kind = "move" THEN RequestMoves[s.args[1]]
                       ELSE side.team[s.args[1]].id,
                tera |-> s.tera]
<1>1. CASE s.kind = "move"
  BY <1>1 DEF SubmissionChoice, Choice
<1>2. CASE s.kind = "switch"
  <2>1. s.tera = FALSE
    BY <1>2, PlainSwitches
  <2> QED
    BY <1>2, <2>1 DEF SubmissionChoice, Choice
<1> QED
  BY <1>1, <1>2

\* A world that was just prepared.
LEMMA PreparedOffers ==
    ASSUME NEW p, NEW safe, safe \subseteq SafeSubmissions(p),
           NEW o \in Observations, NEW doc,
           RootActionsFailure(safe, doc.state[o.our_side],
                              LegalChoices(doc.state, o.our_side)) = "ok",
           NEW world, world.path = <<doc.state>>, world.root.observed = o, world.root.safe = safe,
           world.bindings = RootBindings(world.root, doc.state[o.our_side])
    PROVE  OffersTheSafeSet(world)
<1> DEFINE side == doc.state[o.our_side]
<1>1. /\ \A s \in safe : s.kind \in {"move", "switch"} /\ SubmissionChoice(s, side) # None
      /\ {SubmissionChoice(s, side) : s \in safe} = Listed(LegalChoices(doc.state, o.our_side))
      /\ \A s, t \in safe : SubmissionChoice(s, side) = SubmissionChoice(t, side) => s = t
  BY RootActionsOffered DEF OneToOne
<1>2. world.path[1][world.root.observed.our_side] = side
  OBVIOUS
<1> HIDE DEF side
<1>3. world.bindings =
         {[action |-> RootAction(world.root, s), choice |-> SubmissionChoice(s, side)] : s \in safe}
  BY DEF RootBindings, side
<1>4. world.path[1] = doc.state
  OBVIOUS
<1>5. \A s : RootAction(world.root, s).id = s
  BY RootActionId
<1> DEFINE Binding(s) ==
             [action |-> RootAction(world.root, s), choice |-> SubmissionChoice(s, side)]
<1>9. /\ world.bindings = {Binding(s) : s \in safe}
      /\ \A s : Binding(s).action.id = s /\ Binding(s).choice = SubmissionChoice(s, side)
  BY <1>3, <1>5
<1> HIDE DEF Binding
<1>6. {b.action.id : b \in world.bindings} = safe
  <2>1. {b.action.id : b \in world.bindings} \subseteq safe
    BY <1>9
  <2>2. \A s \in safe : Binding(s) \in world.bindings /\ Binding(s).action.id = s
    BY <1>9
  <2> QED
    BY <2>1, <2>2
<1>7. {b.choice : b \in world.bindings} = {SubmissionChoice(s, side) : s \in safe}
  BY <1>9
<1>8. ASSUME NEW b \in world.bindings
      PROVE  b.choice = [kind |-> b.action.id.kind,
                         id |-> IF b.action.id.kind = "move"
                                THEN RequestMoves[b.action.id.args[1]]
                                ELSE side.team[b.action.id.args[1]].id,
                         tera |-> b.action.id.tera]
  <2>1. PICK s \in safe : b.action.id = s /\ b.choice = SubmissionChoice(s, side)
    BY <1>9
  <2>2. /\ s \in SafeSubmissions(p) /\ s.kind \in {"move", "switch"}
        /\ SubmissionChoice(s, side) # None
    BY <1>1
  <2> QED
    BY <2>1, <2>2, ChosenAsRequested
<1>10. ASSUME NEW b \in world.bindings, NEW c \in world.bindings, b.choice = c.choice
       PROVE  b = c
  <2>1. PICK s \in safe, t \in safe : b = Binding(s) /\ c = Binding(t)
    BY <1>9
  <2> QED
    BY <1>1, <1>9, <1>10, <2>1
<1> QED
  BY <1>1, <1>2, <1>4, <1>6, <1>7, <1>8, <1>10 DEF OffersTheSafeSet

\* A step leaves every world as it is, or prepares one, or takes one a ply further.
LEMMA WorldsStep ==
    ASSUME SearchInv, SearchNext
    PROVE  \/ worlds' = worlds
           \/ \E w, world : /\ w \in WorldIds
                            /\ worlds' = [worlds EXCEPT ![w] = world]
                            /\ OffersTheSafeSet(world)
           \/ \E w, state : /\ w \in Prepared
                            /\ worlds' = [worlds EXCEPT ![w] = Successor(worlds[w], state)]
<1>1. CASE \/ UNCHANGED searchVars \/ Return
           \/ \E i \in Installations, s \in Setups : Initialize(i, s)
           \/ \E w, player, fault : AskLegalActions(w, player, fault)
  BY <1>1 DEF searchVars, Return, Initialize, AskLegalActions
<1>2. CASE \E w \in WorldIds \ Prepared, request \in SearchRequests[payload],
              observed \in Observations, doc \in Documents[payload], fault \in PrepareFaults :
             \E safe \in {SafeSubmissions(request), SafeSubmissions(request) \ {Default}} :
               \E given \in {Derived(r, safe, observed) : r \in SearchRequests[payload]} :
                  PrepareBattleRoot(w, request, safe, observed, doc, given, fault)
  <2>1. PICK w, request, observed, doc, safe, given, fault :
            /\ w \in WorldIds /\ observed \in Observations
            /\ safe \subseteq SafeSubmissions(request)
            /\ PrepareBattleRoot(w, request, safe, observed, doc, given, fault)
    BY <1>2
  <2> DEFINE root == Derived(request, safe, observed)
             side == doc.state[observed.our_side]
             mapping == RootActionsFailure(safe, side, LegalChoices(doc.state, observed.our_side))
             world == [root |-> root, state |-> doc.state, path |-> <<doc.state>>,
                       bindings |-> RootBindings(root, side),
                       views |-> [p \in Players |-> RootView(doc.state, observed, p)],
                       ply |-> 0]
  <2>2. worlds' = worlds \/ (mapping = "ok" /\ worlds' = [worlds EXCEPT ![w] = world])
    <3>1. PICK report :
             /\ report = BindingReport(fault, mapping)
                  \/ \E early : early # "ok" /\ report = Report(early, 0, FALSE)
             /\ worlds' = IF report.class # "ok" THEN worlds ELSE [worlds EXCEPT ![w] = world]
      BY <2>1 DEF PrepareBattleRoot
    <3>2. report.class = "ok" => mapping = "ok"
      <4> HIDE DEF world
      <4>1. CASE report = BindingReport(fault, mapping)
        BY <4>1, BindingReports
      <4>2. CASE \E early : early # "ok" /\ report = Report(early, 0, FALSE)
        BY <4>2, PrepareReports
      <4> QED
        BY <3>1, <4>1, <4>2
    <3> QED
      BY <3>1, <3>2
  <2>3. /\ world.path = <<doc.state>> /\ world.root = root
        /\ world.bindings = RootBindings(root, side)
    OBVIOUS
  <2>4. root.observed = observed /\ root.safe = safe
    BY DEF Derived
  <2> HIDE DEF world, root
  <2>5. mapping = "ok" => OffersTheSafeSet(world)
    BY <2>1, <2>3, <2>4, PreparedOffers
  <2> HIDE DEF mapping
  <2> QED
    BY <2>1, <2>2, <2>5
<1>3. CASE \E w, v \in Prepared : \E identity \in {worlds[w].root, worlds[v].root} :
             PrepareRoot(w, identity, {b.action : b \in worlds[v].bindings})
  BY <1>3 DEF PrepareRoot
<1>4. CASE \E w \in Prepared : Play(w)
  <2>1. PICK w \in Prepared : Play(w)
    BY <1>4
  <2>2. PICK a1, a2, joint, weights, damage, fault :
            Transition(w, a1, a2, joint, weights, damage, fault)
    BY <2>1 DEF Play
  <2>3. \/ worlds' = worlds
        \/ \E state : worlds' = [worlds EXCEPT ![w] = Successor(worlds[w], state)]
    BY <2>2 DEF Transition
  <2> QED
    BY <2>3
<1> QED
  BY <1>1, <1>2, <1>3, <1>4 DEF SearchNext

LEMMA RootsStay ==
    ASSUME SearchInv, RootsInv, [SearchNext]_<<vars, searchVars>>
    PROVE  RootsInv'
<1>1. CASE worlds' = worlds
  BY <1>1 DEF RootsInv, OffersTheSafeSet
<1>2. CASE \E w, world : /\ w \in WorldIds
                         /\ worlds' = [worlds EXCEPT ![w] = world]
                         /\ OffersTheSafeSet(world)
  <2>1. PICK w, world : /\ w \in WorldIds
                        /\ worlds' = [worlds EXCEPT ![w] = world] /\ OffersTheSafeSet(world)
    BY <1>2
  <2>2. \A v \in WorldIds : worlds'[v] = IF v = w THEN world ELSE worlds[v]
    BY <2>1 DEF SearchInv, WorldsInv
  <2> QED
    BY <2>1, <2>2 DEF RootsInv
<1>3. CASE \E w, state : /\ w \in Prepared
                         /\ worlds' = [worlds EXCEPT ![w] = Successor(worlds[w], state)]
  <2>1. PICK w, state : /\ w \in Prepared
                        /\ worlds' = [worlds EXCEPT ![w] = Successor(worlds[w], state)]
    BY <1>3
  <2> DEFINE world == worlds[w]
             after == Successor(world, state)
  <2>2. w \in WorldIds /\ Walked(world) /\ OffersTheSafeSet(world)
    <3>1. w \in WorldIds /\ worlds[w] # None
      BY <2>1 DEF Prepared
    <3> QED
      BY <3>1 DEF SearchInv, WorldsInv, RootsInv
  <2>3. \A v \in WorldIds : worlds'[v] = IF v = w THEN after ELSE worlds[v]
    BY <2>1, <2>2 DEF SearchInv, WorldsInv
  <2> HIDE DEF world
  <2>4. /\ after.root = world.root /\ after.bindings = world.bindings
        /\ after.path = Append(world.path, state)
    BY <2>2 DEF Walked, Successor
  <2> HIDE DEF after
  <2>5. after.path[1] = world.path[1]
    <3>1. world.ply + 1 \in Nat /\ 1 \in 1..(world.ply + 1)
      BY <2>2 DEF Walked
    <3>2. \A k \in 1..(world.ply + 1) : after.path[k] = world.path[k]
      BY <2>2, <2>4, <3>1, Appended DEF Walked
    <3> QED
      BY <3>1, <3>2
  <2>6. OffersTheSafeSet(after)
    BY <2>2, <2>4, <2>5 DEF OffersTheSafeSet
  <2> QED
    BY <2>3, <2>6 DEF RootsInv
<1> QED
  BY <1>1, <1>2, <1>3, WorldsStep DEF searchVars

(***************************************************************************)
(* map_root_actions and the comparison with the engine's choices after it: *)
(* for every request and every complete world, however it lists our team,  *)
(* an accepted root offers exactly the submissions of its request, one for *)
(* each native choice of our side: a move as the move the request names,   *)
(* a switch as the one to the pokemon in that slot of the world.           *)
(***************************************************************************)
THEOREM RootsOfferTheSafeSet == SearchSpec => []RootActionsAreTheSafeSet
<1>1. SearchInit => RootsInv
  BY DEF SearchInit, RootsInv
<1>2. SearchInv /\ RootsInv /\ [SearchNext]_<<vars, searchVars>> => RootsInv'
  BY RootsStay
<1>3. RootsInv => RootActionsAreTheSafeSet
  BY DEF RootsInv, RootActionsAreTheSafeSet, OffersTheSafeSet, Prepared
<1> QED
  BY <1>1, <1>2, <1>3, SearchBegins, SearchGoesOn, PTL DEF SearchSpec

-----------------------------------------------------------------------------
(***************************************************************************)
(* Chances.  A recursion over a list computes what its steps allow, gcd is *)
(* a common divisor and LeastCommon a common multiple; so the chances of   *)
(* the successors are exact.                                               *)
(***************************************************************************)
LEMMA Induction ==
    ASSUME NEW T, NEW N \in Nat, 0 \in T, \A n \in 0..N : n \in T /\ n < N => n + 1 \in T
    PROVE  0..N \subseteq T
<1> DEFINE B == {n \in 0..N : n \notin T}
<1>1. SUFFICES ASSUME B # {} PROVE FALSE
  OBVIOUS
<1>2. PICK n \in B : \A m \in B : n <= m
  BY <1>1, Least, B \subseteq Nat
<1>3. n \in 0..N /\ n # 0 /\ n \notin T
  OBVIOUS
<1>4. n - 1 \in 0..N /\ n - 1 \notin B
  BY <1>2, <1>3
<1> QED
  BY <1>3, <1>4

\* A function on 1..n is a list of that length.
LEMMA LengthOfList ==
    ASSUME NEW n \in Nat, NEW s, s = [i \in 1..n |-> s[i]]
    PROVE  Len(s) = n /\ DOMAIN s = 1..n
<1>1. s \in Seq({s[i] : i \in 1..n})
  OBVIOUS
<1> QED
  BY <1>1

\* Divisors.
Divides(d, n) == \E k \in Nat : n = d * k

LEMMA Division ==
    ASSUME NEW a \in Nat, NEW b \in Nat, b > 0
    PROVE  a \div b \in Nat /\ a % b \in Nat /\ a % b < b /\ a = (b * (a \div b)) + (a % b)
OBVIOUS

LEMMA DivideExactly ==
    ASSUME NEW b \in Nat, b > 0, NEW x \in Nat
    PROVE  (b * x) \div b = x
OBVIOUS

LEMMA Distributed ==
    ASSUME NEW d \in Nat, NEW x \in Nat, NEW q \in Nat, NEW y \in Nat
    PROVE  /\ ((d * x) * q) + (d * y) = d * ((x * q) + y)
           /\ ((d * x) * q) = d * (x * q) /\ x * q \in Nat /\ (x * q) + y \in Nat
OBVIOUS

LEMMA Subtracted ==
    ASSUME NEW d \in Nat, NEW x \in Nat, NEW z \in Nat, NEW r \in Nat, d * x = (d * z) + r
    PROVE  r = d * (x - z) /\ (d > 0 => x - z \in Nat)
<1>1. d * (x - z) = (d * x) - (d * z)
  OBVIOUS
<1>2. r = d * (x - z)
  BY <1>1
<1>3. ASSUME d > 0, x < z PROVE FALSE
  <2>1. PICK k \in Nat : k > 0 /\ z = x + k
    <3>1. z - x \in Nat /\ z - x > 0 /\ z = x + (z - x)
      BY <1>3
    <3> QED
      BY <3>1
  <2>2. d * z = (d * x) + (d * k) /\ d * k > 0
    BY <1>3, <2>1
  <2> QED
    BY <2>2
<1> QED
  BY <1>2, <1>3

LEMMA DividesLess ==
    ASSUME NEW d \in Nat, NEW n \in Nat, n > 0, Divides(d, n)
    PROVE  d > 0 /\ d <= n
<1>1. PICK k \in Nat : n = d * k
  BY DEF Divides
<1>2. k # 0 /\ d # 0
  BY <1>1
<1>3. PICK j \in Nat : k = j + 1
  <2>1. k - 1 \in Nat /\ k = (k - 1) + 1
    BY <1>2
  <2> QED
    BY <2>1
<1>4. n = (d * j) + d /\ d * j \in Nat
  BY <1>1, <1>3
<1> QED
  BY <1>2, <1>4

\* Euclid: b and the rest have the divisors that a and b have.
LEMMA SameDivisors ==
    ASSUME NEW a \in Nat, NEW b \in Nat, b > 0, NEW d \in Nat, Divides(d, b)
    PROVE  Divides(d, a) <=> Divides(d, a % b)
<1>1. PICK y \in Nat : b = d * y
  BY DEF Divides
<1>2. PICK q \in Nat, r \in Nat : r = a % b /\ a = (b * q) + r
  <2>1. a \div b \in Nat /\ a % b \in Nat /\ a = (b * (a \div b)) + (a % b)
    BY Division
  <2> QED
    BY <2>1
<1>3. ASSUME Divides(d, a) PROVE Divides(d, a % b)
  <2>1. PICK x \in Nat : a = d * x
    BY <1>3 DEF Divides
  <2>2. b * q = d * (y * q) /\ y * q \in Nat
    BY <1>1, Distributed
  <2>3. d * x = (d * (y * q)) + r
    BY <1>2, <2>1, <2>2
  <2>4. d > 0
    BY DividesLess
  <2>5. r = d * (x - (y * q)) /\ x - (y * q) \in Nat
    BY <2>2, <2>3, <2>4, Subtracted
  <2> QED
    BY <1>2, <2>5 DEF Divides
<1>4. ASSUME Divides(d, a % b) PROVE Divides(d, a)
  <2>1. PICK x \in Nat : r = d * x
    BY <1>2, <1>4 DEF Divides
  <2>2. a = d * ((y * q) + x) /\ (y * q) + x \in Nat
    BY <1>1, <1>2, <2>1, Distributed
  <2> QED
    BY <2>2 DEF Divides
<1> QED
  BY <1>3, <1>4

Euclid(f) ==
    f = [ab \in Nat \X Nat |-> IF ab[2] = 0 THEN ab[1] ELSE f[<<ab[2], ab[1] % ab[2]>>]]
Common(a, b) == {d \in Nat : Divides(d, a) /\ Divides(d, b)}
Greatest(a, b) == CHOOSE d \in Common(a, b) : \A e \in Common(a, b) : e <= d

\* The greatest common divisor satisfies the recursion, so the recursion defines a function.
LEMMA EuclidExists == \E f : Euclid(f)
<1> DEFINE f == [ab \in Nat \X Nat |-> IF ab[2] = 0 THEN ab[1] ELSE Greatest(ab[1], ab[2])]
<1>1. \A a, b \in Nat : f[<<a, b>>] = IF b = 0 THEN a ELSE Greatest(a, b)
  OBVIOUS
<1> HIDE DEF f
<1>2. ASSUME NEW a \in Nat, NEW b \in Nat, b > 0
      PROVE  Greatest(a, b) = f[<<b, a % b>>]
  <2>1. PICK q \in Nat, r \in Nat : r = a % b /\ a = (b * q) + r
    BY <1>2, Division
  <2>2. CASE r = 0
    <3>1. b \in Common(a, b)
      <4>1. a = b * q /\ b = b * 1 /\ 1 \in Nat
        BY <2>1, <2>2
      <4> QED
        BY <4>1 DEF Common, Divides
    <3>2. \A e \in Common(a, b) : e <= b
      BY <1>2, DividesLess DEF Common
    <3>3. \A d \in Common(a, b) : (\A e \in Common(a, b) : e <= d) => d = b
      <4>1. Common(a, b) \subseteq Nat
        BY DEF Common
      <4> QED
        BY <3>1, <3>2, <4>1
    <3>4. Greatest(a, b) = b
      BY <3>1, <3>2, <3>3 DEF Greatest
    <3> QED
      BY <1>1, <2>1, <2>2, <3>4
  <2>3. CASE r # 0
    <3>1. Common(a, b) = Common(b, r)
      BY <1>2, <2>1, SameDivisors DEF Common
    <3>2. Greatest(a, b) = Greatest(b, r)
      BY <3>1 DEF Greatest
    <3> QED
      BY <1>1, <2>1, <2>3, <3>2
  <2> QED
    BY <2>2, <2>3
<1>3. Euclid(f)
  <2>1. \A ab \in Nat \X Nat : f[ab] = IF ab[2] = 0 THEN ab[1] ELSE f[<<ab[2], ab[1] % ab[2]>>]
    <3> SUFFICES ASSUME NEW a \in Nat, NEW b \in Nat
                 PROVE  f[<<a, b>>] = IF b = 0 THEN a ELSE f[<<b, a % b>>]
      OBVIOUS
    <3> QED
      BY <1>1, <1>2
  <2>2. f = [ab \in Nat \X Nat |-> f[ab]]
    BY DEF f
  <2> QED
    BY <2>1, <2>2 DEF Euclid
<1> QED
  BY <1>3

LEMMA GcdStep ==
    ASSUME NEW a \in Nat, NEW b \in Nat
    PROVE  gcd[<<a, b>>] = IF b = 0 THEN a ELSE gcd[<<b, a % b>>]
<1>1. gcd = CHOOSE f : Euclid(f)
  BY DEF gcd, Euclid
<1>2. Euclid(gcd)
  BY <1>1, EuclidExists
<1>3. PICK f : f = gcd /\ Euclid(f)
  BY <1>2
<1>4. <<a, b>> \in Nat \X Nat /\ <<a, b>>[1] = a /\ <<a, b>>[2] = b
  OBVIOUS
<1> QED
  BY <1>3, <1>4 DEF Euclid

\* gcd is a common divisor.
IsDivisor(g, a, b) == g \in Nat /\ Divides(g, a) /\ Divides(g, b) /\ (a + b > 0 => g > 0)

LEMMA GcdDivides ==
    ASSUME NEW a \in Nat, NEW b \in Nat
    PROVE  IsDivisor(gcd[<<a, b>>], a, b)
<1> DEFINE T == {n \in Nat : \E m \in Nat : ~IsDivisor(gcd[<<m, n>>], m, n)}
<1>1. ASSUME T # {} PROVE FALSE
  <2>1. PICK n \in T : \A k \in T : n <= k
    BY <1>1, Least
  <2>2. PICK m \in Nat : ~IsDivisor(gcd[<<m, n>>], m, n)
    BY <2>1
  <2>3. CASE n = 0
    <3>1. gcd[<<m, n>>] = m
      BY <2>3, GcdStep
    <3>2. m = m * 1 /\ 0 = m * 0 /\ 1 \in Nat /\ 0 \in Nat
      OBVIOUS
    <3>3. IsDivisor(m, m, 0)
      BY <3>2 DEF IsDivisor, Divides
    <3> QED
      BY <2>2, <2>3, <3>1, <3>3
  <2>4. CASE n > 0
    <3>1. n \in Nat /\ m % n \in Nat /\ m % n < n
      BY <2>1, <2>4, Division
    <3>2. m % n \notin T
      <4>1. PICK k \in Nat : k = m % n /\ k < n
        BY <3>1
      <4>2. \A i \in T : n <= i
        BY <2>1
      <4> HIDE DEF T
      <4>3. k \notin T
        BY <3>1, <4>1, <4>2
      <4> QED
        BY <4>1, <4>3
    <3> DEFINE g == gcd[<<m, n>>]
    <3>3. g = gcd[<<n, m % n>>]
      BY <2>4, <3>1, GcdStep
    <3>4. IsDivisor(g, n, m % n)
      BY <3>1, <3>2, <3>3
    <3> HIDE DEF g
    <3>5. g > 0 /\ g \in Nat /\ Divides(g, n) /\ Divides(g, m)
      BY <2>4, <3>1, <3>4, SameDivisors DEF IsDivisor
    <3> QED
      BY <2>2, <3>5 DEF IsDivisor, g
  <2> QED
    BY <2>1, <2>3, <2>4
<1> QED
  BY <1>1

LEMMA DividesOn ==
    ASSUME NEW d \in Nat, NEW m \in Nat, NEW n \in Nat, Divides(d, m), Divides(m, n)
    PROVE  Divides(d, n)
<1>1. PICK k \in Nat, j \in Nat : m = d * k /\ n = m * j
  BY DEF Divides
<1>2. n = d * (k * j) /\ k * j \in Nat
  BY <1>1, Distributed
<1> QED
  BY <1>2 DEF Divides

\* x times what d has and x has not: the step of a least common multiple.
LEMMA CommonMultiple ==
    ASSUME NEW x \in Nat, x > 0, NEW d \in Nat, d > 0,
           NEW m, m = x * (d \div gcd[<<x, d>>])
    PROVE  m \in Nat /\ m > 0 /\ Divides(x, m) /\ Divides(d, m)
<1>1. PICK g : g = gcd[<<x, d>>] /\ IsDivisor(g, x, d)
  BY GcdDivides
<1>2. g \in Nat /\ g > 0
  BY <1>1 DEF IsDivisor
<1>3. PICK k \in Nat, j \in Nat : x = g * k /\ d = g * j
  BY <1>1 DEF IsDivisor, Divides
<1>4. d \div g = j
  BY <1>2, <1>3, DivideExactly
<1>5. m = x * j /\ j # 0
  <2>1. m = x * (d \div g)
    BY <1>1
  <2>2. j # 0
    BY <1>2, <1>3
  <2> QED
    BY <1>4, <2>1, <2>2
<1>6. m \in Nat /\ m > 0
  BY <1>5
<1>7. m = d * k
  <2>1. (g * k) * j = (g * j) * k
    BY <1>2
  <2> QED
    BY <1>3, <1>5, <2>1
<1> QED
  BY <1>5, <1>6, <1>7 DEF Divides

\* Recursion over 1..n: a function that begins with a and goes from one value to the next.
Recursions(n, S, a, goes) ==
    {f \in [0..n -> S] : f[0] = a /\ \A i \in 1..n : f[i] = goes[<<f[i - 1], i>>]}

LEMMA RecursionExists ==
    ASSUME NEW n \in Nat, NEW S, NEW a \in S, NEW goes,
           \A x \in S, i \in 1..n : goes[<<x, i>>] \in S
    PROVE  Recursions(n, S, a, goes) # {}
<1> DEFINE Upto(f, m) == /\ f \in [0..n -> S] /\ f[0] = a
                         /\ \A i \in 1..m : f[i] = goes[<<f[i - 1], i>>]
           T == {m \in 0..n : \E f : Upto(f, m)}
<1>1. 0 \in T
  <2> DEFINE f == [i \in 0..n |-> a]
  <2>1. Upto(f, 0)
    OBVIOUS
  <2> HIDE DEF f, Upto
  <2> QED
    BY <2>1
<1>2. ASSUME NEW m \in 0..n, m \in T, m < n PROVE m + 1 \in T
  <2>1. PICK f : Upto(f, m)
    BY <1>2
  <2>2. m + 1 \in 1..n /\ f[m] \in S
    BY <1>2, <2>1
  <2>3. goes[<<f[m], m + 1>>] \in S
    BY <2>2
  <2> DEFINE h == [f EXCEPT ![m + 1] = goes[<<f[m], m + 1>>]]
  <2>4. h \in [0..n -> S] /\ h[m + 1] = goes[<<f[m], m + 1>>]
    BY <2>1, <2>2, <2>3
  <2>5. \A i \in 0..n : i # m + 1 => h[i] = f[i]
    BY <2>1
  <2> HIDE DEF h
  <2>6. ASSUME NEW i \in 1..(m + 1) PROVE h[i] = goes[<<h[i - 1], i>>]
    <3>1. CASE i = m + 1
      BY <2>2, <2>4, <2>5, <3>1
    <3>2. CASE i \in 1..m
      <4>1. i \in 0..n /\ i - 1 \in 0..n /\ i # m + 1 /\ i - 1 # m + 1
        BY <2>2, <3>2
      <4> QED
        BY <2>1, <2>5, <3>2, <4>1
    <3> QED
      BY <3>1, <3>2
  <2>7. h[0] = a
    BY <2>1, <2>2, <2>5
  <2>8. Upto(h, m + 1)
    BY <2>4, <2>6, <2>7
  <2> HIDE DEF Upto
  <2> QED
    BY <2>2, <2>8
<1> HIDE DEF T
<1>3. 0..n \subseteq T
  BY <1>1, <1>2, Induction
<1>4. n \in T
  BY <1>3
<1> QED
  BY <1>4 DEF T, Recursions

\* What Sum computes: at least each of the weights.
Adds(f, n, w) == f = [i \in 0..n |-> IF i = 0 THEN 0 ELSE f[i - 1] + w[i]]

LEMMA SumBounds ==
    ASSUME NEW n \in Nat, NEW w, Len(w) = n, \A i \in 1..n : w[i] \in Nat
    PROVE  Sum(w) \in Nat /\ \A j \in 1..n : w[j] <= Sum(w)
<1>1. Sum(w) = (CHOOSE f : Adds(f, n, w))[n]
  BY DEF Sum, Adds
<1>2. \E f : Adds(f, n, w)
  <2> DEFINE goes == [xi \in Nat \X (1..n) |-> xi[1] + w[xi[2]]]
  <2>1. \A x \in Nat, i \in 1..n : goes[<<x, i>>] \in Nat
    OBVIOUS
  <2>2. \A x \in Nat, i \in 1..n : goes[<<x, i>>] = x + w[i]
    OBVIOUS
  <2> HIDE DEF goes
  <2>3. PICK f \in [0..n -> Nat] : f[0] = 0 /\ \A i \in 1..n : f[i] = goes[<<f[i - 1], i>>]
    <3>1. Recursions(n, Nat, 0, goes) # {}
      <4>1. 0 \in Nat
        OBVIOUS
      <4> QED
        BY <2>1, <4>1, RecursionExists
    <3> QED
      BY <3>1 DEF Recursions
  <2>4. \A i \in 0..n : f[i] = IF i = 0 THEN 0 ELSE f[i - 1] + w[i]
    <3>1. \A i \in 0..n : i = 0 \/ (i \in 1..n /\ i - 1 \in 0..n)
      OBVIOUS
    <3>2. ASSUME NEW i \in 1..n PROVE f[i] = f[i - 1] + w[i]
      <4>1. i - 1 \in 0..n
        OBVIOUS
      <4>2. f[i - 1] \in Nat /\ f[i] = goes[<<f[i - 1], i>>]
        BY <2>3, <4>1
      <4> QED
        BY <2>2, <4>2
    <3>3. ASSUME NEW i \in 0..n PROVE f[i] = IF i = 0 THEN 0 ELSE f[i - 1] + w[i]
      <4>1. CASE i = 0
        BY <2>3, <4>1
      <4>2. CASE i \in 1..n /\ i # 0
        BY <3>2, <4>2
      <4> QED
        BY <3>1, <4>1, <4>2
    <3> QED
      BY <3>3
  <2>5. Adds(f, n, w)
    BY <2>4 DEF Adds
  <2> QED
    BY <2>5
<1>3. PICK f : Adds(f, n, w) /\ Sum(w) = f[n]
  BY <1>1, <1>2
<1>4. f[0] = 0 /\ \A i \in 1..n : f[i] = f[i - 1] + w[i]
  <2>1. \A i \in 0..n : f[i] = IF i = 0 THEN 0 ELSE f[i - 1] + w[i]
    BY <1>3 DEF Adds
  <2> QED
    BY <2>1
<1> DEFINE T == {i \in 0..n : f[i] \in Nat /\ \A j \in 1..i : w[j] <= f[i]}
<1>5. 0 \in T
  BY <1>4
<1>6. ASSUME NEW m \in 0..n, m \in T, m < n PROVE m + 1 \in T
  <2>1. m + 1 \in 1..n /\ (m + 1) - 1 = m
    BY <1>6
  <2>2. f[m + 1] = f[m] + w[m + 1] /\ f[m] \in Nat /\ w[m + 1] \in Nat
    BY <1>4, <1>6, <2>1
  <2>3. \A j \in 1..m : w[j] <= f[m] /\ w[j] \in Nat
    <3>1. \A j \in 1..m : j \in 1..n
      BY <2>1
    <3>2. \A j \in 1..m : w[j] <= f[m]
      BY <1>6
    <3> QED
      BY <3>1, <3>2
  <2>4. ASSUME NEW j \in 1..(m + 1) PROVE w[j] <= f[m + 1]
    <3>1. j = m + 1 \/ j \in 1..m
      OBVIOUS
    <3> QED
      BY <2>2, <2>3, <3>1
  <2>5. f[m + 1] \in Nat /\ m + 1 \in 0..n
    BY <2>1, <2>2
  <2> QED
    BY <2>4, <2>5
<1> HIDE DEF T
<1>7. 0..n \subseteq T
  BY <1>5, <1>6, Induction
<1>8. n \in T
  BY <1>7
<1> QED
  BY <1>3, <1>8 DEF T

\* What LeastCommon computes: a multiple of each denominator.
Multiplies(f, n, d) ==
    f = [i \in 0..n |-> IF i = 0 THEN 1 ELSE f[i - 1] * (d[i] \div gcd[<<f[i - 1], d[i]>>])]

LEMMA LeastCommonDivided ==
    ASSUME NEW n \in Nat, NEW d, Len(d) = n,
           \A i \in 1..n : d[i] \in Nat /\ d[i] > 0
    PROVE  /\ LeastCommon(d) \in Nat /\ LeastCommon(d) > 0
           /\ \A j \in 1..n : Divides(d[j], LeastCommon(d))
<1>2. LeastCommon(d) = (CHOOSE f : Multiplies(f, n, d))[n]
  BY DEF LeastCommon, Multiplies
<1> DEFINE Positive == Nat \ {0}
           Times(x, i) == x * (d[i] \div gcd[<<x, d[i]>>])
<1>3. ASSUME NEW x \in Positive, NEW i \in 1..n
      PROVE  Times(x, i) \in Positive /\ Divides(x, Times(x, i)) /\ Divides(d[i], Times(x, i))
  BY CommonMultiple
<1> HIDE DEF Times
<1>4. \E f : Multiplies(f, n, d)
  <2> DEFINE goes == [xi \in Positive \X (1..n) |-> Times(xi[1], xi[2])]
  <2>1. \A x \in Positive, i \in 1..n : goes[<<x, i>>] \in Positive
    BY <1>3
  <2>2. \A x \in Positive, i \in 1..n : goes[<<x, i>>] = Times(x, i)
    OBVIOUS
  <2> HIDE DEF goes, Positive
  <2>3. PICK f \in [0..n -> Positive] : f[0] = 1 /\ \A i \in 1..n : f[i] = goes[<<f[i - 1], i>>]
    <3>1. 1 \in Positive
      BY DEF Positive
    <3>2. Recursions(n, Positive, 1, goes) # {}
      BY <2>1, <3>1, RecursionExists
    <3> QED
      BY <3>2 DEF Recursions
  <2>4. \A i \in 0..n : f[i] = IF i = 0 THEN 1 ELSE Times(f[i - 1], i)
    <3>1. \A i \in 0..n : i = 0 \/ (i \in 1..n /\ i - 1 \in 0..n)
      OBVIOUS
    <3>2. ASSUME NEW i \in 1..n PROVE f[i] = Times(f[i - 1], i)
      <4>1. i - 1 \in 0..n
        OBVIOUS
      <4>2. f[i - 1] \in Positive /\ f[i] = goes[<<f[i - 1], i>>]
        BY <2>3, <4>1
      <4> QED
        BY <2>2, <4>2
    <3>3. ASSUME NEW i \in 0..n PROVE f[i] = IF i = 0 THEN 1 ELSE Times(f[i - 1], i)
      <4>1. CASE i = 0
        BY <2>3, <4>1
      <4>2. CASE i \in 1..n /\ i # 0
        BY <3>2, <4>2
      <4> QED
        BY <3>1, <4>1, <4>2
    <3> QED
      BY <3>3
  <2>5. f = [i \in 0..n |-> IF i = 0 THEN 1 ELSE Times(f[i - 1], i)]
    BY <2>4
  <2>6. Multiplies(f, n, d)
    BY <2>5 DEF Multiplies, Times
  <2> QED
    BY <2>6
<1>5. PICK f : Multiplies(f, n, d) /\ LeastCommon(d) = f[n]
  BY <1>2, <1>4
<1>6. f[0] = 1 /\ \A i \in 1..n : f[i] = Times(f[i - 1], i)
  <2>1. \A i \in 0..n : f[i] = IF i = 0 THEN 1 ELSE Times(f[i - 1], i)
    BY <1>5 DEF Multiplies, Times
  <2> QED
    BY <2>1
<1> DEFINE T == {i \in 0..n : f[i] \in Positive /\ \A j \in 1..i : Divides(d[j], f[i])}
<1>7. 0 \in T
  BY <1>6
<1>8. ASSUME NEW m \in 0..n, m \in T, m < n PROVE m + 1 \in T
  <2>1. m + 1 \in 1..n /\ (m + 1) - 1 = m
    BY <1>8
  <2>2. f[m] \in Positive /\ f[m + 1] = Times(f[m], m + 1)
    BY <1>6, <1>8, <2>1
  <2>3. f[m + 1] \in Positive /\ Divides(f[m], f[m + 1]) /\ Divides(d[m + 1], f[m + 1])
    BY <1>3, <2>1, <2>2
  <2>4. ASSUME NEW j \in 1..(m + 1) PROVE Divides(d[j], f[m + 1])
    <3>1. CASE j = m + 1
      BY <2>3, <3>1
    <3>2. CASE j \in 1..m
      <4>1. Divides(d[j], f[m])
        BY <1>8, <3>2
      <4>2. d[j] \in Nat /\ f[m] \in Nat /\ f[m + 1] \in Nat
        BY <2>1, <2>2, <2>3, <3>2
      <4> QED
        BY <2>3, <4>1, <4>2, DividesOn
    <3> QED
      BY <3>1, <3>2
  <2>5. m + 1 \in 0..n
    BY <2>1
  <2> QED
    BY <2>3, <2>4, <2>5
<1> HIDE DEF T
<1>9. 0..n \subseteq T
  BY <1>7, <1>8, Induction
<1>10. n \in T
  BY <1>9
<1>11. LeastCommon(d) \in Positive /\ \A j \in 1..n : Divides(d[j], LeastCommon(d))
  BY <1>5, <1>10 DEF T
<1> QED
  BY <1>11

\* A fraction over a common multiple of its denominator is exact.
Exact(num, den, weight, total) == num > 0 /\ num * total = den * weight

LEMMA ExactShare ==
    ASSUME NEW weight \in Nat, weight > 0, NEW total \in Nat, total > 0, NEW den \in Nat, den > 0,
           Divides(total \div gcd[<<weight, total>>], den),
           NEW num, num = (weight * den) \div total
    PROVE  Exact(num, den, weight, total)
<1>1. PICK g : g = gcd[<<weight, total>>] /\ IsDivisor(g, weight, total)
  BY GcdDivides
<1>2. g \in Nat /\ g > 0
  BY <1>1 DEF IsDivisor
<1>3. PICK x \in Nat, y \in Nat : weight = g * x /\ total = g * y
  BY <1>1 DEF IsDivisor, Divides
<1>4. total \div g = y /\ x > 0
  BY <1>2, <1>3, DivideExactly
<1>5. PICK k \in Nat : den = y * k
  BY <1>1, <1>4 DEF Divides
<1>6. weight * den = total * (x * k) /\ x * k \in Nat /\ k > 0
  <2>1. (g * x) * (y * k) = (g * y) * (x * k)
    BY <1>2
  <2> QED
    BY <1>3, <1>5, <2>1
<1>7. num = x * k
  BY <1>6, DivideExactly
<1>8. x * k > 0
  BY <1>4, <1>6
<1>9. (x * k) * total = total * (x * k) /\ weight * den = den * weight
  OBVIOUS
<1> QED
  BY <1>6, <1>7, <1>8, <1>9 DEF Exact

\* The successors of a list that passed its checks.
LEMMA SuccessorsExact ==
    ASSUME NEW n \in Nat, n > 0, NEW list, DOMAIN list = 1..n,
           \A i \in 1..n : list[i].weight \in Nat /\ list[i].weight > 0
    PROVE  /\ \A s, t \in Successors(list) : s.state = t.state => s = t
           /\ \A s \in Successors(list) :
                 /\ s.num > 0
                 /\ s.num * Sum([i \in DOMAIN list |-> list[i].weight])
                      = s.den * WeightOf(list, s.state)
<1> DEFINE weights == [i \in 1..n |-> list[i].weight]
           total == Sum(weights)
           Den(state) == total \div gcd[<<WeightOf(list, state), total>>]
           dens == [i \in 1..n |-> Den(list[i].state)]
           den == LeastCommon(dens)
           Share(state) ==
               [state |-> state, num |-> (WeightOf(list, state) * den) \div total, den |-> den]
<1>2. Successors(list) = {Share(state) : state \in {list[i].state : i \in 1..n}}
  BY DEF Successors
<1>3. total \in Nat /\ total > 0
  <2>1. total \in Nat /\ \A j \in 1..n : weights[j] <= total
    BY LengthOfList, SumBounds
  <2> HIDE DEF total
  <2>2. weights[1] > 0 /\ weights[1] <= total /\ weights[1] \in Nat
    BY <2>1
  <2> QED
    BY <2>1, <2>2
<1>4. ASSUME NEW i \in 1..n
      PROVE  WeightOf(list, list[i].state) \in Nat /\ WeightOf(list, list[i].state) > 0
  <2> DEFINE own == [j \in 1..n |-> IF list[j].state = list[i].state THEN list[j].weight ELSE 0]
  <2>1. WeightOf(list, list[i].state) = Sum(own)
    BY DEF WeightOf
  <2>2. Sum(own) \in Nat /\ \A j \in 1..n : own[j] <= Sum(own)
    BY LengthOfList, SumBounds
  <2>3. own[i] > 0 /\ own[i] \in Nat
    OBVIOUS
  <2> HIDE DEF own
  <2> QED
    BY <2>1, <2>2, <2>3
<1> HIDE DEF total
<1>5. ASSUME NEW i \in 1..n PROVE Den(list[i].state) \in Nat /\ Den(list[i].state) > 0
  <2>1. PICK w, g : /\ w = WeightOf(list, list[i].state) /\ w \in Nat
                    /\ g = gcd[<<w, total>>] /\ IsDivisor(g, w, total)
    BY <1>3, <1>4, GcdDivides
  <2>2. PICK y \in Nat : total = g * y
    BY <2>1 DEF IsDivisor, Divides
  <2>3. g \in Nat /\ g > 0 /\ y > 0
    BY <1>3, <2>1, <2>2 DEF IsDivisor
  <2>4. total \div g = y
    BY <2>2, <2>3, DivideExactly
  <2> QED
    BY <2>1, <2>3, <2>4
<1> HIDE DEF Den
<1>6. den \in Nat /\ den > 0 /\ \A j \in 1..n : Divides(dens[j], den)
  BY <1>5, LengthOfList, LeastCommonDivided
<1> HIDE DEF den
<1>7. \A state : Share(state).state = state /\ Share(state).den = den
                   /\ Share(state).num = (WeightOf(list, state) * den) \div total
  OBVIOUS
<1> HIDE DEF Share
<1>8. ASSUME NEW i \in 1..n
      PROVE  LET s == Share(list[i].state)
             IN  s.num > 0 /\ s.num * total = s.den * WeightOf(list, s.state)
  <2>1. PICK weight, num : /\ weight = WeightOf(list, list[i].state) /\ weight \in Nat /\ weight > 0
                           /\ num = (weight * den) \div total
    BY <1>4
  <2>2. Divides(total \div gcd[<<weight, total>>], den)
    BY <1>6, <2>1 DEF Den
  <2>3. weight > 0 /\ total > 0 /\ den > 0 /\ weight \in Nat /\ total \in Nat /\ den \in Nat
    BY <1>3, <1>6, <2>1
  <2>4. num = (weight * den) \div total
    BY <2>1
  <2>5. Exact(num, den, weight, total)
    BY <2>2, <2>3, <2>4, ExactShare
  <2> QED
    BY <1>7, <2>1, <2>5 DEF Exact
<1>9. \A s, t \in Successors(list) : s.state = t.state => s = t
  BY <1>2, <1>7
<1>10. ASSUME NEW s \in Successors(list)
       PROVE  s.num > 0 /\ s.num * total = s.den * WeightOf(list, s.state)
  <2>1. PICK i \in 1..n : s = Share(list[i].state)
    BY <1>2
  <2> QED
    BY <1>8, <2>1
<1>11. total = Sum([i \in DOMAIN list |-> list[i].weight])
  BY DEF total
<1> QED
  BY <1>9, <1>10, <1>11

\* What Transition returns is nothing, or a bound pair's checked list with its successors.
LEMMA ReturnedList ==
    ASSUME NEW w, NEW a1, NEW a2, NEW joint, NEW weights, NEW damage, NEW fault,
           Transition(w, a1, a2, joint, weights, damage, fault)
    PROVE  LET list == Instructions(worlds[w].state, joint.b1.choice, joint.b2.choice,
                                    weights, damage)
           IN  \/ last'.value = {}
               \/ /\ joint.failure = "ok"
                  /\ list # << >> /\ \A i \in DOMAIN list : list[i].weight > 0
                  /\ \A v \in last'.value : v.list = list /\ v.successors = Successors(list)
<1> DEFINE early == BindingReport(fault, joint.failure)
           list == Instructions(worlds[w].state, joint.b1.choice, joint.b2.choice, weights, damage)
           report == IF early.class # "ok" THEN early ELSE AnswerReport(list, fault)
           class == report.class
           successors == Successors(list)
           owner == [p \in Players |-> IF AtRoot(worlds[w], p) THEN worlds[w].root ELSE None]
<1>1. last' = Called("transition", class,
                     IF class = "ok"
                     THEN {[list |-> list, successors |-> successors,
                            played |-> [p1 |-> a1.root, p2 |-> a2.root], owner |-> owner]}
                     ELSE {})
  BY DEF Transition
<1>2. class = "ok" => early.class = "ok" /\ AnswerReport(list, fault).class = "ok"
  OBVIOUS
<1> HIDE DEF early, list
<1>3. class = "ok" => /\ joint.failure = "ok"
                      /\ list # << >> /\ \A i \in DOMAIN list : list[i].weight > 0
  BY <1>2, BindingReports, AnswerReports DEF early
<1> HIDE DEF class, report, successors, owner
<1>4. last'.value = IF class = "ok" THEN {[list |-> list, successors |-> successors,
                                           played |-> [p1 |-> a1.root, p2 |-> a2.root],
                                           owner |-> owner]}
                    ELSE {}
  BY <1>1, CalledFields
<1> QED
  BY <1>3, <1>4 DEF list, successors

LEMMA ChancesStay ==
    ASSUME ChanceIsExact, [SearchNext]_<<vars, searchVars>>
    PROVE  ChanceIsExact'
<1>1. CASE UNCHANGED last
  BY <1>1 DEF ChanceIsExact
<1>2. CASE last'.call # "transition"
  BY <1>2 DEF ChanceIsExact
<1>3. CASE \E w \in Prepared : Play(w)
  <2>1. PICK w \in Prepared : Play(w)
    BY <1>3
  <2>2. PICK a1, a2, joint, answer, damage :
            /\ joint.failure = "ok" => answer \in Answers
            /\ Transition(w, a1, a2, joint, answer.weights, damage, answer.fault)
    BY <2>1 DEF Play
  <2> DEFINE weights == answer.weights
             state == worlds[w].state
             list == Instructions(state, joint.b1.choice, joint.b2.choice, weights, damage)
  <2>3. \/ last'.value = {}
        \/ /\ joint.failure = "ok"
           /\ list # << >> /\ \A i \in DOMAIN list : list[i].weight > 0
           /\ \A v \in last'.value : v.list = list /\ v.successors = Successors(list)
    BY <2>2, ReturnedList
  <2>4. CASE last'.value = {}
    BY <2>4 DEF ChanceIsExact
  <2>5. CASE /\ joint.failure = "ok"
             /\ list # << >> /\ \A i \in DOMAIN list : list[i].weight > 0
             /\ \A v \in last'.value : v.list = list /\ v.successors = Successors(list)
    <3>1. weights \in Seq(Int)
      BY <2>2, <2>5, WeightsAssumption
    <3>2. PICK n \in Nat : DOMAIN weights = 1..n /\ \A i \in 1..n : weights[i] \in Int
      BY <3>1
    <3>3. list = [i \in 1..n |-> list[i]] /\ \A i \in 1..n : list[i].weight = weights[i]
      BY <3>2 DEF Instructions
    <3> HIDE DEF list, weights
    <3>4. list # << >> /\ \A i \in DOMAIN list : list[i].weight > 0
      BY <2>5
    <3>5. n > 0
      BY <3>3, <3>4
    <3>6. \A i \in 1..n : list[i].weight \in Nat /\ list[i].weight > 0
      BY <3>2, <3>3, <3>4
    <3>7. /\ \A s, t \in Successors(list) : s.state = t.state => s = t
          /\ \A s \in Successors(list) :
                /\ s.num > 0
                /\ s.num * Sum([i \in DOMAIN list |-> list[i].weight])
                     = s.den * WeightOf(list, s.state)
      BY <3>3, <3>5, <3>6, SuccessorsExact
    <3> QED
      BY <2>5, <3>7 DEF ChanceIsExact
  <2> QED
    BY <2>3, <2>4, <2>5
<1>4. CASE Next /\ UNCHANGED searchVars
  BY <1>1, <1>4 DEF searchVars
<1>5. CASE Return
  <2>1. last'.call = "none"
    BY <1>5, IdleFields DEF Return
  <2> QED
    BY <1>2, <2>1
<1>6. CASE \E i, s : Initialize(i, s)
  <2>1. \E class, value : last' = Called("initialize", class, value)
    BY <1>6 DEF Initialize
  <2>2. last'.call = "initialize"
    BY <2>1, CalledFields
  <2> QED
    BY <1>2, <2>2
<1>7. CASE \E w, request, safe, observed, doc, given, fault :
              PrepareBattleRoot(w, request, safe, observed, doc, given, fault)
  <2>1. PICK w, request, safe, observed, doc, given, fault :
            PrepareBattleRoot(w, request, safe, observed, doc, given, fault)
    BY <1>7
  <2>3. \E class : last' = Called("prepare", class, {})
    BY <2>1 DEF PrepareBattleRoot
  <2>2. last'.call = "prepare"
    BY <2>3, CalledFields
  <2> QED
    BY <1>2, <2>2
<1>8. CASE \E w, identity, actions : PrepareRoot(w, identity, actions)
  <2>1. \E class, value : last' = Called("prepare_root", class, value)
    BY <1>8 DEF PrepareRoot
  <2>2. last'.call = "prepare_root"
    BY <2>1, CalledFields
  <2> QED
    BY <1>2, <2>2
<1>9. CASE \E w, player, fault : AskLegalActions(w, player, fault)
  <2>1. \E class : last' = Called("legal_actions", class, {})
    BY <1>9 DEF AskLegalActions
  <2>2. last'.call = "legal_actions"
    BY <2>1, CalledFields
  <2> QED
    BY <1>2, <2>2
<1> QED
  BY <1>1, <1>3, <1>4, <1>5, <1>6, <1>7, <1>8, <1>9 DEF SearchNext, searchVars

(***************************************************************************)
(* _mapped_successors and _successors: whatever weights the engine gives   *)
(* to whatever states, equal states are one successor, and its numerator   *)
(* over the common denominator is exactly the share of its weight.         *)
(***************************************************************************)
THEOREM ChancesAreExact == SearchSpec => []ChanceIsExact
<1>1. SearchInit => ChanceIsExact
  BY IdleFields DEF SearchInit, ChanceIsExact
<1>2. ChanceIsExact /\ [SearchNext]_<<vars, searchVars>> => ChanceIsExact'
  BY ChancesStay
<1> QED
  BY <1>1, <1>2, PTL DEF SearchSpec

-----------------------------------------------------------------------------
(***************************************************************************)
(* What a player sees.  A view is made of what the player knows, so two    *)
(* walks it could not tell apart end in the same view.                     *)
(***************************************************************************)
LEMMA SameTuple ==
    ASSUME NEW a, NEW b, NEW c, NEW d, NEW e, NEW f, NEW u, NEW v, NEW w, NEW x, NEW y, NEW z,
           <<a, b, c, d, e, f>> = <<u, v, w, x, y, z>>
    PROVE  a = u /\ b = v /\ c = w /\ d = x /\ e = y /\ f = z
OBVIOUS

LEMMA SameFace ==
    ASSUME NEW p \in Players, NEW x, NEW y, NEW precision,
           KnownTo(p, x, precision) = KnownTo(p, y, precision),
           x[Other(p)].active = y[Other(p)].active
    PROVE  /\ x[p] = y[p] /\ x.weather = y.weather
           /\ \A q \in Players : PublicActive(x[q], p = q, precision[q])
                                   = PublicActive(y[q], p = q, precision[q])
<1> DEFINE o == Other(p)
           seen == precision[o]
           Bar(side) == IF seen[1] = "exact" THEN <<Active(side).hp, Active(side).maxhp>>
                        ELSE Round(Active(side).hp * (IF seen[1] = "pixel" THEN seen[2] ELSE 100),
                                   Active(side).maxhp)
           Known(z) == <<z[p], Active(z[o]).id, Bar(z[o]), Active(z[o]).look, Active(z[o]).tera,
                         z.weather>>
<1>1. KnownTo(p, x, precision) = Known(x) /\ KnownTo(p, y, precision) = Known(y)
  BY DEF KnownTo
<1>2. x[o].active = y[o].active
  OBVIOUS
<1>3. \A q \in Players : q = p \/ (q = o /\ ~(p = q))
  BY DEF Players, Other
<1>4. Known(x) = Known(y)
  BY <1>1
<1> HIDE DEF Bar, o
<1>5. /\ x[p] = y[p] /\ Active(x[o]).id = Active(y[o]).id /\ Bar(x[o]) = Bar(y[o])
      /\ Active(x[o]).look = Active(y[o]).look /\ Active(x[o]).tera = Active(y[o]).tera
      /\ x.weather = y.weather
  BY <1>4, SameTuple, Zenon
<1>6. \A side : PublicActive(side, FALSE, seen) =
         [active |-> side.active, id |-> Active(side).id, hp |-> Bar(side),
          look |-> Active(side).look, tera |-> Active(side).tera]
  BY DEF PublicActive, Bar
<1>7. PublicActive(x[o], FALSE, seen) = PublicActive(y[o], FALSE, seen)
  BY <1>2, <1>5, <1>6
<1> QED
  BY <1>5, <1>7, <1>3

LEMMA SameStep ==
    ASSUME NEW p \in Players, NEW precision, NEW view, NEW x, NEW y, NEW s, NEW t,
           KnownTo(p, x, precision) = KnownTo(p, y, precision),
           x[Other(p)].active = y[Other(p)].active,
           KnownTo(p, s, precision) = KnownTo(p, t, precision),
           s[Other(p)].active = t[Other(p)].active
    PROVE  NextView(view, x, s, p, precision) = NextView(view, y, t, p, precision)
<1>1. /\ x[p] = y[p] /\ x.weather = y.weather
      /\ \A q \in Players : PublicActive(x[q], p = q, precision[q])
                              = PublicActive(y[q], p = q, precision[q])
  BY SameFace
<1>2. /\ s[p] = t[p] /\ s.weather = t.weather
      /\ \A q \in Players : PublicActive(s[q], p = q, precision[q])
                              = PublicActive(t[q], p = q, precision[q])
  BY SameFace
<1>3. PublicDelta(x, s, p, precision) = PublicDelta(y, t, p, precision)
  BY <1>1, <1>2 DEF PublicDelta
<1> QED
  BY <1>2, <1>3 DEF NextView

LEMMA SameViews ==
    ASSUME NEW p \in Players, NEW v, NEW w, Walked(v), Walked(w), v.ply = w.ply,
           v.root.observed = w.root.observed,
           \A k \in DOMAIN v.path :
              /\ KnownTo(p, v.path[k], PublicHp(v.root.observed))
                   = KnownTo(p, w.path[k], PublicHp(v.root.observed))
              /\ v.path[k][Other(p)].active = w.path[k][Other(p)].active
    PROVE  v.views[p] = w.views[p]
<1> DEFINE n == v.ply
           precision == PublicHp(v.root.observed)
<1>1. PICK g : Views(v, p, g)
  BY DEF Walked
<1>2. PICK h : Views(w, p, h)
  BY DEF Walked
<1>3. n \in Nat /\ DOMAIN v.path = 1..(n + 1)
  BY DEF Walked
<1> DEFINE Apart == {k \in 1..(n + 1) : g[k] # h[k]}
<1>4. Apart = {}
  <2> SUFFICES ASSUME Apart # {} PROVE FALSE
    OBVIOUS
  <2>1. PICK k \in Apart : \A m \in Apart : k <= m
    BY Least, Apart \subseteq Nat
  <2>2. CASE k = 1
    <3>1. v.path[1][p] = w.path[1][p]
      <4>1. /\ KnownTo(p, v.path[1], precision) = KnownTo(p, w.path[1], precision)
            /\ v.path[1][Other(p)].active = w.path[1][Other(p)].active
        BY <1>3
      <4> QED
        BY <4>1, SameFace
    <3>2. RootView(v.path[1], v.root.observed, p) = RootView(w.path[1], w.root.observed, p)
      BY <3>1 DEF RootView
    <3> QED
      BY <1>1, <1>2, <2>1, <2>2, <3>2 DEF Views
  <2>3. CASE k # 1
    <3>1. PICK j \in 1..n : k = j + 1
      <4>1. k - 1 \in 1..n /\ k = (k - 1) + 1
        BY <1>3, <2>1, <2>3
      <4> QED
        BY <4>1
    <3>2. g[j] = h[j] /\ j \in DOMAIN v.path /\ k \in DOMAIN v.path
      BY <1>3, <2>1, <3>1
    <3>3. /\ g[k] = NextView(g[j], v.path[j], v.path[k], p, precision)
          /\ h[k] = NextView(h[j], w.path[j], w.path[k], p, precision)
      BY <1>1, <1>2, <3>1 DEF Views
    <3>4. NextView(g[j], v.path[j], v.path[k], p, precision)
            = NextView(g[j], w.path[j], w.path[k], p, precision)
      BY <3>2, SameStep
    <3> QED
      BY <2>1, <3>2, <3>3, <3>4
  <2> QED
    BY <2>2, <2>3
<1>5. g[n + 1] = h[n + 1]
  BY <1>3, <1>4
<1> QED
  BY <1>1, <1>2, <1>5 DEF Views

(***************************************************************************)
(* Two worlds that a player cannot tell apart, and that list the other     *)
(* side alike, give it the same view, however deep the search is: for      *)
(* every world, every choice and every answer of the engine.               *)
(***************************************************************************)
THEOREM ViewsTellNoMore == SearchSpec => []ViewsHideTheWorld
<1>1. SearchInv => ViewsHideTheWorld
  <2> SUFFICES ASSUME SearchInv, SideBySide, NEW p \in Players,
                      SeenAlike(p, PublicHp(worlds[1].root.observed)), ListedAlike(p)
               PROVE  SameKey(p)
    BY DEF ViewsHideTheWorld
  <2>1. Walked(worlds[1]) /\ Walked(worlds[2])
    BY DEF SearchInv, WorldsInv, SideBySide, Prepared, WorldIds
  <2>2. worlds[1].views[p] = worlds[2].views[p]
    BY <2>1, SameViews DEF SideBySide, SeenAlike, ListedAlike
  <2> QED
    BY <2>2 DEF SameKey, InformationStateKey, PlayerView
<1> QED
  BY <1>1, SearchBegins, SearchGoesOn, PTL DEF SearchSpec

-----------------------------------------------------------------------------
(***************************************************************************)
(* The request itself, before the search: reader, reconciler and encoder.  *)
(***************************************************************************)
\* An order of the team names every slot: an injection of a finite set into
\* itself is onto.
LEMMA OrdersNameTheTeam ==
    ASSUME NEW n \in Nat, NEW seats \in TeamOrders(n)
    PROVE  {seats[i] : i \in DOMAIN seats} = 1..n
<1>1. seats \in [1..n -> 1..n] /\ seats \in Injection(1..n, 1..n)
  BY DEF TeamOrders, Injection, IsInjective
<1>2. IsFiniteSet(1..n)
  BY FS_Interval
<1>3. seats \in Surjection(1..n, 1..n)
  BY <1>1, <1>2, FS_Injection
<1> QED
  BY <1>1, <1>3 DEF Surjection

\* What a request offers, kind by kind.
LEMMA Offers ==
    ASSUME NEW p \in Payload
    PROVE  /\ RequestKind(p) \in {"wait", "team_preview", "revival", "forced_switch", "move"}
           /\ RequestKind(p) = "wait" => SafeSubmissions(p) = {}
           /\ RequestKind(p) = "team_preview" =>
                 SafeSubmissions(p) =
                   {Submission("team", o, FALSE) : o \in TeamOrders(Len(p.team))} \cup {Default}
           /\ RequestKind(p) = "revival" =>
                 SafeSubmissions(p) = ToSlots("revive", Fainted(p), FALSE) \cup {Default}
           /\ RequestKind(p) = "forced_switch" =>
                 SafeSubmissions(p) = ToSlots("switch", Healthy(p), FALSE) \cup {Default}
           /\ RequestKind(p) = "move" =>
                 /\ Default \in SafeSubmissions(p)
                 /\ \A s \in SafeSubmissions(p) :
                       \/ s = Default \/ s \in ToSlots("switch", Healthy(p), FALSE)
                       \/ \E tera \in BOOLEAN : s \in ToSlots("move", EnabledMoves(p), tera)
<1>1. RequestKind(p) \in {"wait", "team_preview", "revival", "forced_switch", "move"}
  BY DEF RequestKind
<1>2. p.unsure \in BOOLEAN
  BY DEF Payload
<1>3. CASE RequestKind(p) = "wait"
  BY <1>3 DEF SafeSubmissions
<1>4. CASE RequestKind(p) = "team_preview"
  BY <1>4 DEF SafeSubmissions
<1>5. CASE RequestKind(p) = "revival"
  BY <1>5 DEF SafeSubmissions
<1>6. CASE RequestKind(p) = "forced_switch"
  BY <1>6 DEF SafeSubmissions
<1>7. CASE RequestKind(p) = "move"
  BY <1>2, <1>7 DEF SafeSubmissions, MoveSubmissions
<1> QED
  BY <1>1, <1>3, <1>4, <1>5, <1>6, <1>7

\* What a submission of each kind of request looks like.
LEMMA OfferedSubmission ==
    ASSUME NEW p \in Payload, NEW s \in SafeSubmissions(p)
    PROVE  /\ RequestKind(p) # "wait" /\ s.kind \in AllowedKinds[RequestKind(p)]
           /\ s = Submission(s.kind, s.args, s.tera)
           /\ s.kind = "team" => s.args \in TeamOrders(Len(p.team))
<1>1. AllowedKinds["team_preview"] = {"team", "default"}
  BY DEF AllowedKinds
<1>2. AllowedKinds["revival"] = {"revive", "default"}
  BY DEF AllowedKinds
<1>3. AllowedKinds["forced_switch"] = {"switch", "default"}
  BY DEF AllowedKinds
<1>4. AllowedKinds["move"] = {"move", "switch", "default"}
  BY DEF AllowedKinds
<1>5. ASSUME NEW kind, NEW args, NEW tera, s = Submission(kind, args, tera)
      PROVE  s.kind = kind /\ s.args = args /\ s = Submission(s.kind, s.args, s.tera)
  BY <1>5 DEF Submission
<1>6. CASE s = Default
  <2>1. s.kind = "default" /\ s = Submission(s.kind, s.args, s.tera)
    BY <1>5, <1>6 DEF Default
  <2> QED
    BY <1>1, <1>2, <1>3, <1>4, <2>1, Offers
<1>7. ASSUME NEW kind, NEW slots, NEW tera, s \in ToSlots(kind, slots, tera)
      PROVE  s.kind = kind /\ s = Submission(s.kind, s.args, s.tera)
  <2>1. PICK i \in slots : s = Submission(kind, <<i>>, tera)
    BY <1>7 DEF ToSlots
  <2> QED
    BY <1>5, <2>1
<1>8. CASE RequestKind(p) = "team_preview" /\ s # Default
  <2>1. PICK o \in TeamOrders(Len(p.team)) : s = Submission("team", o, FALSE)
    BY <1>8, Offers
  <2> QED
    BY <1>1, <1>5, <1>8, <2>1
<1>9. CASE RequestKind(p) = "revival" /\ s # Default
  <2>1. s.kind = "revive" /\ s = Submission(s.kind, s.args, s.tera)
    BY <1>7, <1>9, Offers
  <2> QED
    BY <1>2, <1>9, <2>1
<1>10. CASE RequestKind(p) = "forced_switch" /\ s # Default
  <2>1. s.kind = "switch" /\ s = Submission(s.kind, s.args, s.tera)
    BY <1>7, <1>10, Offers
  <2> QED
    BY <1>3, <1>10, <2>1
<1>11. CASE RequestKind(p) = "move" /\ s # Default
  <2>1. s.kind \in {"move", "switch"} /\ s = Submission(s.kind, s.args, s.tera)
    BY <1>7, <1>11, Offers
  <2> QED
    BY <1>4, <1>11, <2>1
<1> QED
  BY <1>6, <1>8, <1>9, <1>10, <1>11, Offers

(***************************************************************************)
(* Whatever the server asks: what read_request offers passes the checks of *)
(* the reconciler, and encode_submission writes different submissions of a *)
(* request differently, although a revival reads like a switch.            *)
(***************************************************************************)
THEOREM ReaderAndEncoderFit == SearchSpec => []ReaderAndEncoderAgree
<1> DEFINE Asked == payload \in Payload
<1>1. SearchInit => Asked
  BY RequestsAssumption DEF SearchInit, Init
<1>2. Asked /\ [SearchNext]_<<vars, searchVars>> => Asked'
  <2> SUFFICES ASSUME [SearchNext]_<<vars, searchVars>> PROVE payload' = payload
    OBVIOUS
  <2>1. CASE UNCHANGED <<vars, searchVars>> \/ Return \/ Next
    BY <2>1 DEF vars, Return, Next, Refuse, Wait, Choose
  <2>2. \A i, s : Initialize(i, s) => payload' = payload
    BY DEF Initialize
  <2>3. \A w, request, safe, observed, doc, given, fault :
           PrepareBattleRoot(w, request, safe, observed, doc, given, fault) => payload' = payload
    BY DEF PrepareBattleRoot
  <2>4. \A w, identity, actions : PrepareRoot(w, identity, actions) => payload' = payload
    BY DEF PrepareRoot, vars
  <2>5. \A w : Play(w) => payload' = payload
    BY DEF Play, Transition
  <2>6. \A w, player, fault : AskLegalActions(w, player, fault) => payload' = payload
    BY DEF AskLegalActions, vars
  <2> QED
    BY <2>1, <2>2, <2>3, <2>4, <2>5, <2>6 DEF SearchNext
<1>3. Asked => ReaderFitsReconciler
  <2> SUFFICES ASSUME Asked PROVE SafeSetFits(payload)
    BY DEF ReaderFitsReconciler
  <2>1. Len(payload.team) \in Nat
    BY DEF Payload
  <2>2. IF RequestKind(payload) = "wait" THEN SafeSubmissions(payload) = {}
        ELSE \E s \in SafeSubmissions(payload) : s.kind = "default"
    <3>1. Default.kind = "default"
      BY DEF Default, Submission
    <3>2. RequestKind(payload) # "wait" => Default \in SafeSubmissions(payload)
      BY Offers
    <3> QED
      BY <3>1, <3>2, Offers
  <2>3. ASSUME NEW s \in SafeSubmissions(payload), s.kind = "team"
        PROVE  {s.args[i] : i \in DOMAIN s.args} = 1..Len(payload.team)
    BY <2>1, <2>3, OfferedSubmission, OrdersNameTheTeam
  <2> QED
    BY <2>2, <2>3, OfferedSubmission DEF SafeSetFits
<1>4. Asked => CommandTellsSubmissionsApart
  <2> SUFFICES ASSUME Asked, NEW s \in SafeSubmissions(payload), NEW t \in SafeSubmissions(payload),
                      Command(payload, s) = Command(payload, t)
               PROVE  s = t
    BY DEF CommandTellsSubmissionsApart
  <2> DEFINE Verb(k) == IF k = "revive" THEN "switch" ELSE k
  <2>1. Verb(s.kind) = Verb(t.kind) /\ s.args = t.args /\ s.tera = t.tera
    BY DEF Command
  <2>2. ~(s.kind = "revive" /\ t.kind = "switch") /\ ~(t.kind = "revive" /\ s.kind = "switch")
    <3>1. RequestKind(payload) \in {"team_preview", "revival", "forced_switch", "move"}
      BY OfferedSubmission, Offers
    <3>2. \A o \in {s, t} : o.kind \in AllowedKinds[RequestKind(payload)]
      BY OfferedSubmission
    <3> QED
      BY <3>1, <3>2 DEF AllowedKinds
  <2>3. s.kind = t.kind
    BY <2>1, <2>2
  <2> QED
    BY <2>1, <2>3, OfferedSubmission
<1> QED
  BY <1>1, <1>2, <1>3, <1>4, PTL DEF SearchSpec, ReaderAndEncoderAgree
=============================================================================
